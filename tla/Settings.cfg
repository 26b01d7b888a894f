SPECIFICATION Spec
CONSTANTS
  NoFile = NoFile
  NoName = ""
  Names <- MCNames
  Files <- MCFiles
  DefaultsFiles <- MCDefaultsFiles
  Edits <- MCEdits
  kEditBound = 1
  kToggleBound = 2
INVARIANTS
  TypeOK
  ScanSeesWhatIsRead
  NothingIgnoredSilently
  ImportKeepsChoices
  FileKeepsUp
