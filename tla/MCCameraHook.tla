----------------------------- MODULE MCCameraHook ------------------------------
(* The instance of CameraHook that TLC checks. *)
EXTENDS CameraHook

\* Two worlds are what it takes for a call to restore the wrong one.  One rotation,
\* one lean and one camera of each kind, usable and not, take every branch of the
\* two guards; the switch and the yaw mode have their two values each.
MCWorlds == {"menu", "game"}
MCCameras == {"camera", "brokenCamera"}
MCRotations == {"turned", "nanRotation"}
MCLeans == {"leaned"}
MCUnusable == {"brokenCamera", "nanRotation"}
================================================================================
