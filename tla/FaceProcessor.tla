---------------------------- MODULE FaceProcessor ----------------------------
(***************************************************************************)
(* FaceProcessor (helpers/face-processor.cpp): a face and the thread that  *)
(* runs its io_service, and the ways in which another thread has a block   *)
(* run there.  A client creates a processor anew for each session; ids     *)
(* tell processors and faces apart.                                        *)
(***************************************************************************)
EXTENDS Integers, Sequences

CONSTANTS
  None,
  MaxFaces  \* bound on the faces that are ever made

ASSUME FaceAssumption == None \notin Int /\ MaxFaces \in Nat \ {0}

VARIABLES
  processor,     \* the client's FaceProcessor: id, or None
  running,       \* isRunningFace_
  face,          \* id of its face_
  faces,         \* history: number of faces made so far
  signed,        \* the face that can sign commands to the forwarder, or None
  io,            \* blocks that wait in io_, each with the face it was made for
  caller,        \* the client's thread in performSynchronized: where it waits, doneFlag;
                 \* history: its block has thrown
  registration   \* prefix registration: id of the processor that asked, and its state

faceVars == <<processor, running, face, faces, signed, io, caller, registration>>

NoRegistration == [by |-> None, state |-> "none"]
NoCall == [wait |-> "no", done |-> FALSE, threw |-> FALSE]

FaceInit ==
  /\ processor = None /\ running = FALSE /\ face = None /\ faces = 0 /\ signed = None
  /\ io = <<>> /\ caller = NoCall /\ registration = NoRegistration

(* Constructor: initFace and runFace; start() then finds it running. *)
newProcessor ==
  /\ faces < MaxFaces
  /\ faces' = faces + 1 /\ processor' = faces' /\ face' = faces' /\ running' = TRUE
  /\ io' = <<>> /\ UNCHANGED <<signed, caller, registration>>

(* stop: the io_service is stopped and the thread joined, so that what      *)
(* waits there never runs; then the client lets go of the processor.        *)
stopProcessor ==
  /\ processor' = None /\ running' = FALSE /\ face' = None /\ io' = <<>>
  /\ registration' = NoRegistration
  /\ UNCHANGED <<faces, signed, caller>>

(* A key chain is made to sign the commands of the face. *)
setCommandSigningInfo ==
  /\ signed' = face
  /\ UNCHANGED <<processor, running, face, faces, io, caller, registration>>

-----------------------------------------------------------------------------
(* performSynchronized, by another than the face thread, has a block run    *)
(* and waits for it; without a face thread it does nothing.  The flag is    *)
(* looked at ("check"), and if it is not set the caller goes ("drowsy") to  *)
(* sleep ("asleep").                                                        *)
performSynchronized ==
  /\ IF running
       THEN io' = Append(io, face) /\ caller' = [NoCall EXCEPT !.wait = "check"]
       ELSE UNCHANGED <<io, caller>>
  /\ UNCHANGED <<processor, running, face, faces, signed, registration>>

Waits ==
  /\ \/ caller.wait = "check" /\ caller' = IF caller.done THEN NoCall ELSE [caller EXCEPT !.wait = "drowsy"]
     \/ caller.wait = "drowsy" /\ caller' = [caller EXCEPT !.wait = "asleep"]
  /\ UNCHANGED <<processor, running, face, faces, signed, io, registration>>

Woken == IF caller.wait = "asleep" THEN "check" ELSE caller.wait

(* Fault: the caller is woken with the flag unset. *)
notifiedUnflagged == [caller EXCEPT !.wait = Woken]

(* The end of the block: the flag is set, and notify_one wakes a caller     *)
(* that sleeps already; no mutex keeps it from falling asleep in between.   *)
notified == [caller EXCEPT !.wait = Woken, !.done = TRUE]

(* The face thread runs a block, which registers a prefix. *)
RunBlock ==
  /\ running /\ io # <<>> /\ Head(io) = signed
  /\ io' = Tail(io) /\ caller' = notified
  /\ registration' = [by |-> processor, state |-> "pending"]
  /\ UNCHANGED <<processor, running, face, faces, signed>>

(* io_.run throws: a new face is made and the loop goes on, or none can be  *)
(* made and the thread ends.                                                *)
tryToRecover ==
  \/ faces < MaxFaces /\ faces' = faces + 1 /\ face' = faces' /\ UNCHANGED running
  \/ running' = FALSE /\ UNCHANGED <<faces, face>>

(* The block throws, as it must on a face that cannot sign: nobody is told. *)
BlockThrows ==
  /\ running /\ io # <<>> /\ io' = Tail(io)
  /\ tryToRecover
  /\ caller' = [caller EXCEPT !.threw = TRUE]
  /\ UNCHANGED <<processor, signed, registration>>

(* Anything else that runs on the face thread throws. *)
RecoverFace ==
  /\ running /\ tryToRecover
  /\ UNCHANGED <<processor, signed, io, caller, registration>>

(* The forwarder answers, or does not. *)
RegistrationEnds(state) ==
  /\ running /\ registration.state = "pending"
  /\ registration' = [registration EXCEPT !.state = state]
  /\ UNCHANGED <<processor, running, face, faces, signed, io, caller>>

-----------------------------------------------------------------------------
(* The two ways in which performSynchronized never returns: the caller      *)
(* sleeps through the notification; its block threw or never runs, since    *)
(* the face thread has ended.                                               *)
SleptThrough == caller.wait = "asleep" /\ caller.done
BlockLost == caller.threw \/ (io # <<>> /\ ~running)
=============================================================================
