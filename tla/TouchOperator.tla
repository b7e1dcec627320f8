---------------------------- MODULE TouchOperator ----------------------------
(***************************************************************************)
(* The TouchDesigner operators (ndnrtcTOP): ndnrtcOut, which publishes the *)
(* pictures of its input, and ndnrtcIn, which shows a fetched stream.      *)
(* Both cook on the application's thread: parameters are compared with     *)
(* those seen last, what has to be made anew is queued as tasks, the tasks *)
(* run, a picture is passed on.  The face thread meanwhile runs blocks,    *)
(* answers registrations and renders.  A key chain is known by the         *)
(* processor whose face it was made for.                                   *)
(***************************************************************************)
EXTENDS FaceProcessor

CONSTANTS
  Hosts,      \* NFD hosts (and the choice of a key chain), which make all anew
  Settings,   \* settings of the stream: prefix, bit rate, GOP...
  BadSetting, \* one of them of which no stream can be made
  MaxEdits,   \* bound on what the user does
  MaxFrames   \* bound on the frames rendered

ASSUME OperatorAssumption ==
  /\ BadSetting \in Settings /\ None \notin Hosts /\ None \notin Settings
  /\ MaxEdits \in Nat /\ MaxFrames \in Nat

VARIABLES
  kind,       \* which operator: "In" or "Out"
  inputs,     \* parameters the user has set
  params,     \* params_, as of the last cook
  phase,      \* the cook: "idle", "tasks" or "picture"
  queue,      \* executeQueue_
  keyChain,   \* keyChainManager_: id of the processor it was made for, or None
  identity,   \* the signing identity is in the persistent key chain
  certs,      \* key chain whose certificates the memory content cache serves
  stream,     \* stream_, or None
  error,      \* errorString_
  prefixRegistered,
  edits,
  renderer,   \* front and back buffers: information and pixels of a frame
  shown,      \* what the operator put out last: receivedFrameInfo_ and pixels
  published   \* last frame published, with the stream's parameters then

operatorVars == <<kind, inputs, params, phase, queue, keyChain, identity, certs, stream,
                  error, prefixRegistered, edits, renderer, shown, published>>

topVars == <<faceVars, operatorVars>>

(* Parameters of the operator: of the library, the same for both, and of    *)
(* the stream that it publishes or fetches.                                 *)
LibConfig == [host : Hosts]
OutConfig == [setting : Settings]
InConfig == [setting : Settings]
StreamConfig == IF kind = "Out" THEN OutConfig ELSE InConfig
Inputs == {[host |-> l.host, setting |-> c.setting] : l \in LibConfig, c \in StreamConfig}

Params == [host : Hosts \cup {None}, setting : Settings \cup {None}]
Tasks == {"initFace", "initKeyChainManager", "registerPrefix", "publishCertificates",
          "createStream"}
Stream == [processor : 1..MaxFaces, keyChain : 1..MaxFaces, face : 1..MaxFaces,
           setting : Settings \cup {None}]
Blank == [info |-> 0, pixels |-> 0]
Errors == {"nfd", "keychain", "exception", "prefix", "registration"}

ASSUME NoneAssumption == None \notin Stream \cup Errors

(* Constructors: params_ are zeroed, so that the first cook finds all changed. *)
OperatorInit ==
  /\ FaceInit
  /\ kind \in {"In", "Out"}
  /\ inputs \in Inputs
  /\ params = [host |-> None, setting |-> None]
  /\ phase = "idle" /\ queue = <<>>
  /\ keyChain = None /\ identity = FALSE /\ certs = None
  /\ stream = None /\ error = None /\ prefixRegistered = FALSE /\ edits = 0
  /\ renderer = [front |-> Blank, back |-> Blank] /\ shown = Blank
  /\ published = None

-----------------------------------------------------------------------------
(* Tasks that init() queues, after it has emptied the queue. *)
initTasks ==
  IF kind = "Out"
    THEN <<"initFace", "initKeyChainManager", "registerPrefix", "publishCertificates">>
    ELSE <<"initFace", "initKeyChainManager">>

(* Fault: the stream outlives the processor. *)
releaseAllButStream == keyChain' = None /\ certs' = None /\ stream' = stream

(* init: stop the processor, let go of what used it. *)
releaseAll == keyChain' = None /\ certs' = None /\ stream' = None

(* checkInputs: names of the parameters that differ from those seen last. *)
updatedLibParams == {p \in {"host"} : inputs[p] # params[p]}
updatedOutParams == updatedLibParams \cup {p \in {"setting"} : inputs[p] # params[p]}
updatedInParams == updatedLibParams \cup {p \in {"setting"} : inputs[p] # params[p]}
updatedParams == IF kind = "Out" THEN updatedOutParams ELSE updatedInParams

(* execute: which tasks the changes call for. *)
updatedTasks ==
  IF "host" \in updatedParams THEN Append(initTasks, "createStream")
  ELSE IF updatedParams # {} THEN Append(queue, "createStream")
  ELSE queue

(* checkInputs, and init and initStream when parameters have changed. *)
BeginCook ==
  /\ phase = "idle" /\ phase' = "tasks"
  /\ params' = inputs
  /\ queue' = updatedTasks
  /\ IF "host" \in updatedParams
       THEN stopProcessor /\ releaseAll
       ELSE UNCHANGED <<faceVars, keyChain, certs, stream>>
  /\ UNCHANGED <<kind, inputs, identity, error, prefixRegistered, edits, renderer,
                 shown, published>>

(* The user sets a parameter. *)
Edit(new) ==
  /\ phase = "idle" /\ edits < MaxEdits /\ edits' = edits + 1
  /\ inputs' = new
  /\ UNCHANGED <<faceVars, kind, params, phase, queue, keyChain, identity, certs, stream,
                 error, prefixRegistered, renderer, shown, published>>

(* pulsePressed "Init": init and initStream at once. *)
PressInit ==
  /\ phase = "idle" /\ edits < MaxEdits /\ edits' = edits + 1
  /\ stopProcessor /\ releaseAll
  /\ queue' = Append(initTasks, "createStream")
  /\ UNCHANGED <<kind, inputs, params, phase, identity, error, prefixRegistered, renderer,
                 shown, published>>

(* pulsePressed "Reset", of ndnrtcIn. *)
PressReset ==
  /\ kind = "In"
  /\ phase = "idle" /\ edits < MaxEdits /\ edits' = edits + 1
  /\ queue' = Append(queue, "createStream")
  /\ UNCHANGED <<faceVars, kind, inputs, params, phase, keyChain, identity, certs, stream,
                 error, prefixRegistered, renderer, shown, published>>

-----------------------------------------------------------------------------
Running(task) == phase = "tasks" /\ caller = NoCall /\ queue # <<>> /\ Head(queue) = task

(* A task that returns is popped; the loop goes on. *)
Done == queue' = Tail(queue) /\ phase' = "tasks"

(* One that throws is popped and ends the loop for this cook. *)
Failed == queue' = Tail(queue) /\ phase' = "picture" /\ error' = "exception"

(* initFace: no connection to NFD is an error that does not end the loop,   *)
(* a FaceProcessor that cannot be made one that does.                       *)
InitFace ==
  /\ Running("initFace")
  /\ \/ newProcessor /\ Done /\ UNCHANGED error
     \/ Done /\ error' = "nfd" /\ UNCHANGED faceVars
     \/ Failed /\ UNCHANGED faceVars
  /\ UNCHANGED <<kind, inputs, params, keyChain, identity, certs, stream,
                 prefixRegistered, edits, renderer, shown, published>>

(* The KeyChainManager is not made: the policy file is not there, or a store *)
(* fails, before or after the signing identity was made.                    *)
KeyChainFails ==
  /\ keyChain' = None /\ identity' \in {identity, TRUE}
  /\ setCommandSigningInfo \/ UNCHANGED faceVars

(* setupInstanceKeyChain: the signing identity is made if there is none,    *)
(* signs commands of the face, and certifies an instance identity made in   *)
(* memory.                                                                  *)
setupInstanceKeyChain == keyChain' = processor /\ identity' = TRUE /\ setCommandSigningInfo

(* initKeyChainManager: the error is cleared, unless the constructor throws. *)
InitKeyChainManager ==
  /\ Running("initKeyChainManager") /\ Done
  /\ IF processor = None THEN UNCHANGED <<faceVars, keyChain, identity, error>>
     ELSE \/ setupInstanceKeyChain /\ error' = None
          \/ KeyChainFails /\ error' = "keychain"
  /\ UNCHANGED <<kind, inputs, params, certs, stream,
                 prefixRegistered, edits, renderer, shown, published>>

(* registerPrefix: performSynchronized waits for the face thread.  A face   *)
(* that was made anew since the key chain signs no commands.                *)
RegisterPrefix ==
  /\ Running("registerPrefix") /\ Done
  /\ IF processor = None \/ keyChain = None
       THEN UNCHANGED <<faceVars, prefixRegistered>>
       ELSE prefixRegistered' = FALSE /\ performSynchronized
  /\ UNCHANGED <<kind, inputs, params, keyChain, identity, certs, stream, error, edits,
                 renderer, shown, published>>

(* Fault: certificates go unpublished when there is no stream yet. *)
PublishCertificatesOfStream ==
  /\ Running("publishCertificates")
  /\ Done /\ certs' = IF stream # None THEN keyChain ELSE certs
  /\ UNCHANGED <<faceVars, kind, inputs, params, keyChain, identity, stream, error,
                 prefixRegistered, edits, renderer, shown, published>>

(* publishCertificates: a new content cache serves both certificates. *)
PublishCertificates ==
  /\ Running("publishCertificates")
  /\ \/ Done /\ certs' = keyChain /\ UNCHANGED error
     \/ keyChain # None /\ Failed /\ UNCHANGED certs
  /\ UNCHANGED <<faceVars, kind, inputs, params, keyChain, identity, stream,
                 prefixRegistered, edits, renderer, shown, published>>

newStream == [processor |-> processor, keyChain |-> keyChain, face |-> face,
              setting |-> inputs.setting]

(* createLocalStream lets the old stream go before it makes one, which may  *)
(* throw.                                                                   *)
createLocalStream ==
  IF inputs.setting # BadSetting
    THEN stream' = newStream /\ Done /\ UNCHANGED error
    ELSE stream' = None /\ Failed

(* createRemoteStream clears the error, and keeps the old stream when the   *)
(* prefix names no video stream.                                            *)
createRemoteStream ==
  /\ Done
  /\ IF inputs.setting # BadSetting
       THEN stream' = newStream /\ error' = None
       ELSE error' = "prefix" /\ UNCHANGED stream

WaitForBlock == phase = "tasks" /\ Waits /\ UNCHANGED operatorVars

CreateStream ==
  /\ Running("createStream")
  /\ IF processor = None \/ keyChain = None THEN Done /\ UNCHANGED <<stream, error>>
     ELSE IF kind = "Out" THEN createLocalStream ELSE createRemoteStream
  /\ UNCHANGED <<faceVars, kind, inputs, params, keyChain, identity, certs,
                 prefixRegistered, edits, renderer, shown, published>>

TasksDone ==
  /\ phase = "tasks" /\ caller = NoCall /\ queue = <<>> /\ phase' = "picture"
  /\ UNCHANGED <<faceVars, kind, inputs, params, queue, keyChain, identity, certs, stream,
                 error, prefixRegistered, edits, renderer, shown, published>>

-----------------------------------------------------------------------------
(* readBuffer, under the renderer's lock. *)
readBuffer == renderer.front

(* End of the cook: ndnrtcIn copies the front buffer, ndnrtcOut hands the   *)
(* picture of its input to the stream.                                      *)
PassPicture ==
  /\ phase = "picture" /\ phase' = "idle"
  /\ shown' = IF kind = "In" /\ stream # None THEN readBuffer ELSE shown
  /\ published' = IF kind = "Out" /\ stream # None
                    THEN [processor |-> stream.processor, certs |-> certs,
                          setting |-> stream.setting]
                    ELSE published
  /\ UNCHANGED <<faceVars, kind, inputs, params, queue, keyChain, identity, certs, stream,
                 error, prefixRegistered, edits, renderer>>

(* getFrameBuffer: the decoder writes pixels of the next frame into the back *)
(* buffer, whose information is still that of an older frame.               *)
GetFrameBuffer ==
  /\ kind = "In" /\ stream # None
  /\ renderer.back.pixels = 0 /\ renderer.front.info < MaxFrames
  /\ renderer' = [renderer EXCEPT !.back.pixels = renderer.front.info + 1]
  /\ UNCHANGED <<faceVars, kind, inputs, params, phase, queue, keyChain, identity, certs,
                 stream, error, prefixRegistered, edits, shown, published>>

(* renderFrame: information is set, the buffers are exchanged and the new    *)
(* back buffer is blanked under the lock.                                   *)
RenderFrame ==
  /\ kind = "In" /\ stream # None /\ renderer.back.pixels # 0
  /\ renderer' = [front |-> [renderer.back EXCEPT !.info = renderer.back.pixels],
                  back |-> [renderer.front EXCEPT !.pixels = 0]]
  /\ UNCHANGED <<faceVars, kind, inputs, params, phase, queue, keyChain, identity, certs,
                 stream, error, prefixRegistered, edits, shown, published>>

(* The face thread: the block that registers, the forwarder's answer to it,  *)
(* a failure of the face that the processor recovers from.                  *)
FaceRuns == (RunBlock \/ BlockThrows) /\ UNCHANGED operatorVars

PrefixAnswered ==
  \/ RegistrationEnds("done") /\ prefixRegistered' = TRUE /\ UNCHANGED error
  \/ RegistrationEnds("failed") /\ error' = "registration" /\ UNCHANGED prefixRegistered

RegistrationAnswered ==
  /\ PrefixAnswered
  /\ UNCHANGED <<kind, inputs, params, phase, queue, keyChain, identity, certs, stream,
                 edits, renderer, shown, published>>

FaceRecovers == RecoverFace /\ UNCHANGED operatorVars

Cook == \/ BeginCook \/ InitFace \/ InitKeyChainManager \/ RegisterPrefix \/ WaitForBlock
        \/ PublishCertificates \/ CreateStream \/ TasksDone \/ PassPicture

OperatorNext ==
  \/ Cook
  \/ \E new \in Inputs \ {inputs} : Edit(new)
  \/ PressInit \/ PressReset
  \/ GetFrameBuffer \/ RenderFrame
  \/ FaceRuns \/ RegistrationAnswered \/ FaceRecovers

OperatorSpec == OperatorInit /\ [][OperatorNext]_topVars

(* The application cooks every frame and the face thread runs. *)
FairSpec == OperatorSpec /\ WF_topVars(Cook) /\ WF_topVars(FaceRuns)

-----------------------------------------------------------------------------
(* What the operator tells the user: the channels of ndnrtcOut and of       *)
(* ndnrtcIn, and the entries that both have.                                *)
outChannels == [prefixRegistered |-> prefixRegistered]
inChannels == [receivedFrame |-> shown.info]
infoEntries == [signIdentity |-> identity, instanceIdentity |-> keyChain]

Queued(task) == \E i \in DOMAIN queue : queue[i] = task

(* Type correctness of the operator and its face processor. *)
OperatorTypeOK ==
  /\ processor \in (1..MaxFaces) \cup {None} /\ face \in (1..MaxFaces) \cup {None}
  /\ kind \in {"In", "Out"} /\ inputs \in Params /\ params \in Params
  /\ phase \in {"idle", "tasks", "picture"}
  /\ \A i \in DOMAIN queue : queue[i] \in Tasks
  /\ keyChain \in (1..MaxFaces) \cup {None} /\ certs \in (1..MaxFaces) \cup {None}
  /\ stream \in Stream \cup {None}
  /\ caller # NoCall => phase = "tasks" /\ processor # None

(* A stream refers to the processor's io_service and to the key chain by    *)
(* reference: whatever the user changes and whichever task fails, both are  *)
(* those that the operator still holds (ndnrtcTOPbase::init).               *)
StreamOnLiveProcessor ==
  stream # None =>
    /\ stream.processor = processor
    /\ stream.keyChain = keyChain /\ keyChain = processor

(* Once a cook has run its tasks, the stream is the one the user asked for, *)
(* or the operator shows an error: changes made while older tasks wait, and *)
(* tasks that throw, lose none (ndnrtcTOPbase::execute).                    *)
SettingsApplied ==
  phase = "picture" /\ error = None =>
    queue = <<>> /\ stream # None /\ stream.setting = params.setting

(* Through edits, failing tasks and broken faces, the stream is the one     *)
(* that was asked for, on what the operator holds now.                      *)
StreamAsSet == StreamOnLiveProcessor /\ SettingsApplied

(* An operator without a key chain has one to come or shows why it has none: *)
(* its information page reads the key chain (initKeyChainManager).          *)
KeyChainOrReason ==
  infoEntries.instanceIdentity = None => params.host = None \/ Queued("initKeyChainManager") \/ error # None

(* prefixRegistered tells of the registration the current processor asked   *)
(* for, never of an answer to an earlier one (registerPrefix).              *)
RegisteredByThis ==
  outChannels.prefixRegistered /\ keyChain # None /\ ~Queued("registerPrefix") /\ caller = NoCall
    /\ kind = "Out"
  => registration = [by |-> processor, state |-> "done"]

(* What ndnrtcOut publishes is signed by a key whose certificate is served, *)
(* or the operator shows an error: init queues the certificates before the  *)
(* stream, and a task that throws leaves the order.                         *)
PublishesVerifiable ==
  published # None /\ error = None /\ published.processor = processor =>
    /\ published.certs = published.processor
    /\ infoEntries.signIdentity

(* The picture put out and the information given with it are of one frame,  *)
(* however cooking and rendering interleave (RemoteStreamRenderer).         *)
ShownWhole == inChannels.receivedFrame = shown.pixels

(* Tasks are run in the end, whatever they wait for, throw or find missing, *)
(* but for two cases in which the application hangs in performSynchronized: *)
(* the face thread's notification is missed, or the block that registers    *)
(* throws or is left behind by a face thread that has ended.                *)
TasksRun == queue # <<>> ~> queue = <<>> \/ SleptThrough \/ BlockLost

(* What the operator tells on its pages, its channels and in its pictures   *)
(* is true of the key chain, registration, certificates and frame it has    *)
(* now.                                                                     *)
InformationIsTrue ==
  /\ OperatorTypeOK
  /\ KeyChainOrReason
  /\ RegisteredByThis
  /\ PublishesVerifiable
  /\ ShownWhole
=============================================================================
