---------------------------- MODULE UACAudioHandler ----------------------------
(***************************************************************************)
(* The USB audio recorder: UACAudioHandler, its AudioThread and the UACAudio *)
(* that thread makes.                                                      *)
(*                                                                         *)
(* The application posts init, start, stop and release to the audio thread  *)
(* and calls getters on its own threads. mUACAudio is made under mSync with *)
(* a notifyAll, and the getters wait on mSync until there is one, some of   *)
(* them without a timeout; the release handler takes no lock. A getter that *)
(* has tested mUACAudio reads it again, so testing and using it are steps.  *)
(***************************************************************************)
EXTENDS Naturals, Sequences

CONSTANTS
  AudioClients,   \* application threads that post messages and call getters
  MaxPosts,       \* bound: messages the application posts
  MaxGets         \* bound: getter calls of a thread

ASSUME AudioConstants == "free" \notin AudioClients /\ MaxPosts \in Nat /\ MaxGets \in Nat

VARIABLES
  audioThread,    \* the thread: where it is, its messages, its flags
  mUACAudio,      \* the status of the object, or "null"
  mSync,          \* who is inside synchronized (mSync) between two steps
  getter          \* the getter, or the post of a message, each client is in

audioVars == <<audioThread, mUACAudio, mSync, getter>>

AudioMessages == {"init", "start", "stop", "release"}

AudioTypeOK ==
  /\ audioThread \in
       [pc: {"run", "loop", "init", "wait", "create", "release", "null", "quit", "end", "dead"},
        queue: Seq(AudioMessages), handle: {"none", "handler", "null"}, created: BOOLEAN,
        mIsReleased: BOOLEAN, posts: 0..MaxPosts]
  /\ mUACAudio \in {"null", "CREATED", "ERROR", "RUNNING", "STOPPED", "RELEASED"}
  /\ mSync \in AudioClients \cup {"free"}
  /\ \A c \in AudioClients : mSync = c <=> getter[c].pc = "use"
  /\ getter \in [AudioClients ->
       [pc: {"idle", "send", "enter", "wait", "notified", "use"},
        message: AudioMessages \cup {"none"}, timed: BOOLEAN, calls: 0..MaxGets]]
  /\ \A c \in AudioClients : getter[c].pc = "send" <=> getter[c].message # "none"

\* AudioThread has been started; createHandler waits for the handler.
AudioInit ==
  /\ audioThread = [pc |-> "run", queue |-> <<>>, handle |-> "none", created |-> FALSE,
                    mIsReleased |-> FALSE, posts |-> 0]
  /\ mUACAudio = "null" /\ mSync = "free"
  /\ getter = [c \in AudioClients |-> [pc |-> "idle", message |-> "none", timed |-> TRUE,
                                   calls |-> 0]]

-----------------------------------------------------------------------------
(* The application.                                                        *)

\* createHandler: getHandler waits for mUACHandler, at most 1500 ms.
CreateHandler ==
  /\ audioThread.handle = "none"
  /\ \E h \in {"handler", "null"} :
       /\ h = "handler" => audioThread.created
       /\ audioThread' = [audioThread EXCEPT !.handle = h]
  /\ UNCHANGED <<mUACAudio, mSync, getter>>

\* initAudioRecord, startRecording, stopRecording and releaseAudioRecord throw when the
\* handler is released, and only then send.
CheckPost(c, m) ==
  /\ audioThread.handle = "handler" /\ ~audioThread.mIsReleased
  /\ getter[c].pc = "idle" /\ audioThread.posts < MaxPosts
  /\ audioThread' = [audioThread EXCEPT !.posts = @ + 1]
  /\ getter' = [getter EXCEPT ![c].pc = "send", ![c].message = m]
  /\ UNCHANGED <<mUACAudio, mSync>>

\* A message for a looper that has quit meanwhile is dropped.
SendPost(c) ==
  /\ getter[c].pc = "send"
  /\ audioThread' = [audioThread EXCEPT
       !.queue = IF audioThread.pc \in {"end", "dead"} THEN @ ELSE Append(@, getter[c].message)]
  /\ getter' = [getter EXCEPT ![c].pc = "idle", ![c].message = "none"]
  /\ UNCHANGED <<mUACAudio, mSync>>

\* getSampleRate, getAudioStatus and isRecording wait with a timeout, getChannelCount and
\* getBitResolution without one.
CallGetter(c, timed) ==
  /\ audioThread.handle = "handler" /\ ~audioThread.mIsReleased
  /\ getter[c].pc = "idle" /\ getter[c].calls < MaxGets
  /\ getter' = [getter EXCEPT ![c].pc = "enter", ![c].timed = timed, ![c].calls = @ + 1]
  /\ UNCHANGED <<audioThread, mUACAudio, mSync>>

\* synchronized (mSync): wait while there is no audio object.
EnterGetter(c) ==
  /\ getter[c].pc = "enter" /\ mSync = "free"
  /\ IF mUACAudio = "null"
     THEN getter' = [getter EXCEPT ![c].pc = "wait"] /\ UNCHANGED mSync
     ELSE getter' = [getter EXCEPT ![c].pc = "use"] /\ mSync' = c
  /\ UNCHANGED <<audioThread, mUACAudio>>

WaitTimesOut(c) ==
  /\ getter[c].pc = "wait" /\ getter[c].timed
  /\ getter' = [getter EXCEPT ![c].pc = "notified"]
  /\ UNCHANGED <<audioThread, mUACAudio, mSync>>

\* A waiter goes on with mSync again; what it finds it returns.
LeaveWait(c) ==
  /\ getter[c].pc = "notified" /\ mSync = "free"
  /\ getter' = [getter EXCEPT ![c].pc = "idle"]
  /\ UNCHANGED <<audioThread, mUACAudio, mSync>>

\* Mutant: the lock is not given back.
UseAudioKeepsLock(c) ==
  /\ getter[c].pc = "use"
  /\ getter' = [getter EXCEPT ![c].pc = "idle"]
  /\ UNCHANGED <<audioThread, mUACAudio, mSync>>

UseAudio(c) ==
  /\ getter[c].pc = "use"
  /\ getter' = [getter EXCEPT ![c].pc = "idle"]
  /\ mSync' = "free"
  /\ UNCHANGED <<audioThread, mUACAudio>>

-----------------------------------------------------------------------------
(* The audio thread.                                                       *)

ToPc(pc) == audioThread' = [audioThread EXCEPT !.pc = pc]

NotifyAll ==
  getter' = [c \in AudioClients |->
               IF getter[c].pc = "wait" THEN [getter[c] EXCEPT !.pc = "notified"] ELSE getter[c]]

\* run: the handler is published and the looper starts.
SetHandler ==
  /\ audioThread.pc = "run" /\ mSync = "free"
  /\ audioThread' = [audioThread EXCEPT !.pc = "loop", !.created = TRUE]
  /\ NotifyAll
  /\ UNCHANGED <<mUACAudio, mSync>>

Take(m) ==
  /\ audioThread.pc = "loop" /\ audioThread.queue # <<>> /\ Head(audioThread.queue) = m

Taken(pc) == audioThread' = [audioThread EXCEPT !.pc = pc, !.queue = Tail(@)]

TakeInit ==
  /\ Take("init") /\ Taken("init")
  /\ UNCHANGED <<mUACAudio, mSync, getter>>

\* isRecording waits for an audio object, on the thread that would make it.
HandleInit ==
  /\ audioThread.pc = "init" /\ mSync = "free"
  /\ ToPc(CASE mUACAudio = "null" -> "wait"
            [] mUACAudio = "RUNNING" -> "loop"
            [] OTHER -> "create")
  /\ UNCHANGED <<mUACAudio, mSync, getter>>

\* Mutant: isRecording waits without a timeout.
InitWaitForever ==
  /\ audioThread.pc = "wait" /\ mUACAudio # "null"
  /\ ToPc("create")
  /\ UNCHANGED <<mUACAudio, mSync, getter>>

InitWaitTimesOut ==
  /\ audioThread.pc = "wait"
  /\ ToPc("create")
  /\ UNCHANGED <<mUACAudio, mSync, getter>>

\* Mutant: no notifyAll after the object is made.
MakeAudioSilently ==
  /\ audioThread.pc = "create" /\ mSync = "free"
  /\ mUACAudio' \in {"CREATED", "ERROR"}
  /\ ToPc("loop")
  /\ UNCHANGED <<mSync, getter>>

\* The new object replaces the one there was, which is not released.
MakeAudio ==
  /\ audioThread.pc = "create" /\ mSync = "free"
  /\ mUACAudio' \in {"CREATED", "ERROR"}
  /\ NotifyAll
  /\ ToPc("loop")
  /\ UNCHANGED mSync

HandleStart ==
  /\ Take("start") /\ Taken("loop")
  /\ mUACAudio' \in IF mUACAudio = "null" THEN {mUACAudio} ELSE {"RUNNING", "ERROR"}
  /\ UNCHANGED <<mSync, getter>>

\* UACAudio.stopRecording: it stays RUNNING when the native stop fails.
Stopped == IF mUACAudio = "RUNNING" THEN {"RUNNING", "STOPPED"} ELSE {mUACAudio}

HandleStop ==
  /\ Take("stop") /\ Taken("loop")
  /\ mUACAudio' \in Stopped
  /\ UNCHANGED <<mSync, getter>>

\* handleReleaseAudioRecord takes no lock: stop, release, null, quit.
HandleRelease ==
  /\ Take("release") /\ Taken("release")
  /\ mUACAudio' \in Stopped
  /\ UNCHANGED <<mSync, getter>>

ReleaseAudio ==
  /\ audioThread.pc = "release"
  /\ ToPc("null")
  /\ mUACAudio' = IF mUACAudio = "null" THEN "null" ELSE "RELEASED"
  /\ UNCHANGED <<mSync, getter>>

ForgetAudio ==
  /\ audioThread.pc = "null"
  /\ ToPc("quit")
  /\ mUACAudio' = "null"
  /\ UNCHANGED <<mSync, getter>>

QuitLooper ==
  /\ audioThread.pc = "quit"
  /\ audioThread' = [audioThread EXCEPT !.pc = "end", !.mIsReleased = TRUE, !.queue = <<>>]
  /\ UNCHANGED <<mUACAudio, mSync, getter>>

\* Mutant: the end of the thread wakes nobody.
EndThreadSilently ==
  /\ audioThread.pc = "end" /\ mSync = "free"
  /\ audioThread' = [audioThread EXCEPT !.pc = "dead", !.created = FALSE]
  /\ UNCHANGED <<mUACAudio, mSync, getter>>

EndThread ==
  /\ audioThread.pc = "end" /\ mSync = "free"
  /\ audioThread' = [audioThread EXCEPT !.pc = "dead", !.created = FALSE]
  /\ NotifyAll
  /\ UNCHANGED <<mUACAudio, mSync>>

-----------------------------------------------------------------------------

AudioThreadStep ==
  \/ SetHandler \/ TakeInit \/ HandleInit \/ InitWaitTimesOut \/ MakeAudio
  \/ HandleStart \/ HandleStop \/ HandleRelease
  \/ ReleaseAudio \/ ForgetAudio \/ QuitLooper \/ EndThread

GetterStep(c) ==
  \/ SendPost(c) \/ EnterGetter(c) \/ WaitTimesOut(c) \/ LeaveWait(c) \/ UseAudio(c)

AudioNext ==
  \/ CreateHandler
  \/ \E c \in AudioClients, m \in AudioMessages : CheckPost(c, m)
  \/ \E c \in AudioClients : CallGetter(c, TRUE) \/ CallGetter(c, FALSE)
  \/ AudioThreadStep
  \/ \E c \in AudioClients : GetterStep(c)

AudioSpec == AudioInit /\ [][AudioNext]_audioVars

-----------------------------------------------------------------------------
(* Properties.                                                             *)

\* No getter sleeps through the making of the object it waits for.
NoLostWakeup == (\E c \in AudioClients : getter[c].pc = "wait") => mUACAudio = "null"

\* A getter that waits, with or without a timeout, is woken by an init or a release that
\* is on its way.
OnItsWay ==
  \/ \E i \in DOMAIN audioThread.queue : audioThread.queue[i] \in {"init", "release"}
  \/ audioThread.pc \in {"init", "wait", "create", "release", "null", "quit", "end"}

GettersAreWoken ==
  \A c \in AudioClients : (getter[c].pc = "wait" /\ OnItsWay) ~> getter[c].pc # "wait"

\* The audio thread is never stuck in the wait of its own init: what is posted to it is
\* handled or dropped.
MessagesAreHandled == (audioThread.queue # <<>>) ~> (audioThread.queue = <<>>)
=============================================================================
