------------------------------- MODULE Wrapper -------------------------------
(***************************************************************************)
(* The container of a subject application (multiapp/subjects/*/            *)
(* harness-adapter/wrapper.py): a proxy that starts the application, opens *)
(* its own port, answers the operator's readiness probe itself, injects    *)
(* the faults F5 and F10 and forwards everything else.  The container ends *)
(* with the application and the kubelet starts it again.  The four         *)
(* wrappers have the same handler; they differ in how they wait before the *)
(* port is opened.                                                         *)
(***************************************************************************)
EXTENDS Naturals

CONSTANTS Subjects,   \* the subjects deployed, of {"s2", "s3", "s4", "s5"}
          Envs,       \* the faults switched on by environment: "none", "F5", "F10"
          MaxCrashes  \* bound: deaths, hangs and slow boots of the application

ASSUME WrapperAssumption ==
  /\ Subjects \subseteq {"s2", "s3", "s4", "s5"}
  /\ Envs \subseteq {"none", "F5", "F10"}
  /\ MaxCrashes \in Nat

VARIABLES sid,      \* the subject of this Preview
          env,      \* its injected fault
          phase,    \* of the wrapper: "starting", "serving", "down"
          app,      \* the application: "booting", "up", "hung", "dead"
          early,    \* a request met an application that was still booting
          crashes,
          call      \* the request a test script waits for

wrapperVars == <<sid, env, phase, app, early, crashes, call>>

\* What a request asks for decides what the handler does with it.
Routes == {"healthz", "html", "api", "other", "probe"}
\* "ok": the application's 2xx; "error": its 5xx, a JSON body; "broken" and "flake":
\* injected 500s, HTML and JSON; "proxyError": 502 and a text; "torn": the 2xx status
\* line went out before the body broke off; "none": no answer at all.
Kinds == {"ok", "error", "broken", "flake", "proxyError", "torn", "none"}
NoCall == [st |-> "idle"]

Answer(kind) == [call EXCEPT !.st = "answered", !.kind = kind]

-----------------------------------------------------------------------------
(* The main program.                                                       *)

Boot ==
  /\ app = "booting"
  /\ app' = "up"
  /\ UNCHANGED <<sid, env, phase, early, crashes, call>>

Crash ==
  /\ crashes < MaxCrashes /\ app # "dead"
  /\ app' = "dead" /\ crashes' = crashes + 1
  /\ UNCHANGED <<sid, env, phase, early, call>>

Hang ==
  /\ crashes < MaxCrashes /\ app \in {"booting", "up"}
  /\ app' = "hung" /\ crashes' = crashes + 1
  /\ UNCHANGED <<sid, env, phase, early, call>>

\* How main waits before it opens the port: s2, s3 and s4 sleep, whatever the application
\* does; s5 asks the application for /api/vets every 2 seconds until it answers 200.
StartS2 == [polls |-> FALSE, seconds |-> 3]
StartS3 == [polls |-> FALSE, seconds |-> 5]
StartS4 == [polls |-> FALSE, seconds |-> 8]
\* Mutant: the "old behavior" of the comment, the port is opened after 25 seconds.
SleepingS5 == [polls |-> FALSE, seconds |-> 25]
StartS5 == [polls |-> TRUE, seconds |-> 180]
Start == [s2 |-> StartS2, s3 |-> StartS3, s4 |-> StartS4, s5 |-> StartS5]

Open ==
  /\ phase = "starting" /\ (Start[sid].polls => app = "up")
  /\ phase' = "serving"
  /\ UNCHANGED <<sid, env, app, early, crashes, call>>

\* The container's end: every thread of the wrapper and the application end with it.
Exited ==
  /\ phase' = "down" /\ app' = "dead"
  /\ call' = IF call.st \in {"sent", "forwarded"} /\ call.route # "probe"
             THEN Answer("none") ELSE call
  /\ UNCHANGED <<sid, env, early>>

PollSeesExit ==
  /\ Start[sid].polls /\ phase = "starting" /\ app = "dead"
  /\ Exited /\ UNCHANGED crashes

\* Mutant: the loop has no deadline.
PollForEver == Start[sid].polls /\ phase = "starting" /\ app = "hung" /\ UNCHANGED wrapperVars
\* The seconds are over without an answer: the application is terminated.
PollGivesUp ==
  /\ Start[sid].polls /\ phase = "starting"
  /\ \/ app = "hung" /\ UNCHANGED crashes
     \/ app = "booting" /\ crashes < MaxCrashes /\ crashes' = crashes + 1
  /\ Exited

ExitWithApp ==
  /\ phase = "serving" /\ app = "dead"
  /\ Exited /\ UNCHANGED crashes

Restart ==
  /\ phase = "down"
  /\ phase' = "starting" /\ app' = "booting"
  /\ UNCHANGED <<sid, env, early, crashes, call>>

Lifecycle ==
  \/ Boot \/ Crash \/ Hang \/ Restart
  \/ Open \/ PollSeesExit \/ PollGivesUp \/ ExitWithApp

-----------------------------------------------------------------------------
(* The handler, one thread per request.                                    *)

Answered(kind) == call' = Answer(kind) /\ UNCHANGED <<sid, env, phase, app, early, crashes>>
Arrived == call.st = "sent" /\ call.route # "probe"

Refuse == Arrived /\ phase # "serving" /\ Answered("none")

Healthz == Arrived /\ phase = "serving" /\ call.route = "healthz" /\ Answered("ok")

BreaksFrontend == env = "F5" /\ call.route = "html"

BrokenFrontend ==
  /\ Arrived /\ phase = "serving" /\ BreaksFrontend
  /\ Answered("broken")

\* Mutant: the injected error goes out with status 200.
FlakeWithStatusOk ==
  /\ Arrived /\ phase = "serving" /\ env = "F10" /\ call.route = "api"
  /\ Answered("torn")
Flake ==
  /\ Arrived /\ phase = "serving" /\ env = "F10" /\ call.route = "api"
  /\ Answered("flake")

Forward ==
  /\ Arrived /\ phase = "serving" /\ call.route # "healthz" /\ ~BreaksFrontend
  /\ call' = [call EXCEPT !.st = "forwarded"]
  /\ UNCHANGED <<sid, env, phase, app, early, crashes>>

Handle == Refuse \/ Healthz \/ BrokenFrontend \/ Flake \/ Forward

Upstream == call.st = "forwarded" /\ call.route # "probe"

\* No connection, or 30 seconds without an answer.
ProxyError ==
  /\ Upstream /\ app # "up"
  /\ call' = Answer("proxyError")
  /\ early' = (early \/ app = "booting")
  /\ UNCHANGED <<sid, env, phase, app, crashes>>

\* The application answers; what it did to the database is the environment's part.
AppAnswers(kind) == Upstream /\ app = "up" /\ Answered(kind)

\* The application dies while its answer is passed on: the status is out already when
\* the handler writes its 502 behind it.
AppDiesAnswering ==
  /\ Upstream /\ app = "up" /\ crashes < MaxCrashes
  /\ app' = "dead" /\ crashes' = crashes + 1
  /\ call' = Answer("torn")
  /\ UNCHANGED <<sid, env, phase, early>>

WrapperInit ==
  /\ sid \in Subjects /\ env \in Envs
  /\ phase = "starting" /\ app = "booting" /\ early = FALSE
  /\ crashes = 0 /\ call = NoCall
==============================================================================
