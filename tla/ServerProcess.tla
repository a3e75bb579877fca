--------------------------- MODULE ServerProcess ---------------------------
(***************************************************************************)
(* The serving process seen from one client: main, serveWithListener with  *)
(* its shutdown goroutine, and markReadyOnceLive, over several starts and  *)
(* crashes.  Each timeout is an action that may come at any moment.  The   *)
(* ten seconds Shutdown waits for open requests are not here: main does    *)
(* not wait for the goroutine that waits.                                  *)
(***************************************************************************)
EXTENDS Naturals

CONSTANTS MaxBoots  \* bound: starts of the process

ASSUME BootAssumption == MaxBoots \in Nat

VARIABLES
  stage,      \* of main: down, starting (bound, before Serve), serving, returned
  boots,      \* starts so far
  signalled,  \* ctx is done
  closing,    \* Shutdown has begun
  prober,     \* markReadyOnceLive: probing /healthz, in the delay, or gone
  healthy,    \* history: /healthz was answered by this process
  ready,      \* Handler.ready
  call        \* the client's request

serverVars == <<stage, boots, signalled, closing, prober, healthy, ready>>

Stages == {"down", "starting", "serving", "returned"}
Calls  == {"none", "sent", "open", "answered", "failed"}

Up == stage # "down"

\* Shutdown closes only a listener Serve has registered.
Listening == stage = "starting" \/ (stage = "serving" /\ ~closing)

Cut(states) == (call' = IF call \in states THEN "failed" ELSE call)

ServerInit ==
  /\ stage = "down" /\ boots = 0
  /\ signalled = FALSE /\ closing = FALSE
  /\ prober = "gone" /\ healthy = FALSE /\ ready = FALSE
  /\ call = "none"

\* net.Listen and the start of both goroutines.
Boot ==
  /\ stage = "down" /\ boots < MaxBoots
  /\ stage' = "starting" /\ boots' = boots + 1
  /\ prober' = "probing"
  /\ UNCHANGED <<signalled, closing, healthy, ready, call>>

\* Serve closes the listener at once when Shutdown came first.
Serve ==
  /\ stage = "starting"
  /\ IF closing THEN stage' = "returned" /\ Cut({"sent"})
                ELSE stage' = "serving" /\ UNCHANGED call
  /\ UNCHANGED <<boots, signalled, closing, prober, healthy, ready>>

Signal ==
  /\ Up /\ ~signalled
  /\ signalled' = TRUE
  /\ UNCHANGED <<stage, boots, closing, prober, healthy, ready, call>>

\* Mutated form of Notified: the shutdown goroutine waits for readiness first.
NotifiedOnceReady == signalled /\ ready

\* <-ctx.Done() in the shutdown goroutine.
Notified == signalled

BeginShutdown ==
  /\ Up /\ Notified /\ ~closing
  /\ closing' = TRUE
  /\ IF stage = "serving" THEN Cut({"sent"}) ELSE UNCHANGED call
  /\ UNCHANGED <<stage, boots, signalled, prober, healthy, ready>>

\* Serve returns ErrServerClosed while handlers and workers may still run.
ServeReturns ==
  /\ stage = "serving" /\ closing
  /\ stage' = "returned"
  /\ UNCHANGED <<boots, signalled, closing, prober, healthy, ready, call>>

\* The end of the process takes its goroutines, tables and connections along.
Die ==
  /\ stage' = "down" /\ signalled' = FALSE /\ closing' = FALSE
  /\ prober' = "gone" /\ healthy' = FALSE /\ ready' = FALSE
  /\ Cut({"sent", "open"})
  /\ UNCHANGED boots

Exit == stage = "returned" /\ Die

Crash == Up /\ Die

AcceptCall ==
  /\ stage = "serving" /\ ~closing /\ call = "sent"
  /\ call' = "open"
  /\ UNCHANGED <<stage, boots, signalled, closing, prober, healthy, ready>>

\* Mutated form of AfterProbe: waitForHealthz reports a deadline as an answer.
AfterAnyProbe(answered) == "delay"

AfterProbe(answered) == IF answered THEN "delay" ELSE "gone"

ProbeAnswered ==
  /\ prober = "probing" /\ stage = "serving" /\ ~closing /\ ~signalled
  /\ healthy' = TRUE
  /\ prober' = AfterProbe(TRUE)
  /\ UNCHANGED <<stage, boots, signalled, closing, ready, call>>

\* startupProbeTimeout, or the signal.
GiveUp ==
  /\ prober = "probing"
  /\ prober' = AfterProbe(FALSE)
  /\ UNCHANGED <<stage, boots, signalled, closing, healthy, ready, call>>

\* With the timer and the signal both due, select takes either.
SetReady ==
  /\ prober = "delay"
  /\ ready' = TRUE /\ prober' = "gone"
  /\ UNCHANGED <<stage, boots, signalled, closing, healthy, call>>

DelayCancelled ==
  /\ prober = "delay" /\ signalled
  /\ prober' = "gone"
  /\ UNCHANGED <<stage, boots, signalled, closing, healthy, ready, call>>

\* The steps that leave the process's tables alone.
Running ==
  \/ Boot \/ Serve \/ Signal \/ BeginShutdown \/ ServeReturns \/ AcceptCall
  \/ ProbeAnswered \/ GiveUp \/ SetReady \/ DelayCancelled

\* The process ends: by itself or from outside.
Ending == Exit \/ Crash
=============================================================================
