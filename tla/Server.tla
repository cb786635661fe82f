------------------------------- MODULE Server -------------------------------
(***************************************************************************)
(* The tiauth process (tiauth/src/main.rs with GovernorServerState of      *)
(* tiauth-server/src/state.rs): the main thread with the server loop, the  *)
(* governor thread that loads and deletes applications, and the thread     *)
(* that handles control-C.  They share the map of applications (the        *)
(* OnceMap that AppendOnlyMap implements: only the governor writes it),    *)
(* the list of files to delete, a watch channel that carries restarts, a   *)
(* broadcast channel to stop the server loop and one to stop the others.   *)
(***************************************************************************)
EXTENDS Integers, Sequences, FiniteSets

CONSTANTS Apps,
          AppSlots,       \* capacity of the map of applications
          DeleteSlots,    \* capacity of the list of files to delete
          MaxRestarts,    \* bound: requests to /restart
          MaxSignals      \* bound: times control-C is pressed

ASSUME SlotsAssumption == AppSlots \in Nat \ {0} /\ DeleteSlots \in Nat \ {0}

ASSUME BoundsAssumption == MaxRestarts \in Nat /\ MaxSignals \in Nat

VARIABLES
    main,       \* where the main thread is
    version,    \* watch channel: how often a state was sent
    seen,       \* the version the receiver of this turn has marked as seen
    served,     \* the version of the state the router of this turn was made of
    exitHeld,   \* the exit receiver of this turn holds a message
    stops,      \* messages sent on the channel that stops the other threads
    governor,   \* "running", "done" or "panicked"
    apps,       \* applications in the map
    inactive,   \* applications marked as not active
    toDelete,   \* apps_to_delete
    files,      \* database files on disk
    handler,    \* where the control-C thread is
    removing,   \* position of the handler in apps_to_delete
    signals     \* control-C: [pressed |-> how often, pending |-> not handled]

mainVars     == <<main, seen, served, exitHeld>>
governorVars == <<governor, apps, inactive, toDelete>>
handlerVars  == <<handler, removing>>
serverVars == <<mainVars, governorVars, handlerVars, version, stops, files, signals>>

\* main has set up the threads and the handler and enters the server loop.
ServerInit ==
    /\ main = "subscribe" /\ seen = 0 /\ served = 0 /\ exitHeld = FALSE
    /\ version = 0
    /\ stops = 0
    /\ governor = "running" /\ apps = {} /\ inactive = {} /\ toDelete = <<>>
    /\ files = {}
    /\ handler = "waiting" /\ removing = 0
    /\ signals = [pressed |-> 0, pending |-> 0]

\* The process ends with its main thread.
Ended == main \in {"returned", "panicked"}

Looping == main \in {"subscribe", "load", "serve", "drain"}

(***************************************************************************)
(* server, new_state and the end of main                                   *)
(***************************************************************************)

\* A turn starts with a new exit receiver, which sees later messages only.
Subscribe ==
    /\ main = "subscribe"
    /\ main' = "load"
    /\ exitHeld' = FALSE
    /\ UNCHANGED <<seen, served, version, stops, files, signals, governorVars, handlerVars>>

\* Mutant of BorrowState: a state may be sent between borrow and mark.
BorrowTwice ==
    /\ main = "load"
    /\ main' = "serve"
    /\ seen' = version
    /\ served' \in served..version
    /\ UNCHANGED <<exitHeld, version, stops, files, signals, governorVars, handlerVars>>

\* borrow_and_update, create_router and bind.
BorrowState ==
    /\ main = "load"
    /\ main' = "serve"
    /\ seen' = version
    /\ served' = version
    /\ UNCHANGED <<exitHeld, version, stops, files, signals, governorVars, handlerVars>>

\* new_state: a state was sent, so the server stops to accept requests ...
NewState ==
    /\ main = "serve"
    /\ version # seen
    /\ main' = "drain"
    /\ UNCHANGED <<seen, served, exitHeld, version, stops, files, signals, governorVars, handlerVars>>

\* ... and the next turn starts once the open ones are answered.  An exit
\* message that this turn's receiver holds goes with the receiver.
Drained ==
    /\ main = "drain"
    /\ main' = "subscribe"
    /\ exitHeld' = FALSE
    /\ UNCHANGED <<seen, served, version, stops, files, signals, governorVars, handlerVars>>

\* select! takes the exit branch, and server returns.
Break ==
    /\ main \in {"serve", "drain"}
    /\ exitHeld
    /\ main' = "stop"
    /\ exitHeld' = FALSE
    /\ UNCHANGED <<seen, served, version, stops, files, signals, governorVars, handlerVars>>

\* Mutant of Stop: the message is not sent before the join.
StopSilent ==
    /\ main = "stop"
    /\ main' = "join"
    /\ UNCHANGED <<seen, served, exitHeld, version, stops, files, signals, governorVars, handlerVars>>

\* The first message: the governor may stop.
Stop ==
    /\ main = "stop"
    /\ main' = "join"
    /\ stops' = stops + 1
    /\ UNCHANGED <<seen, served, exitHeld, version, files, signals, governorVars, handlerVars>>

\* handle.join().unwrap()
JoinGovernor ==
    /\ main = "join"
    /\ \/ governor = "done" /\ main' = "last"
       \/ governor = "panicked" /\ main' = "panicked"
    /\ UNCHANGED <<seen, served, exitHeld, version, stops, files, signals, governorVars, handlerVars>>

\* The second message: the handler may remove files.
SendLast ==
    /\ main = "last"
    /\ main' = "return"
    /\ stops' = stops + 1
    /\ UNCHANGED <<seen, served, exitHeld, version, files, signals, governorVars, handlerVars>>

ReturnMain ==
    /\ main = "return"
    /\ main' = "returned"
    /\ UNCHANGED <<seen, served, exitHeld, version, stops, files, signals, governorVars, handlerVars>>

Main ==
    \/ Subscribe \/ BorrowState \/ NewState \/ Drained \/ Break
    \/ Stop \/ JoinGovernor \/ SendLast \/ ReturnMain

(***************************************************************************)
(* governor_loop                                                           *)
(***************************************************************************)

Serving == governor = "running" /\ ~ Ended

\* POST /restart
Restart ==
    /\ Serving
    /\ version < MaxRestarts
    /\ version' = version + 1
    /\ UNCHANGED <<mainVars, stops, files, signals, governorVars, handlerVars>>

MapFull == Cardinality(apps) = AppSlots

\* POST /load.  Loading an application a second time panics, and so does the
\* search for a place in a full map, after the file was made.
Load(a) ==
    /\ Serving
    /\ IF a \in apps \/ MapFull
       THEN governor' = "panicked" /\ UNCHANGED apps
       ELSE apps' = apps \cup {a} /\ UNCHANGED governor
    /\ files' = files \cup {a}
    /\ UNCHANGED <<inactive, toDelete, mainVars, version, stops, signals, handlerVars>>

\* Mutant of Delete: the application stays active.
DeleteActive(a) ==
    /\ Serving
    /\ a \in apps
    /\ Len(toDelete) < DeleteSlots
    /\ toDelete' = Append(toDelete, a)
    /\ UNCHANGED <<governor, apps, inactive, mainVars, version, stops, files, signals, handlerVars>>

\* POST /delete marks the application and pushes its file, unless the list is
\* full.  An application that is not in the map leaves everything as it is,
\* unless the map is full, when the search for it panics.
Delete(a) ==
    /\ Serving
    /\ IF a \in apps
       THEN /\ inactive' = inactive \cup {a}
            /\ IF Len(toDelete) < DeleteSlots
               THEN toDelete' = Append(toDelete, a) /\ UNCHANGED governor
               ELSE governor' = "panicked" /\ UNCHANGED toDelete
       ELSE /\ MapFull
            /\ governor' = "panicked"
            /\ UNCHANGED <<inactive, toDelete>>
    /\ UNCHANGED <<apps, mainVars, version, stops, files, signals, handlerVars>>

\* Mutant of GovernorStops: waits for the last message.
GovernorStopsLate ==
    /\ Serving
    /\ stops > 1
    /\ governor' = "done"
    /\ UNCHANGED <<apps, inactive, toDelete, mainVars, version, stops, files, signals, handlerVars>>

\* No request for 100 ms, and the exit channel is not empty.
GovernorStops ==
    /\ Serving
    /\ stops > 0
    /\ governor' = "done"
    /\ UNCHANGED <<apps, inactive, toDelete, mainVars, version, stops, files, signals, handlerVars>>

\* recv_timeout fails: the governor stops by itself, and nothing else notices.
GovernorFails ==
    /\ Serving
    /\ governor' = "done"
    /\ UNCHANGED <<apps, inactive, toDelete, mainVars, version, stops, files, signals, handlerVars>>

Governor == Restart \/ GovernorStops \/ GovernorFails \/ \E a \in Apps : Load(a) \/ Delete(a)

(***************************************************************************)
(* The control-C handler                                                   *)
(***************************************************************************)

PressControlC ==
    /\ ~ Ended
    /\ signals.pressed < MaxSignals
    /\ signals' = [pressed |-> signals.pressed + 1, pending |-> signals.pending + 1]
    /\ UNCHANGED <<mainVars, governorVars, handlerVars, version, stops, files>>

\* ex_tx.send(()).unwrap(): reaches the receiver of this turn if there is one,
\* and panics when the server loop is over.  The handler is there again after
\* it finished.
SendExit ==
    /\ ~ Ended
    /\ handler \in {"waiting", "finished"}
    /\ signals.pending > 0
    /\ signals' = [signals EXCEPT !.pending = @ - 1]
    /\ handler' = IF Looping THEN "first" ELSE "panicked"
    /\ exitHeld' = (exitHeld \/ main \in {"load", "serve", "drain"})
    /\ UNCHANGED <<main, seen, served, removing, governorVars, version, stops, files>>

ReceiveFirst ==
    /\ ~ Ended
    /\ handler = "first"
    /\ stops >= 1
    /\ handler' = "second"
    /\ UNCHANGED <<removing, mainVars, governorVars, version, stops, files, signals>>

\* Mutant of ReceiveSecond: one message is enough.
ReceiveSecondEarly ==
    /\ ~ Ended
    /\ handler = "second"
    /\ handler' = "removing"
    /\ UNCHANGED <<removing, mainVars, governorVars, version, stops, files, signals>>

ReceiveSecond ==
    /\ ~ Ended
    /\ handler = "second"
    /\ stops >= 2
    /\ handler' = "removing"
    /\ UNCHANGED <<removing, mainVars, governorVars, version, stops, files, signals>>

\* Mutant of Reached: one slot less.
ReachedLess == {i \in 1..Len(toDelete) : i < DeleteSlots - 1}

\* The positions Iter goes through: max_index is the last slot, which it
\* leaves out.
Reached == {i \in 1..Len(toDelete) : i < DeleteSlots}

\* a.destroy() panics when the file is gone.
RemoveFile ==
    /\ ~ Ended
    /\ handler = "removing"
    /\ removing + 1 \in Reached
    /\ LET a == toDelete[removing + 1]
       IN  IF a \in files
           THEN /\ files' = files \ {a}
                /\ removing' = removing + 1
                /\ UNCHANGED handler
           ELSE handler' = "panicked" /\ UNCHANGED <<files, removing>>
    /\ UNCHANGED <<mainVars, governorVars, version, stops, signals>>

\* "Exiting gracefully..."
Finish ==
    /\ ~ Ended
    /\ handler = "removing"
    /\ removing + 1 \notin Reached
    /\ handler' = "finished"
    /\ UNCHANGED <<removing, mainVars, governorVars, version, stops, files, signals>>

Handler == SendExit \/ ReceiveFirst \/ ReceiveSecond \/ RemoveFile \/ Finish

ServerNext == Main \/ Governor \/ Handler \/ PressControlC

(***************************************************************************)
(* Every thread runs on; requests and control-C need not come.  Requests   *)
(* that are open when the server drains are answered, and the governor     *)
(* gets 100 ms without a request at some time.                             *)
(***************************************************************************)
Fairness ==
    /\ WF_serverVars(Main)
    /\ WF_serverVars(GovernorStops)
    /\ WF_serverVars(Handler)

ServerSpec == ServerInit /\ [][ServerNext]_serverVars

FairSpec == ServerSpec /\ Fairness

-----------------------------------------------------------------------------
(***************************************************************************)
(* Properties                                                              *)
(***************************************************************************)

ServerTypeOK ==
    /\ main \in {"subscribe", "load", "serve", "drain", "stop", "join", "last",
                 "return", "returned", "panicked"}
    /\ version \in 0..MaxRestarts /\ seen \in 0..version /\ served \in 0..version
    /\ exitHeld \in BOOLEAN
    /\ stops \in 0..2
    /\ governor \in {"running", "done", "panicked"}
    /\ apps \subseteq Apps /\ inactive \subseteq apps /\ files \subseteq Apps
    /\ toDelete \in Seq(apps) /\ Len(toDelete) <= DeleteSlots
    /\ handler \in {"waiting", "first", "second", "removing", "finished", "panicked"}
    /\ removing \in 0..Len(toDelete)
    /\ signals \in [pressed : 0..MaxSignals, pending : 0..MaxSignals]

\* A file is removed only when nothing uses it any more: the server loop is
\* over and the governor, which holds the databases, has stopped.
FilesInUseStay == apps \subseteq files \/ (governor = "done" /\ ~ Looping)

\* Only a file whose application was deleted is removed.
OnlyDeletedRemoved == apps \ files \subseteq inactive

\* When the handler reports a graceful exit, the files of the deleted
\* applications are gone, but for the one in the last slot of the list.
DeletedAreRemoved ==
    handler = "finished" =>
        \A i \in 1..Len(toDelete) : i < DeleteSlots => toDelete[i] \notin files

\* A state sent by /restart reaches a router, unless the process stops first:
\* it is not lost between the turns of the server loop.
RestartTakesEffect ==
    \A n \in 1..MaxRestarts : version >= n ~> served >= n \/ ~ Looping

\* Once the server loop is over the process ends, even if the governor panics:
\* nobody waits for a message that is not sent.
ShutdownEnds == ~ Looping ~> Ended

\* An exit message that reached the server loop after the last restart did
\* ends the process.  (A restart that comes with it may cost the message.)
HeldExitStops == exitHeld /\ seen = MaxRestarts ~> Ended

\* What "Exiting gracefully..." of the handler promises: control-C ends the
\* process.
ControlCStops == handler = "first" ~> Ended

=============================================================================
