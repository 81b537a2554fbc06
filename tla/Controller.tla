----------------------------- MODULE Controller -----------------------------
(***************************************************************************)
(* The programs that decide when a deployment is over (utils/ezio_cli.py,  *)
(* utils/ezio_ui.py and utils/ezio_ui_verbose.py), against the daemon and  *)
(* a user who adds, pauses and resumes torrents and may shut down.  A      *)
(* controller polls GetTorrentStatus, pauses what has finished and seeded  *)
(* enough, and calls Shutdown when all it saw had finished and was paused. *)
(* The command line decides on the answer it just got, the user interfaces *)
(* on the last one they got when their alarm goes off.                     *)
(***************************************************************************)
EXTENDS Daemon

CONSTANTS CTL, USER,       \* the clients
          MAX_USER_CALLS   \* bound on the user's calls

ASSUME ClientAssumption == Client = {CTL, USER} /\ CTL # USER /\ MAX_USER_CALLS \in Nat

VARIABLES
  kind,    \* "cli" or "ui"
  pc,      \* where the controller is
  data,    \* the last answer of GetTorrentStatus
  todo,    \* the torrents it is about to pause
  user     \* how many calls the user has yet to make; 0: the user has gone

ctlVars == <<kind, pc, data, todo>>
vars == <<daemonVars, ctlVars, user>>

TypeOK ==
  /\ DaemonTypeOK
  /\ kind \in {"cli", "ui"}
  /\ pc \in {"sleep", "get_data", "check_stop", "pause", "shutdown", "exited", "crashed"}
  /\ data \in Data
  /\ todo \in SUBSET Torrent
  /\ user \in 0 .. MAX_USER_CALLS

Init ==
  /\ DaemonInit
  /\ kind \in {"cli", "ui"}
  /\ pc = "sleep"
  /\ data = NoData
  /\ todo = {}
  /\ user = MAX_USER_CALLS

-----------------------------------------------------------------------------
\* What is to be paused, by an answer.
Due(d) == {t \in DOMAIN d : d[t].is_finished /\ ~d[t].is_paused /\ d[t].limit}

\* Bug: a paused torrent counts as done.
all_stop_paused == DOMAIN data # {} /\ \A t \in DOMAIN data : data[t].is_paused

\* Bug: torrents that were paused before they had seeded enough are waited for.
all_stop_seeded ==
  DOMAIN data # {} /\ \A t \in DOMAIN data : data[t].is_finished /\ data[t].is_paused /\ data[t].limit

all_stop == DOMAIN data # {} /\ \A t \in DOMAIN data : data[t].is_finished /\ data[t].is_paused

\* A call that fails raises grpc.RpcError, which nobody catches.
CallOrCrash(request, next) ==
  \/ Call(CTL, request) /\ pc' = next
  \/ server # "serving" /\ pc' = "crashed" /\ UNCHANGED daemonVars

get_data ==
  /\ pc = "sleep"
  /\ CallOrCrash([op |-> "GetTorrentStatus"], "get_data")
  /\ UNCHANGED <<kind, data, todo, user>>

\* Bug: the message is kept instead of the torrents in it.
got_data_message ==
  /\ pc = "get_data" /\ call[CTL].op = "reply"
  /\ data' = call[CTL]
  /\ call' = [call EXCEPT ![CTL] = NoCall]
  /\ pc' = "sleep"
  /\ UNCHANGED <<procVars, sessionVars, kind, todo, user>>

\* The answer arrives; the command line goes on to check_stop.
got_data ==
  /\ pc = "get_data" /\ call[CTL].op = "reply"
  /\ data' = call[CTL].data
  /\ call' = [call EXCEPT ![CTL] = NoCall]
  /\ IF kind = "cli"
     THEN pc' = "check_stop" /\ todo' = Due(call[CTL].data)
     ELSE pc' = "sleep" /\ UNCHANGED todo
  /\ UNCHANGED <<procVars, sessionVars, kind, user>>

\* The alarm of a user interface.
detect_all_finished ==
  /\ kind = "ui" /\ pc = "sleep"
  /\ pc' = "check_stop" /\ todo' = Due(data)
  /\ UNCHANGED <<daemonVars, kind, data, user>>

PauseNext ==
  /\ pc = "check_stop" /\ todo # {}
  /\ \E t \in todo :
       /\ CallOrCrash([op |-> "PauseTorrent", t |-> t], "pause")
       /\ todo' = todo \ {t}
  /\ UNCHANGED <<kind, data, user>>

Paused ==
  /\ pc = "pause" /\ call[CTL] = NoCall
  /\ pc' = "check_stop"
  /\ UNCHANGED <<daemonVars, kind, data, todo, user>>

\* After the pauses, by the answer from before them.
check_stop ==
  /\ pc = "check_stop" /\ todo = {}
  /\ IF all_stop THEN CallOrCrash([op |-> "Shutdown"], "shutdown")
     ELSE pc' = "sleep" /\ UNCHANGED daemonVars
  /\ UNCHANGED <<kind, data, todo, user>>

Exit ==
  /\ pc = "shutdown" /\ call[CTL] = NoCall
  /\ pc' = "exited"
  /\ UNCHANGED <<daemonVars, kind, data, todo, user>>

ControllerStep == got_data \/ PauseNext \/ Paused \/ check_stop \/ Exit

-----------------------------------------------------------------------------
\* ezio_add_torrent.py, ezio_pause_torrent.py, ezio_resume_torrent.py and
\* ezio_shutdown.py, at any time.
UserCall ==
  /\ user > 0 /\ user' = user - 1
  /\ \E request \in Request : request.op # "GetTorrentStatus" /\ Call(USER, request)
  /\ UNCHANGED ctlVars

Leave ==
  /\ user > 0 /\ ~InHandler(USER)
  /\ user' = 0
  /\ UNCHANGED <<daemonVars, ctlVars>>

Next ==
  \/ DaemonNext /\ UNCHANGED <<ctlVars, user>>
  \/ get_data \/ detect_all_finished \/ ControllerStep
  \/ UserCall \/ Leave

Spec == Init /\ [][Next]_vars

\* The alarms of a user interface share one event loop; each goes off again and again.
Fairness ==
  /\ DaemonFairness
  /\ WF_vars(ControllerStep) /\ SF_vars(get_data) /\ SF_vars(detect_all_finished)

FairSpec == Spec /\ Fairness

-----------------------------------------------------------------------------
\* A controller acts on answers that are old and were not taken at one instant,
\* while the user adds, pauses and resumes.  Still it pauses only torrents that
\* have finished, and asks for the shutdown only when all it was told of have.
ControllerWaitsForDownloads ==
  /\ call[CTL].op = "PauseTorrent" => torrent[call[CTL].t].state = "finished"
  /\ call[CTL].op = "Shutdown" => \A t \in DOMAIN data : torrent[t].state = "finished"

\* Once the user has gone and every torrent has finished, the controller brings
\* the process to its end (unless it has failed because nobody was listening).
DeploymentEnds ==
  <>[](/\ user = 0 /\ Added # {} /\ \A t \in Added : torrent[t].state = "finished"
       /\ pc # "crashed")
    => <>(main = "terminated")
=============================================================================
