------------------------------- MODULE Daemon -------------------------------
(***************************************************************************)
(* The ezio process around the disk code: main() (main.cpp), class ezio    *)
(* (daemon.cpp), the gRPC service (service.cpp) and the two report threads *)
(* of class log (log.cpp).  gRPC runs every handler on a thread of its     *)
(* own; a handler is accepted, does its work in one step per call of the   *)
(* session, and answers.  The session and the swarm are external: torrents *)
(* download, finish and seed at will.  Write jobs that raw_disk_io has     *)
(* accepted and not yet put on the partition are one bit.                  *)
(***************************************************************************)
EXTENDS Naturals

CONSTANTS Torrent, Client

VARIABLES
  main,         \* where the main thread is
  shutdown_,    \* ezio::shutdown_
  speed, alert, \* the threads report_speed and report_alert
  server,       \* server_
  call,         \* Client -> its remote call
  torrent,      \* the session's torrents
  outstanding   \* are there accepted writes that are not on disk?

procVars == <<main, shutdown_, speed, alert, server>>
sessionVars == <<torrent, outstanding>>
daemonVars == <<procVars, call, sessionVars>>

\* seeded: a limit after which a client stops a torrent is passed for good.
TorrentState ==
  [state : {"absent", "downloading", "finished"}, is_paused : BOOLEAN, seeded : BOOLEAN]

\* struct torrent_status, as far as clients look at it.  limit: by its transfer
\* figures the client stops it (total_payload_upload > 3 * total_done,
\* seeding_time > 60, last_upload > 15 or last_upload == -1).
torrent_status == [is_finished : BOOLEAN, is_paused : BOOLEAN, limit : BOOLEAN]

Data == UNION {[T -> torrent_status] : T \in SUBSET Torrent}
NoData == [t \in {} |-> TRUE]

NoCall == [op |-> "none"]
Request ==
  [op : {"Shutdown", "GetTorrentStatus"}]
    \cup [op : {"AddTorrent"}, t : Torrent, seeding_mode : BOOLEAN]
    \cup [op : {"PauseTorrent", "ResumeTorrent"}, t : Torrent]
InStatus == [op : {"h.status"}, torrents : SUBSET Torrent, result : Data]
Answer == [op : {"reply"}, data : Data]

DaemonTypeOK ==
  /\ main \in {"parsing", "starting", "logging", "waiting", "joining", "stopping", "returned",
               "terminated", "exited"}
  /\ shutdown_ \in BOOLEAN
  /\ speed \in {"none", "running", "joined"} /\ alert \in {"none", "running", "joined"}
  /\ server \in {"none", "serving", "stopping", "down"}
  /\ call \in [Client -> Request \cup InStatus \cup Answer \cup {NoCall}]
  /\ torrent \in [Torrent -> TorrentState]
  /\ outstanding \in BOOLEAN

DaemonInit ==
  /\ main = "parsing"
  /\ shutdown_ = FALSE
  /\ speed = "none" /\ alert = "none"
  /\ server = "none"
  /\ call = [c \in Client |-> NoCall]
  /\ torrent = [t \in Torrent |-> [state |-> "absent", is_paused |-> FALSE, seeded |-> FALSE]]
  /\ outstanding = FALSE

Alive == main \notin {"terminated", "exited"}
InHandler(c) == call[c].op \notin {"none", "reply"}
Added == {t \in Torrent : torrent[t].state # "absent"}

-----------------------------------------------------------------------------
(* The main thread and the report threads                                  *)

\* --help and --version end the process, and so does the exception that nobody
\* catches for an option that cannot be parsed.
parse_from_argv ==
  /\ main = "parsing" /\ main' \in {"starting", "exited"}
  /\ UNCHANGED <<shutdown_, speed, alert, server, call, sessionVars>>

\* service.start: BuildAndStart returns null when the address is taken, and
\* nobody looks.
start ==
  /\ main = "starting" /\ main' = "logging"
  /\ server' \in {"none", "serving"}
  /\ UNCHANGED <<shutdown_, speed, alert, call, sessionVars>>

log_ctor ==
  /\ main = "logging" /\ main' = "waiting"
  /\ speed' = "running" /\ alert' = "running"
  /\ UNCHANGED <<shutdown_, server, call, sessionVars>>

\* Bug: the loop ends after the first sleep.
wait_once ==
  /\ main = "waiting"
  /\ main' = "joining"
  /\ UNCHANGED <<shutdown_, speed, alert, server, call, sessionVars>>

\* ezio::wait sleeps ten seconds at a time until it sees the flag.
wait ==
  /\ main = "waiting" /\ shutdown_
  /\ main' = "joining"
  /\ UNCHANGED <<shutdown_, speed, alert, server, call, sessionVars>>

\* The loops of the report threads: sleep five seconds, ask the session, look at
\* the flag.  What they ask changes nothing.
report_speed ==
  /\ Alive /\ speed = "running" /\ shutdown_
  /\ speed' = "joined"
  /\ UNCHANGED <<main, shutdown_, alert, server, call, sessionVars>>

\* Bug: the thread looks at the flag only while there are torrents to report.
report_alert_empty ==
  /\ Alive /\ alert = "running" /\ shutdown_ /\ Added # {}
  /\ alert' = "joined"
  /\ UNCHANGED <<main, shutdown_, speed, server, call, sessionVars>>

report_alert ==
  /\ Alive /\ alert = "running" /\ shutdown_
  /\ alert' = "joined"
  /\ UNCHANGED <<main, shutdown_, speed, server, call, sessionVars>>

\* log::join, then service.stop: from here on no call is accepted.
join ==
  /\ main = "joining" /\ speed = "joined" /\ alert = "joined"
  /\ main' = "stopping" /\ server' = IF server = "none" THEN "none" ELSE "stopping"
  /\ UNCHANGED <<shutdown_, speed, alert, call, sessionVars>>

\* Bug: Shutdown does not wait for the handlers.
stop_at_once ==
  /\ main = "stopping"
  /\ main' = "returned" /\ server' = "down"
  /\ UNCHANGED <<shutdown_, speed, alert, call, sessionVars>>

\* Server::Shutdown returns once the handlers have.
stop ==
  /\ main = "stopping" /\ server # "none" /\ \A c \in Client : ~InHandler(c)
  /\ main' = "returned" /\ server' = "down"
  /\ UNCHANGED <<shutdown_, speed, alert, call, sessionVars>>

\* main() returns and destroys its locals, log first: ~log joins threads that were
\* joined, std::thread::join throws, and an exception that leaves a destructor
\* terminates the process.  The session is not destroyed.
log_dtor ==
  /\ main = "returned"
  /\ main' = "terminated"
  /\ UNCHANGED <<shutdown_, speed, alert, server, call, sessionVars>>

-----------------------------------------------------------------------------
(* Remote calls                                                            *)

\* A client whose last call was answered makes the next.
Call(c, request) ==
  /\ Alive /\ ~InHandler(c)
  /\ server = "serving"
  /\ call' = [call EXCEPT ![c] = request]
  /\ UNCHANGED <<procVars, sessionVars>>

\* Only GetTorrentStatus answers with something that clients look at: the others
\* answer OK or UNAVAILABLE, on which the scripts end.
Return(c) == call' = [call EXCEPT ![c] = NoCall]

Shutdown(c) ==
  /\ Alive /\ call[c].op = "Shutdown"
  /\ shutdown_' = TRUE
  /\ Return(c)
  /\ UNCHANGED <<main, speed, alert, server, sessionVars>>

\* A body that cannot be decoded, or that the session refuses, throws; a torrent
\* that the session has is found again.
add_torrent(t, seeding_mode) ==
  \/ UNCHANGED torrent
  \/ /\ t \notin Added
     /\ torrent' = [torrent EXCEPT ![t].state = IF seeding_mode THEN "finished" ELSE "downloading"]

AddTorrent(c) ==
  /\ Alive /\ call[c].op = "AddTorrent"
  /\ add_torrent(call[c].t, call[c].seeding_mode)
  /\ Return(c)
  /\ UNCHANGED <<procVars, outstanding>>

\* Of a torrent that the session does not have, nothing is said.
pause_torrent(t) ==
  torrent' = IF t \in Added THEN [torrent EXCEPT ![t].is_paused = TRUE] ELSE torrent

resume_torrent(t) ==
  torrent' = IF t \in Added THEN [torrent EXCEPT ![t].is_paused = FALSE] ELSE torrent

PauseTorrent(c) ==
  /\ Alive /\ call[c].op = "PauseTorrent"
  /\ pause_torrent(call[c].t)
  /\ Return(c)
  /\ UNCHANGED <<procVars, outstanding>>

ResumeTorrent(c) ==
  /\ Alive /\ call[c].op = "ResumeTorrent"
  /\ resume_torrent(call[c].t)
  /\ Return(c)
  /\ UNCHANGED <<procVars, outstanding>>

\* session_.get_torrents(), then h.status() of one torrent after the other.
get_torrents(c) ==
  /\ Alive /\ call[c].op = "GetTorrentStatus"
  /\ call' = [call EXCEPT ![c] = [op |-> "h.status", torrents |-> Added, result |-> NoData]]
  /\ UNCHANGED <<procVars, sessionVars>>

\* A limit may also be passed for the moment: no upload for a while.
StatusOf(t) ==
  LET s == torrent[t]
      finished == s.state = "finished"
  IN  {[is_finished |-> finished, is_paused |-> s.is_paused, limit |-> l] :
         l \in IF finished THEN {s.seeded, s.seeded \/ ~s.is_paused} ELSE {FALSE}}

h_status(c, t) ==
  /\ Alive /\ call[c].op = "h.status" /\ t \in call[c].torrents
  /\ \E status \in StatusOf(t) :
       call' = [call EXCEPT ![c] = [op |-> "h.status", torrents |-> @.torrents \ {t},
                                    result |-> [u \in DOMAIN @.result \cup {t} |->
                                                  IF u = t THEN status ELSE @.result[u]]]]
  /\ UNCHANGED <<procVars, sessionVars>>

GetTorrentStatus(c) ==
  /\ Alive /\ call[c].op = "h.status" /\ call[c].torrents = {}
  /\ call' = [call EXCEPT ![c] = [op |-> "reply", data |-> @.result]]
  /\ UNCHANGED <<procVars, sessionVars>>

Handler(c) ==
  \/ Shutdown(c) \/ AddTorrent(c) \/ PauseTorrent(c) \/ ResumeTorrent(c)
  \/ get_torrents(c) \/ (\E t \in Torrent : h_status(c, t)) \/ GetTorrentStatus(c)

-----------------------------------------------------------------------------
(* The session, external                                                   *)

Active(t, state) == Alive /\ torrent[t].state = state /\ ~torrent[t].is_paused

\* A block arrives and async_write accepts it.
Download(t) ==
  /\ Active(t, "downloading")
  /\ outstanding' = TRUE
  /\ UNCHANGED <<procVars, call, torrent>>

\* The write threads catch up.
Flush ==
  /\ Alive /\ outstanding
  /\ outstanding' = FALSE
  /\ UNCHANGED <<procVars, call, torrent>>

Finish(t) ==
  /\ Active(t, "downloading")
  /\ torrent' = [torrent EXCEPT ![t].state = "finished"]
  /\ UNCHANGED <<procVars, call, outstanding>>

\* Time passes, or enough is uploaded.
Seed(t) ==
  /\ Active(t, "finished") /\ ~torrent[t].seeded
  /\ torrent' = [torrent EXCEPT ![t].seeded = TRUE]
  /\ UNCHANGED <<procVars, call, outstanding>>

MainStep == parse_from_argv \/ start \/ log_ctor \/ wait \/ join \/ stop \/ log_dtor

DaemonNext ==
  \/ MainStep \/ report_speed \/ report_alert
  \/ \E c \in Client : Handler(c)
  \/ Flush \/ \E t \in Torrent : Download(t) \/ Finish(t) \/ Seed(t)

\* The process is scheduled, handlers run, and the clock of a seeding torrent ticks.
DaemonFairness ==
  /\ WF_daemonVars(MainStep) /\ WF_daemonVars(report_speed) /\ WF_daemonVars(report_alert)
  /\ \A c \in Client : WF_daemonVars(Handler(c))
  /\ \A t \in Torrent : WF_daemonVars(Seed(t))

-----------------------------------------------------------------------------
\* When main() returns and its locals die, no report thread and no handler is
\* left that could use the daemon or the session.
NothingRunsAtTeardown ==
  main \in {"returned", "terminated"} =>
    /\ speed = "joined" /\ alert = "joined"
    /\ \A c \in Client : ~InHandler(c)

\* stop() never calls Shutdown on the null pointer that BuildAndStart leaves when
\* the address is taken: without a server nobody can get main past its wait.
ServerIsThere == main \in {"joining", "stopping"} => server # "none"

\* Whoever asks for a shutdown, whatever the other clients and the report threads
\* are doing, the process ends.
ShutdownCompletes == shutdown_ ~> main = "terminated"

\* "The disk I/O object is expected to flush any outstanding write jobs"
\* (raw_disk_io.hpp, abort): a process that was asked to shut down leaves no
\* accepted write behind.
FlushedAtExit == main = "terminated" => ~outstanding
=============================================================================
