-------------------------- MODULE ControllerProofs --------------------------
(***************************************************************************)
(* The process and its controller for any set of torrents.  ProcInv is     *)
(* about the threads of the process and its server, KnowledgeInv about     *)
(* what answers say: what was once reported as finished has finished,      *)
(* because a finished torrent stays so.                                    *)
(***************************************************************************)
EXTENDS Controller, TLAPS

\* The provers a step is tried with, in this order, unless it names its own.
USE SMTT(30), ZenonT(40)

\* Without a server nobody calls, so nobody asks for a shutdown; behind log::join
\* the report threads are gone, and behind service.stop the handlers too.
ProcInv ==
  /\ main \in {"parsing", "starting"} => server = "none"
  /\ server = "none" => ~shutdown_ /\ \A c \in Client : call[c] = NoCall
  /\ main \in {"joining", "stopping"} => server # "none"
  /\ main \in {"stopping", "returned", "terminated"} => speed = "joined" /\ alert = "joined"
  /\ main \in {"returned", "terminated"} => server = "down" /\ \A c \in Client : ~InHandler(c)

\* What d reports as finished has finished.
Known(d) == \A t \in DOMAIN d : d[t].is_finished => torrent[t].state = "finished"

\* So does what a call has gathered, and what was answered.
CallKnown(r) == /\ r.op = "h.status" => Known(r.result)
                /\ r.op = "reply" => Known(r.data)

KnowledgeInv ==
  /\ Known(data)
  /\ \A c \in Client : CallKnown(call[c])
  /\ \A t \in todo : torrent[t].state = "finished"
  /\ call[CTL].op = "PauseTorrent" => torrent[call[CTL].t].state = "finished"
  /\ call[CTL].op = "Shutdown" => all_stop

IInv == TypeOK /\ ProcInv /\ KnowledgeInv

Calls == Request \cup InStatus \cup Answer \cup {NoCall}

\* A finished torrent stays finished.
FinishedStays == \A t \in Torrent : torrent[t].state = "finished" => torrent'[t].state = "finished"

-----------------------------------------------------------------------------
\* What the field op says about the others.
LEMMA CallFields ==
  ASSUME NEW r \in Calls
  PROVE  /\ r.op = "none" => r = NoCall
         /\ r.op = "h.status" => r \in InStatus
         /\ r.op = "reply" => r \in Answer
         /\ r.op \in {"PauseTorrent", "ResumeTorrent", "AddTorrent"} => r.t \in Torrent
         /\ r.op = "AddTorrent" => r.seeding_mode \in BOOLEAN
  BY DEF Calls, Request, InStatus, Answer, NoCall

\* No request of a client is one of the marks for the progress of a call.
LEMMA RequestOps ==
  ASSUME NEW r \in Request
  PROVE  r.op \notin {"none", "h.status", "reply"}
  BY DEF Request

\* An answer reports the status of torrents.
LEMMA DataDomain ==
  ASSUME NEW d \in Data
  PROVE  DOMAIN d \subseteq Torrent /\ \A t \in DOMAIN d : d[t] \in torrent_status
  BY DEF Data

\* The empty answer is an answer.
LEMMA NoDataType == NoData \in Data /\ DOMAIN NoData = {}
<1>1. NoData \in [{} -> torrent_status] /\ {} \in SUBSET Torrent
  BY DEF NoData
<1>2. QED
  BY <1>1 DEF Data, NoData

\* What was reported as finished still is after a step that keeps torrents finished.
LEMMA KnownStays ==
  ASSUME NEW d \in Data, Known(d), FinishedStays
  PROVE  \A t \in DOMAIN d : d[t].is_finished => torrent'[t].state = "finished"
  BY DataDomain DEF Known, FinishedStays

\* Another torrent's status in a result.
LEMMA ResultGrows ==
  ASSUME NEW d \in Data, NEW t \in Torrent, NEW s \in torrent_status,
         NEW e, e = [u \in DOMAIN d \cup {t} |-> IF u = t THEN s ELSE d[u]]
  PROVE  e \in Data /\ DOMAIN e = DOMAIN d \cup {t}
<1>1. DOMAIN d \cup {t} \in SUBSET Torrent
  BY DataDomain
<1>2. e \in [DOMAIN d \cup {t} -> torrent_status]
  BY DataDomain
<1>3. QED
  BY <1>1, <1>2 DEF Data

-----------------------------------------------------------------------------
\* The initial state satisfies the inductive invariant.
LEMMA InitIInv == Init => IInv
<1> SUFFICES ASSUME Init PROVE IInv
  OBVIOUS
<1>1. CTL \in Client
  BY ClientAssumption
<1>2. TypeOK
  <2>1. DaemonTypeOK
    BY ZenonT(40) DEF Init, DaemonInit, DaemonTypeOK, TorrentState
  <2>2. QED
    BY <2>1, NoDataType, ClientAssumption DEF Init, TypeOK
<1>3. ProcInv
  BY DEF Init, DaemonInit, ProcInv
<1>4. KnowledgeInv
  BY <1>1, NoDataType DEF Init, DaemonInit, KnowledgeInv, CallKnown, Known, NoCall
<1>5. QED
  BY <1>2, <1>3, <1>4 DEF IInv

-----------------------------------------------------------------------------
(* Steps of the daemon                                                     *)

\* A step of a handler answers, or goes on with GetTorrentStatus.
Answers(c, r) ==
  /\ r \in Calls /\ call' = [call EXCEPT ![c] = r]
  /\ r.op \in {"none", "h.status", "reply"} /\ CallKnown(r)

\* A status that is read reports a torrent as finished only if it is.
LEMMA StatusIsTrue ==
  ASSUME torrent \in [Torrent -> TorrentState], NEW t \in Torrent, NEW s \in StatusOf(t)
  PROVE  s \in torrent_status /\ (s.is_finished => torrent[t].state = "finished")
<1>1. torrent[t].is_paused \in BOOLEAN /\ torrent[t].seeded \in BOOLEAN
  BY DEF TorrentState
<1>2. PICK l \in BOOLEAN :
        s = [is_finished |-> torrent[t].state = "finished", is_paused |-> torrent[t].is_paused, limit |-> l]
  BY ZenonT(40), <1>1 DEF StatusOf
<1>3. (torrent[t].state = "finished") \in BOOLEAN
  OBVIOUS
<1>4. QED
  BY ZenonT(40), <1>1, <1>2, <1>3 DEF torrent_status

\* The calls that change the session or its torrents answer with nothing, and keep
\* finished torrents finished.
LEMMA SessionCallStep ==
  ASSUME DaemonTypeOK, NEW c \in Client,
         Shutdown(c) \/ AddTorrent(c) \/ PauseTorrent(c) \/ ResumeTorrent(c)
  PROVE  Answers(c, NoCall) /\ torrent' \in [Torrent -> TorrentState] /\ FinishedStays
<1>0. call[c] \in Calls /\ torrent \in [Torrent -> TorrentState]
  BY DEF DaemonTypeOK, Calls
<1>1. Answers(c, NoCall)
  BY DEF Shutdown, AddTorrent, PauseTorrent, ResumeTorrent, Return, Answers, Calls, NoCall, CallKnown
<1>2. CASE Shutdown(c)
  BY <1>0, <1>1, <1>2 DEF Shutdown, sessionVars, FinishedStays
<1>3. CASE AddTorrent(c)
  <2>1. call[c].t \in Torrent /\ call[c].seeding_mode \in BOOLEAN
    BY <1>0, <1>3, CallFields DEF AddTorrent
  <2>2. QED
    BY <1>0, <1>1, <1>3, <2>1 DEF AddTorrent, add_torrent, Added, TorrentState, FinishedStays
<1>4. CASE PauseTorrent(c)
  <2>1. call[c].t \in Torrent
    BY <1>0, <1>4, CallFields DEF PauseTorrent
  <2>2. QED
    BY ZenonT(40), <1>0, <1>1, <1>4, <2>1 DEF PauseTorrent, pause_torrent, TorrentState, FinishedStays
<1>5. CASE ResumeTorrent(c)
  <2>1. call[c].t \in Torrent
    BY <1>0, <1>5, CallFields DEF ResumeTorrent
  <2>2. QED
    BY ZenonT(40), <1>0, <1>1, <1>5, <2>1 DEF ResumeTorrent, resume_torrent, TorrentState, FinishedStays
<1>6. QED
  BY <1>2, <1>3, <1>4, <1>5

\* The calls that ask for status answer, and change no torrent.
LEMMA StatusCallStep ==
  ASSUME DaemonTypeOK, NEW c \in Client, CallKnown(call[c]),
         \/ get_torrents(c) \/ GetTorrentStatus(c)
         \/ \E t \in Torrent : h_status(c, t)
  PROVE  (\E r : Answers(c, r)) /\ UNCHANGED torrent
<1>0. call[c] \in Calls /\ call \in [Client -> Calls] /\ torrent \in [Torrent -> TorrentState]
  BY DEF DaemonTypeOK, Calls
<1>1. UNCHANGED torrent
  BY ZenonT(40) DEF get_torrents, GetTorrentStatus, h_status, sessionVars
<1>2. CASE get_torrents(c)
  <2> DEFINE r == [op |-> "h.status", torrents |-> Added, result |-> NoData]
  <2>1. r \in Calls
    BY NoDataType DEF Calls, InStatus, Added
  <2>2. Answers(c, r)
    BY <1>2, <2>1, NoDataType DEF get_torrents, Answers, CallKnown, Known
  <2>3. QED
    BY <1>1, <2>2
<1>3. CASE GetTorrentStatus(c)
  <2> DEFINE r == [op |-> "reply", data |-> call[c].result]
  <2>1. call[c].op = "h.status" /\ call[c] \in InStatus
    BY <1>0, <1>3, CallFields DEF GetTorrentStatus
  <2>2. r \in Calls
    BY <2>1 DEF Calls, InStatus, Answer
  <2>3. Answers(c, r)
    BY <1>0, <1>3, <2>1, <2>2 DEF GetTorrentStatus, Answers, CallKnown
  <2>4. QED
    BY <1>1, <2>3
<1>4. ASSUME NEW t \in Torrent, h_status(c, t) PROVE \E r : Answers(c, r)
  <2>1. call[c].op = "h.status" /\ call[c] \in InStatus
    BY <1>0, <1>4, CallFields DEF h_status
  <2> DEFINE d == call[c].result
  <2>2. d \in Data /\ Known(d) /\ call[c].torrents \in SUBSET Torrent
    BY <2>1 DEF CallKnown, InStatus
  <2>3. PICK s \in StatusOf(t) :
          call' = [call EXCEPT ![c] = [op |-> "h.status", torrents |-> @.torrents \ {t},
                                       result |-> [u \in DOMAIN @.result \cup {t} |->
                                                     IF u = t THEN s ELSE @.result[u]]]]
    BY ZenonT(40), <1>4 DEF h_status
  <2> DEFINE e == [u \in DOMAIN d \cup {t} |-> IF u = t THEN s ELSE d[u]]
             r == [op |-> "h.status", torrents |-> call[c].torrents \ {t}, result |-> e]
  <2>4. call' = [call EXCEPT ![c] = r]
    BY <2>3, <1>0
  <2>5. s \in torrent_status /\ (s.is_finished => torrent[t].state = "finished")
    BY <1>0, StatusIsTrue
  <2>6. e \in Data /\ DOMAIN e = DOMAIN d \cup {t}
    BY SMTT(30), <2>2, <2>5, ResultGrows
  <2>7. Known(e)
    BY <2>2, <2>5 DEF Known
  <2> HIDE DEF e, d
  <2>8. r \in Calls
    BY <2>2, <2>6 DEF Calls, InStatus
  <2>9. Answers(c, r)
    BY <2>4, <2>7, <2>8 DEF Answers, CallKnown
  <2>10. QED
    BY <2>9
<1>5. QED
  BY <1>1, <1>2, <1>3, <1>4

\* A handler of gRPC answers its own call and leaves the threads of the daemon alone.
LEMMA HandlerStep ==
  ASSUME DaemonTypeOK, NEW c \in Client, CallKnown(call[c]), Handler(c)
  PROVE  /\ InHandler(c) /\ UNCHANGED <<main, speed, alert, server, outstanding>> /\ shutdown_' \in BOOLEAN
         /\ \E r : Answers(c, r)
         /\ torrent' \in [Torrent -> TorrentState] /\ FinishedStays
<1>1. InHandler(c) /\ UNCHANGED <<main, speed, alert, server, outstanding>> /\ shutdown_' \in BOOLEAN
  BY ZenonT(40) DEF DaemonTypeOK, Handler, Shutdown, AddTorrent, PauseTorrent, ResumeTorrent, get_torrents, h_status,
         GetTorrentStatus, InHandler, procVars, sessionVars
<1>2. CASE Shutdown(c) \/ AddTorrent(c) \/ PauseTorrent(c) \/ ResumeTorrent(c)
  BY <1>1, <1>2, SessionCallStep
<1>3. CASE get_torrents(c) \/ GetTorrentStatus(c) \/ \E t \in Torrent : h_status(c, t)
  BY <1>1, <1>3, StatusCallStep DEF FinishedStays, DaemonTypeOK
<1>4. QED
  BY <1>2, <1>3 DEF Handler

\* The steps of the main thread, the report threads and the session.
LEMMA ProcessStep ==
  ASSUME DaemonTypeOK, ProcInv,
         MainStep \/ report_speed \/ report_alert \/ Flush \/ (\E t \in Torrent : Download(t) \/ Finish(t) \/ Seed(t))
  PROVE  DaemonTypeOK' /\ ProcInv' /\ UNCHANGED call /\ FinishedStays
<1> USE DEF procVars, sessionVars
<1>1. CASE MainStep
  <2>1. UNCHANGED <<shutdown_, call, torrent, outstanding>>
    BY <1>1 DEF MainStep, parse_from_argv, start, log_ctor, wait, join, stop, log_dtor
  <2>2. ProcInv'
    BY <1>1 DEF ProcInv, InHandler, MainStep, parse_from_argv, start, log_ctor, wait, join, stop, log_dtor
  <2>3. /\ main' \in {"parsing", "starting", "logging", "waiting", "joining", "stopping", "returned",
                      "terminated", "exited"}
        /\ speed' \in {"none", "running", "joined"} /\ alert' \in {"none", "running", "joined"}
        /\ server' \in {"none", "serving", "stopping", "down"}
    BY <1>1 DEF DaemonTypeOK, MainStep, parse_from_argv, start, log_ctor, wait, join, stop, log_dtor
  <2>4. QED
    BY <2>1, <2>2, <2>3 DEF DaemonTypeOK, FinishedStays
<1>2. CASE report_speed \/ report_alert
  BY <1>2 DEF DaemonTypeOK, ProcInv, InHandler, report_speed, report_alert, FinishedStays
<1>3. CASE Flush \/ \E t \in Torrent : Download(t) \/ Finish(t) \/ Seed(t)
  <2>1. UNCHANGED <<main, shutdown_, speed, alert, server, call>> /\ outstanding' \in BOOLEAN
    BY ZenonT(40), <1>3 DEF Flush, Download, Finish, Seed, DaemonTypeOK
  <2>2. torrent' \in [Torrent -> TorrentState] /\ FinishedStays
    <3>0. torrent \in [Torrent -> TorrentState]
      BY DEF DaemonTypeOK
    <3>1. ASSUME NEW t \in Torrent, Finish(t) PROVE <2>2!:
      BY <3>0, <3>1 DEF Finish, Active, TorrentState, FinishedStays
    <3>2. ASSUME NEW t \in Torrent, Seed(t) PROVE <2>2!:
      <4>1. torrent' = [torrent EXCEPT ![t] = [@ EXCEPT !.seeded = TRUE]]
        BY <3>2 DEF Seed
      <4>2. [torrent[t] EXCEPT !.seeded = TRUE] \in TorrentState
        BY ZenonT(40), <3>0 DEF TorrentState
      <4>3. [torrent[t] EXCEPT !.seeded = TRUE].state = torrent[t].state
        BY <3>0 DEF TorrentState
      <4>4. QED
        BY <3>0, <4>1, <4>2, <4>3 DEF FinishedStays
    <3>3. ASSUME Flush \/ \E t \in Torrent : Download(t) PROVE <2>2!:
      BY <3>0, <3>3 DEF Flush, Download, FinishedStays
    <3>4. QED
      BY <1>3, <3>1, <3>2, <3>3
  <2>3. QED
    BY <2>1, <2>2 DEF DaemonTypeOK, ProcInv, InHandler
<1>4. QED
  BY <1>1, <1>2, <1>3

\* What holds of answers goes on to hold while finished torrents stay finished
\* and the calls are the same or made by handlers.
LEMMA KnowledgeStays ==
  ASSUME TypeOK, KnowledgeInv, FinishedStays, UNCHANGED <<kind, pc, data, todo>>,
         \/ UNCHANGED call
         \/ \E c \in Client : \E r : Answers(c, r)
  PROVE  KnowledgeInv'
<1>0. /\ data \in Data /\ todo \in SUBSET Torrent /\ call \in [Client -> Calls] /\ CTL \in Client
      /\ Known(data) /\ \A c \in Client : CallKnown(call[c])
  BY ClientAssumption DEF TypeOK, DaemonTypeOK, Calls, KnowledgeInv
<1>1. \A r \in Calls : CallKnown(r) => CallKnown(r)'
  <2> SUFFICES ASSUME NEW r \in Calls, CallKnown(r)
               PROVE  /\ r.op = "h.status" => Known(r.result)'
                      /\ r.op = "reply" => Known(r.data)'
    BY DEF CallKnown
  <2>1. ASSUME r.op = "h.status" PROVE Known(r.result)'
    BY <2>1, CallFields, KnownStays DEF CallKnown, InStatus, Known
  <2>2. ASSUME r.op = "reply" PROVE Known(r.data)'
    BY <2>2, CallFields, KnownStays DEF CallKnown, Answer, Known
  <2>3. QED
    BY <2>1, <2>2
<1>2. Known(data)'
  BY <1>0, KnownStays DEF Known
<1>3. \A t \in todo' : torrent'[t].state = "finished"
  BY <1>0 DEF KnowledgeInv, FinishedStays
<1>4. all_stop' = all_stop
  BY DEF all_stop
<1>5. CASE UNCHANGED call
  <2>1. \A c \in Client : CallKnown(call[c])'
    BY <1>0, <1>1, <1>5
  <2>2. call[CTL].op = "PauseTorrent" => call[CTL].t \in Torrent
    BY <1>0, CallFields
  <2>3. QED
    BY <1>2, <1>3, <1>4, <1>5, <2>1, <2>2 DEF KnowledgeInv, FinishedStays
<1>6. ASSUME NEW c \in Client, NEW r, Answers(c, r) PROVE KnowledgeInv'
  <2>1. r \in Calls /\ CallKnown(r) /\ call' = [call EXCEPT ![c] = r] /\ r.op \in {"none", "h.status", "reply"}
    BY <1>6 DEF Answers
  <2>2. \A k \in Client : call'[k] \in Calls /\ CallKnown(call'[k])
    BY <1>0, <2>1
  <2>3. \A k \in Client : CallKnown(call[k])'
    BY <1>1, <2>2
  <2>4. call[CTL].op = "PauseTorrent" => call[CTL].t \in Torrent
    BY <1>0, CallFields
  <2>5. call'[CTL] = r \/ call'[CTL] = call[CTL]
    BY <1>0, <2>1
  <2>6. QED
    BY <1>2, <1>3, <1>4, <2>1, <2>3, <2>4, <2>5 DEF KnowledgeInv, FinishedStays
<1>7. QED
  BY <1>5, <1>6

\* The steps of the daemon preserve the inductive invariant.
LEMMA DaemonStep ==
  ASSUME IInv, DaemonNext, UNCHANGED <<ctlVars, user>>
  PROVE  IInv'
<1>0. TypeOK /\ DaemonTypeOK /\ ProcInv /\ KnowledgeInv /\ UNCHANGED <<kind, pc, data, todo, user>>
  BY DEF IInv, TypeOK, ctlVars
<1>1. CASE MainStep \/ report_speed \/ report_alert \/ Flush \/ \E t \in Torrent : Download(t) \/ Finish(t) \/ Seed(t)
  <2>1. DaemonTypeOK' /\ ProcInv' /\ UNCHANGED call /\ FinishedStays
    BY <1>0, <1>1, ProcessStep
  <2>2. KnowledgeInv'
    BY <1>0, <2>1, KnowledgeStays
  <2>3. TypeOK'
    BY <1>0, <2>1 DEF TypeOK
  <2>4. QED
    BY <2>1, <2>2, <2>3 DEF IInv
<1>2. ASSUME NEW c \in Client, Handler(c) PROVE IInv'
  <2>0. CallKnown(call[c])
    BY <1>0 DEF KnowledgeInv
  <2>1. /\ InHandler(c) /\ UNCHANGED <<main, speed, alert, server, outstanding>> /\ shutdown_' \in BOOLEAN
        /\ \E r : Answers(c, r)
        /\ torrent' \in [Torrent -> TorrentState] /\ FinishedStays
    BY <1>0, <1>2, <2>0, HandlerStep
  <2>2. PICK r : Answers(c, r)
    BY <2>1
  <2>3. KnowledgeInv'
    BY <1>0, <2>1, <2>2, KnowledgeStays
  <2>4. TypeOK'
    BY <1>0, <2>1, <2>2 DEF TypeOK, DaemonTypeOK, Answers, Calls
  <2>5. call[c] # NoCall
    BY <2>1 DEF InHandler, NoCall
  <2>6. ProcInv'
    BY <1>0, <2>1, <2>5 DEF ProcInv, InHandler
  <2>7. QED
    BY <2>3, <2>4, <2>6 DEF IInv
<1>3. QED
  BY <1>1, <1>2 DEF DaemonNext

-----------------------------------------------------------------------------
(* Steps of the clients                                                    *)

\* A request of a client whose last call was answered.
LEMMA CallStep ==
  ASSUME IInv, NEW c \in Client, NEW r \in Request, Call(c, r), UNCHANGED <<kind, data>>,
         c = CTL => /\ r.op = "PauseTorrent" => torrent[r.t].state = "finished"
                    /\ r.op = "Shutdown" => all_stop,
         todo' \subseteq todo,
         pc' \in {"sleep", "get_data", "check_stop", "pause", "shutdown", "exited", "crashed"},
         user' \in 0 .. MAX_USER_CALLS
  PROVE  IInv'
<1>0. TypeOK /\ DaemonTypeOK /\ ProcInv /\ KnowledgeInv /\ CTL \in Client
  BY ClientAssumption DEF IInv, TypeOK
<1>1. /\ server = "serving" /\ call' = [call EXCEPT ![c] = r]
      /\ UNCHANGED <<main, shutdown_, speed, alert, server, torrent, outstanding>>
  BY DEF Call, procVars, sessionVars
<1>2. call' \in [Client -> Calls] /\ r \in Calls
  BY <1>0, <1>1 DEF DaemonTypeOK, Calls
<1>3. TypeOK'
  BY <1>0, <1>1, <1>2 DEF TypeOK, DaemonTypeOK, Calls
<1>4. ProcInv'
  BY <1>0, <1>1 DEF ProcInv
<1>5. \A d : Known(d)' = Known(d)
  BY SMTT(30), <1>1 DEF Known
<1>6. \A k \in Client : CallKnown(call[k])'
  <2>1. \A k \in Client : k # c => call'[k] = call[k]
    BY <1>0, <1>1 DEF DaemonTypeOK
  <2>2. call'[c] = r
    BY <1>0, <1>1 DEF DaemonTypeOK
  <2>3. QED
    BY <1>0, <1>5, <2>1, <2>2, RequestOps DEF KnowledgeInv, CallKnown
<1>7. call'[CTL] = call[CTL] \/ (c = CTL /\ call'[CTL] = r)
  BY <1>0, <1>1 DEF DaemonTypeOK
<1>8. all_stop' = all_stop /\ Known(data)'
  BY <1>0, <1>5 DEF all_stop, KnowledgeInv
<1>9. KnowledgeInv'
  BY <1>0, <1>1, <1>6, <1>7, <1>8 DEF KnowledgeInv
<1>10. QED
  BY <1>3, <1>4, <1>9 DEF IInv

\* A step that concerns neither the daemon nor the answer kept.
LEMMA LocalStep ==
  ASSUME IInv, UNCHANGED <<daemonVars, kind, data>>, todo' \subseteq todo \cup Due(data),
         pc' \in {"sleep", "get_data", "check_stop", "pause", "shutdown", "exited", "crashed"},
         user' \in 0 .. MAX_USER_CALLS
  PROVE  IInv'
<1>0. TypeOK /\ DaemonTypeOK /\ ProcInv /\ KnowledgeInv
  BY DEF IInv, TypeOK
<1>1. UNCHANGED <<main, shutdown_, speed, alert, server, call, torrent, outstanding>>
  BY SMTT(30) DEF daemonVars, procVars, sessionVars
<1>2. \A t \in Due(data) : t \in Torrent /\ torrent[t].state = "finished"
  BY <1>0, DataDomain DEF TypeOK, Due, KnowledgeInv, Known
<1>3. TypeOK'
  BY <1>0, <1>1, <1>2 DEF TypeOK, DaemonTypeOK
<1>4. ProcInv'
  BY SMTT(30), <1>0, <1>1 DEF ProcInv, InHandler
<1>5. KnowledgeInv'
  BY <1>0, <1>1, <1>2 DEF KnowledgeInv, Known, CallKnown, all_stop
<1>6. QED
  BY <1>3, <1>4, <1>5 DEF IInv

\* An answer that the controller takes preserves the inductive invariant.
LEMMA GotDataStep ==
  ASSUME IInv, got_data
  PROVE  IInv'
<1>0. TypeOK /\ DaemonTypeOK /\ ProcInv /\ KnowledgeInv /\ CTL \in Client
  BY ClientAssumption DEF IInv, TypeOK
<1>1. /\ call[CTL].op = "reply" /\ data' = call[CTL].data /\ call' = [call EXCEPT ![CTL] = NoCall]
      /\ UNCHANGED <<main, shutdown_, speed, alert, server, torrent, outstanding, kind, user>>
      /\ pc' \in {"check_stop", "sleep"} /\ (todo' = Due(data') \/ todo' = todo)
  BY DEF got_data, procVars, sessionVars
<1>2. call[CTL] \in Answer /\ data' \in Data
  BY <1>0, <1>1, CallFields DEF DaemonTypeOK, Calls, Answer
<1>3. Known(data')
  BY <1>0, <1>1 DEF KnowledgeInv, CallKnown
<1>4. \A t \in Due(data') : t \in Torrent /\ torrent[t].state = "finished"
  BY <1>2, <1>3, DataDomain DEF Due, Known
<1>5. TypeOK'
  BY <1>0, <1>1, <1>2, <1>4 DEF TypeOK, DaemonTypeOK
<1>6. ProcInv'
  BY <1>0, <1>1 DEF ProcInv, InHandler, DaemonTypeOK, NoCall
<1>7. KnowledgeInv'
  <2>1. \A c \in Client : call'[c] = call[c] \/ call'[c] = NoCall
    BY SMTT(30), <1>0, <1>1 DEF DaemonTypeOK
  <2>2. \A d : Known(d)' = Known(d)
    BY SMTT(30), <1>1 DEF Known
  <2>3. \A c \in Client : CallKnown(call[c])'
    BY <1>0, <2>1, <2>2 DEF KnowledgeInv, CallKnown, NoCall
  <2>4. call'[CTL].op = "none"
    BY SMTT(30), <1>0, <1>1 DEF DaemonTypeOK, NoCall
  <2>5. \A t \in todo' : torrent'[t].state = "finished"
    BY <1>0, <1>1, <1>4 DEF KnowledgeInv
  <2>6. Known(data)'
    BY <1>1, <1>3 DEF Known
  <2>7. QED
    BY <2>3, <2>4, <2>5, <2>6 DEF KnowledgeInv
<1>8. QED
  BY <1>5, <1>6, <1>7 DEF IInv

\* The other steps of the clients preserve the inductive invariant.
LEMMA ClientStep ==
  ASSUME IInv, get_data \/ detect_all_finished \/ ControllerStep \/ UserCall \/ Leave
  PROVE  IInv'
<1>0. TypeOK /\ KnowledgeInv /\ CTL \in Client /\ USER \in Client /\ CTL # USER /\ MAX_USER_CALLS \in Nat
  BY ClientAssumption DEF IInv
<1>1. CASE get_data
  <2> DEFINE r == [op |-> "GetTorrentStatus"]
  <2>1. r \in Request /\ r.op # "PauseTorrent" /\ r.op # "Shutdown"
    BY DEF Request
  <2>2. CASE Call(CTL, r) /\ pc' = "get_data"
    BY <1>0, <1>1, <2>1, <2>2, CallStep DEF get_data, TypeOK
  <2>3. CASE pc' = "crashed" /\ UNCHANGED daemonVars
    BY <1>0, <1>1, <2>3, LocalStep DEF get_data, TypeOK
  <2>4. QED
    BY <1>1, <2>2, <2>3 DEF get_data, CallOrCrash
<1>2. CASE detect_all_finished
  BY <1>0, <1>2, LocalStep DEF detect_all_finished, TypeOK
<1>3. CASE PauseNext
  <2>1. PICK t \in todo : CallOrCrash([op |-> "PauseTorrent", t |-> t], "pause") /\ todo' = todo \ {t}
    BY <1>3 DEF PauseNext
  <2> DEFINE r == [op |-> "PauseTorrent", t |-> t]
  <2>2. r \in Request /\ r.op # "Shutdown" /\ torrent[r.t].state = "finished"
    BY <1>0 DEF Request, TypeOK, KnowledgeInv
  <2>3. CASE Call(CTL, r) /\ pc' = "pause"
    BY <1>0, <1>3, <2>1, <2>2, <2>3, CallStep DEF PauseNext, TypeOK
  <2>4. CASE pc' = "crashed" /\ UNCHANGED daemonVars
    BY <1>0, <1>3, <2>1, <2>4, LocalStep DEF PauseNext, TypeOK
  <2>5. QED
    BY <2>1, <2>3, <2>4 DEF CallOrCrash
<1>4. CASE check_stop
  <2> DEFINE r == [op |-> "Shutdown"]
  <2>1. r \in Request /\ r.op # "PauseTorrent"
    BY DEF Request
  <2>2. CASE all_stop /\ Call(CTL, r) /\ pc' = "shutdown"
    BY <1>0, <1>4, <2>1, <2>2, CallStep DEF check_stop, TypeOK
  <2>3. CASE pc' \in {"crashed", "sleep"} /\ UNCHANGED daemonVars
    BY <1>0, <1>4, <2>3, LocalStep DEF check_stop, TypeOK
  <2>4. QED
    BY <1>4, <2>2, <2>3 DEF check_stop, CallOrCrash
<1>5. CASE Paused \/ Exit
  BY <1>0, <1>5, LocalStep DEF Paused, Exit, TypeOK
<1>6. CASE UserCall
  <2>1. PICK r \in Request : Call(USER, r)
    BY <1>6 DEF UserCall
  <2>2. user' \in 0 .. MAX_USER_CALLS /\ UNCHANGED <<kind, pc, data, todo>>
    BY <1>0, <1>6 DEF UserCall, TypeOK, ctlVars
  <2>3. QED
    BY <1>0, <2>1, <2>2, CallStep DEF TypeOK
<1>7. CASE Leave
  <2>1. user' \in 0 .. MAX_USER_CALLS /\ UNCHANGED <<daemonVars, kind, pc, data, todo>>
    BY <1>0, <1>7 DEF Leave, TypeOK, ctlVars
  <2>2. QED
    BY <1>0, <2>1, LocalStep DEF TypeOK
<1>8. QED
  BY <1>1, <1>2, <1>3, <1>4, <1>5, <1>6, <1>7, GotDataStep DEF ControllerStep

\* Every step preserves the inductive invariant.
LEMMA NextIInv == IInv /\ [Next]_vars => IInv'
<1> SUFFICES ASSUME IInv, [Next]_vars PROVE IInv'
  OBVIOUS
<1>1. CASE Next
  BY <1>1, DaemonStep, ClientStep DEF Next
<1>2. CASE UNCHANGED vars
  <2>1. UNCHANGED <<daemonVars, kind, pc, data, todo, user>>
    BY <1>2 DEF vars, ctlVars
  <2>2. QED
    BY <2>1, LocalStep DEF IInv, TypeOK
<1>3. QED
  BY <1>1, <1>2

\* The variables of the process, its controller and its user have their types.
THEOREM ControllerTypeOK == Spec => []TypeOK
<1>1. IInv => TypeOK
  BY DEF IInv
<1>2. QED
  BY <1>1, InitIInv, NextIInv, PTL DEF Spec

\* main() returns only when the report threads have been joined and the server
\* has waited for every handler, whatever torrents there are.
THEOREM DaemonNothingRunsAtTeardown == Spec => []NothingRunsAtTeardown
<1>1. IInv => NothingRunsAtTeardown
  BY DEF IInv, ProcInv, NothingRunsAtTeardown
<1>2. QED
  BY <1>1, InitIInv, NextIInv, PTL DEF Spec

\* service.stop is called only on a server that was started: the flag that gets
\* main past its wait is set by a handler.
THEOREM DaemonServerIsThere == Spec => []ServerIsThere
<1>1. IInv => ServerIsThere
  BY DEF IInv, ProcInv, ServerIsThere
<1>2. QED
  BY <1>1, InitIInv, NextIInv, PTL DEF Spec

\* However old the answer is that a controller acts on, it pauses only finished
\* torrents and shuts down only when all it was told of have finished.
THEOREM ControllerWaits == Spec => []ControllerWaitsForDownloads
<1>1. IInv => ControllerWaitsForDownloads
  BY DEF IInv, KnowledgeInv, Known, all_stop, ControllerWaitsForDownloads
<1>2. QED
  BY <1>1, InitIInv, NextIInv, PTL DEF Spec
=============================================================================
