------------------------------ MODULE EzioNbd ------------------------------
(***************************************************************************)
(* utils/ezio-nbd/ezio-nbd.py: nbdkit serves the files of an image, as the *)
(* daemon leaves them in file mode (-F), as if they were the partition.    *)
(* nbdkit runs pread on several threads at once (THREAD_MODEL_PARALLEL),   *)
(* which share nothing but the file descriptors of the process.            *)
(***************************************************************************)
EXTENDS PartitionImage

CONSTANTS
  Reader,       \* the threads of nbdkit
  MAX_FD,       \* limit on open files
  MAX_LENGTH    \* bound on the length of a request

ASSUME NbdAssumption == MAX_FD \in Nat /\ MAX_LENGTH \in Nat /\ IsFiniteSet(Reader)

VARIABLES
  request,    \* thread -> its pread call
  open_fds,   \* files open in the process
  leaked      \* history: calls that returned without closing their file

nbdVars == <<request, open_fds, leaked>>
vars == <<partitionVars, nbdVars>>

NoRequest == [pc |-> "idle"]

\* pc: "open" at the top of the loop, "opened" with a file open; when the call is
\* over "ok", "nofile" (no file could be opened) or "error" (any other exception).
RequestRec ==
  [pc : {"open", "opened", "ok", "nofile", "error"}, offset : Nat, current_offset : Nat, index : Nat,
   remain_len : Nat, buf_offset : Nat, buf : Seq(0 .. TotalSize)]

TypeOK ==
  /\ partition \in [0 .. PARTITION_SIZE - 1 -> -1 .. TotalSize]
  /\ written \subseteq Block
  /\ request \in [Reader -> RequestRec \cup {NoRequest}]
  /\ open_fds \in 0 .. MAX_FD /\ leaked \in 0 .. MAX_FD

Init ==
  /\ PartitionInit
  /\ request = [r \in Reader |-> NoRequest]
  /\ open_fds = 0 /\ leaked = 0

-----------------------------------------------------------------------------
\* open(): the names in the directory are sorted as strings, then parsed.
NameLess(a, b) == \E i \in DOMAIN a : a[i] < b[i] /\ \A k \in 1 .. i - 1 : a[k] = b[k]
filenames ==
  CHOOSE s \in [DOMAIN files -> {files[i].file_name : i \in DOMAIN files}] :
    \A i, k \in DOMAIN files : i < k => NameLess(s[i], s[k])
fd_list == [i \in DOMAIN filenames |-> Value(filenames[i])]

\* A file of the image holds its part of the torrent.
FileOf(name) == CHOOSE i \in DOMAIN files : files[i].file_name = name
st_size(index) == files[FileOf(filenames[index])].file_size
Content(index, n) == FileStart(FileOf(filenames[index])) + n + 1

bisect_left(a, x) == Cardinality({i \in DOMAIN a : a[i] < x})

\* Bug: the extent after the one that an offset lies in.
Index_next(offset) == bisect_left(fd_list, offset)

\* The index, counted from 0, where pread begins.
Index(offset) == IF bisect_left(fd_list, offset) - 1 > 0 THEN bisect_left(fd_list, offset) - 1 ELSE 0

\* A request for part of the device; nbdkit clears the buffer.
pread(r, offset, length) ==
  /\ request[r] = NoRequest
  /\ request' = [request EXCEPT ![r] =
       [pc |-> "open", offset |-> offset, current_offset |-> offset, index |-> Index(offset),
        remain_len |-> length, buf_offset |-> 0, buf |-> [n \in 1 .. length |-> 0]]]
  /\ UNCHANGED <<open_fds, leaked, partitionVars>>

\* The top of the loop: fd_list[index] and os.open may raise.
OpenFile(r) ==
  LET q == request[r]
      next == IF q.index >= Len(fd_list) THEN "error" ELSE IF open_fds = MAX_FD THEN "nofile" ELSE "opened"
  IN  /\ q.pc = "open"
      /\ request' = [request EXCEPT ![r].pc = next]
      /\ open_fds' = IF next = "opened" THEN open_fds + 1 ELSE open_fds
      /\ UNCHANGED <<leaked, partitionVars>>

block_offset(q) == q.current_offset - fd_list[q.index + 1]

\* "no data": the call returns, with the file open and the rest of the buffer zero.
\* A negative offset makes os.pread raise, with the file open too.
Missed(r) ==
  LET q == request[r]
  IN  /\ q.pc = "opened"
      /\ block_offset(q) >= st_size(q.index + 1) \/ block_offset(q) < 0
      /\ request' = [request EXCEPT ![r].pc = IF block_offset(q) < 0 THEN "error" ELSE "ok"]
      /\ leaked' = leaked + 1
      /\ UNCHANGED <<open_fds, partitionVars>>

\* Bug: a read is not cut off where the file ends.
read_len_whole(q) == q.remain_len

read_len(q) ==
  LET left == st_size(q.index + 1) - block_offset(q)
  IN  IF left < q.remain_len THEN left ELSE q.remain_len

\* os.pread, the copy into the buffer, and on to the next file.
Filled(q) ==
  [q EXCEPT
     !.buf = [n \in DOMAIN q.buf |->
       IF n \in q.buf_offset + 1 .. q.buf_offset + read_len(q)
       THEN Content(q.index + 1, block_offset(q) + n - q.buf_offset - 1) ELSE q.buf[n]],
     !.remain_len = @ - read_len(q), !.buf_offset = @ + read_len(q),
     !.current_offset = @ + read_len(q), !.index = @ + 1,
     !.pc = IF q.remain_len > read_len(q) THEN "open" ELSE "ok"]

\* Bug: the file is only closed when there is another one to read.
ReadFile_keeps_last(r) ==
  LET q == request[r]
  IN  /\ q.pc = "opened" /\ block_offset(q) \in 0 .. st_size(q.index + 1) - 1
      /\ request' = [request EXCEPT ![r] = Filled(q)]
      /\ open_fds' = IF Filled(q).pc = "open" THEN open_fds - 1 ELSE open_fds
      /\ UNCHANGED <<leaked, partitionVars>>

\* The rest of the loop, to its os.close.
ReadFile(r) ==
  LET q == request[r]
  IN  /\ q.pc = "opened" /\ block_offset(q) \in 0 .. st_size(q.index + 1) - 1
      /\ request' = [request EXCEPT ![r] = Filled(q)]
      /\ open_fds' = open_fds - 1
      /\ UNCHANGED <<leaked, partitionVars>>

\* nbdkit sends the buffer or the error to the client.
Reply(r) ==
  /\ request[r].pc \in {"ok", "nofile", "error"}
  /\ request' = [request EXCEPT ![r] = NoRequest]
  /\ UNCHANGED <<open_fds, leaked, partitionVars>>

NbdNext ==
  \E r \in Reader :
    \/ \E length \in 1 .. MAX_LENGTH : \E offset \in 0 .. PARTITION_SIZE - length :
         pread(r, offset, length)
    \/ OpenFile(r) \/ Missed(r) \/ ReadFile(r) \/ Reply(r)

Next == (PartitionNext /\ UNCHANGED nbdVars) \/ NbdNext

Spec == Init /\ [][Next]_vars

-----------------------------------------------------------------------------
Asked(q) == [n \in DOMAIN q.buf |-> Original[q.offset + n - 1]]

\* Reads that begin in the first extent, or in another but not at its start.
Begins(q) ==
  \E i \in DOMAIN Extents :
    q.offset \in Places(i) /\ (q.offset = Value(Extents[i].offset) => i = 1)

\* What is served agrees with what partition_storage deploys: no unit comes from
\* another place, and a read that begins in the first extent or behind the start of
\* another returns the partition's data, however many adjacent extents it spans; it
\* fails only for want of a file descriptor or where the partition is not in use.
ServedIsDeployed ==
  \A r \in Reader :
    LET q == request[r]
    IN  /\ q.pc = "ok" =>
             /\ \A n \in DOMAIN q.buf : q.buf[n] \in {0, Asked(q)[n]}
             /\ Begins(q) => q.buf = Asked(q)
        /\ q.pc = "error" /\ Begins(q) => \E n \in DOMAIN q.buf : Asked(q)[n] = 0

\* A file stays open only in a call under way, or for good after a call that found
\* no data: calls that find theirs close every file they opened.
FilesAreClosed ==
  open_fds = leaked + Cardinality({r \in Reader : request[r].pc = "opened"})

\* "EZIO-nbd could let you emulate EZIO image into NBD ... You can mount EZIO image
\* into readonly filesystem to dump files" (utils/ezio-nbd/README.md): a read that
\* stays in one extent and does not fail returns the extent's data.
ImageIsReadable ==
  \A r \in Reader : request[r].pc = "ok" =>
    LET q == request[r]
    IN  (\E i \in DOMAIN Extents : q.offset .. q.offset + Len(q.buf) - 1 \subseteq Places(i))
          => q.buf = Asked(q)
=============================================================================
