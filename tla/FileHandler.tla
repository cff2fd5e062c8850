----------------------------- MODULE FileHandler -----------------------------
(***************************************************************************)
(* The file handlers of pkg/api/handlers/files.go: HandlePut, HandleGet    *)
(* and HandleDelete on the files of one volume, each request in a          *)
(* goroutine of its own.  A step of a request is a call of the filesystem; *)
(* the handlers hold no lock, and between two steps any other request may  *)
(* take any number of steps.  The filesystem has inodes, because a file    *)
(* that is unlinked can still be written to and read by who has it open.   *)
(*                                                                         *)
(* The volume's root directory is no path of the model: it is made on      *)
(* demand and never removed.  A directory is known by its path: a DELETE   *)
(* goes on in the one that is made where it has removed one.  A file's     *)
(* modes and times are left out.                                           *)
(***************************************************************************)
EXTENDS Naturals, Sequences

CONSTANTS
  Requests,   \* the requests that ever arrive: bounds a behaviour
  Readers,    \* those of them that are GETs (the others PUT and DELETE)
  Paths,      \* the paths below the volume's root
  Ancestors,  \* Ancestors[p]: the directories on the way from the root to p
  Sizes,      \* the lengths of the contents that are PUT
  MaxSize,    \* a bound on them
  MaxFaults,  \* bound on failures and crashes in a behaviour
  NULL        \* no value (yet)

ASSUME FileAssumption ==
  /\ Ancestors \in [Paths -> SUBSET Paths]
  /\ \A p \in Paths : \A a \in Ancestors[p] :
       /\ Ancestors[a] \subseteq Ancestors[p] \ {a}
       /\ \A b \in Ancestors[p] : a = b \/ a \in Ancestors[b] \/ b \in Ancestors[a]
  /\ Readers \subseteq Requests
  /\ Sizes \subseteq 0..MaxSize
  /\ MaxSize \in Nat /\ MaxFaults \in Nat
  /\ NULL \notin Requests
  /\ "none" \notin Requests /\ "dir" \notin Requests

VARIABLES
  node,     \* node[p]: "none", "dir", or the inode of the file p
  data,     \* data[i]: the content of inode i; every byte bears its writer
  pc,       \* pc[r]: the step request r is about to take
  req,      \* req[r]: the parameters of request r
  fd,       \* fd[r]: the inode r has open
  size,     \* size[r]: the size that Stat told r's handler
  buf,      \* buf[r]: what r has read
  reply,    \* reply[r]: what the caller got, NULL while it waits
  before,   \* before[r]: the requests that were over when r arrived
  faults    \* how many faults happened

fileVars == <<node, data>>
locals == <<fd, size, buf>>
vars == <<node, data, pc, req, fd, size, buf, reply, before, faults>>

\* A PUT makes at most one file: it lends its inode its name.
Inodes == Requests

Content == UNION {[1..n -> Requests] : n \in 0..MaxSize}

Steps == {"idle", "Open", "Write", "PutStat", "OpenRead", "Read", "ReadDir",
          "Remove", "Empty", "Rmdir", "done"}

\* http.Status...; "Rejected": a 400, 404 or 500 before the filesystem is
\* touched; "Lost": the connection broke.
Replies == {"Rejected", "Created", "OK", "NotFound", "InternalError",
            "ServiceUnavailable", "Lost"}

Request == [op : {"put", "get", "delete"}, path : Paths, size : 0..MaxSize]

ASSUME NullAssumption == NULL \notin Replies /\ NULL \notin Request

TypeOK ==
  /\ node \in [Paths -> {"none", "dir"} \cup Inodes]
  /\ data \in [Inodes -> Content]
  /\ pc \in [Requests -> Steps]
  /\ req \in [Requests -> Request \cup {NULL}]
  /\ fd \in [Requests -> Inodes \cup {NULL}]
  /\ size \in [Requests -> 0..MaxSize]
  /\ buf \in [Requests -> Content]
  /\ reply \in [Requests -> Replies \cup {NULL}]
  /\ before \in [Requests -> SUBSET Requests]
  /\ faults \in 0..MaxFaults

Init ==
  /\ node = [p \in Paths |-> "none"]
  /\ data = [i \in Inodes |-> <<>>]
  /\ pc = [r \in Requests |-> "idle"]
  /\ req = [r \in Requests |-> NULL]
  /\ fd = [r \in Requests |-> NULL]
  /\ size = [r \in Requests |-> 0]
  /\ buf = [r \in Requests |-> <<>>]
  /\ reply = [r \in Requests |-> NULL]
  /\ before = [r \in Requests |-> {}]
  /\ faults = 0

-----------------------------------------------------------------------------
Exists(p) == node[p] # "none"
IsDir(p) == node[p] = "dir"
IsFile(p) == node[p] \in Inodes

\* A file stands where the path needs a directory: ENOTDIR, which is not
\* os.IsNotExist.
Blocked(p) == \E a \in Ancestors[p] : IsFile(a)

Below(p) == {q \in Paths : p \in Ancestors[q]}
Populated(p) == \E q \in Below(p) : Exists(q)

Goto(r, step) == pc' = [pc EXCEPT ![r] = step]

\* c.JSON(code, ...): the first answer is the one the caller sees.
Answer(r, code) ==
  reply' = [reply EXCEPT ![r] = IF reply[r] = NULL THEN code ELSE reply[r]]

Finish(r, code) == Goto(r, "done") /\ Answer(r, code)

Fault ==
  /\ faults < MaxFaults
  /\ faults' = faults + 1

\* A request arrives, and its volume is found.
Arrive(r, op, p, n) ==
  /\ pc[r] = "idle"
  /\ req' = [req EXCEPT ![r] = [op |-> op, path |-> p, size |-> n]]
  /\ before' = [before EXCEPT ![r] = {q \in Requests : pc[q] = "done" /\ req[q] # NULL}]
  /\ UNCHANGED <<fd, buf, faults>>

Continue == UNCHANGED <<req, before>>

\* Bind, path or volume do not fit, or the store fails: nothing has changed.
RejectRequest(r) ==
  /\ pc[r] = "idle"
  /\ Finish(r, "Rejected")
  /\ UNCHANGED <<fileVars, locals, faults>>
  /\ Continue

-----------------------------------------------------------------------------
\* A bug for the mutation checks: the parent is taken to be there.
HandlePutWithoutParent(r, p, n) ==
  /\ Arrive(r, "put", p, n)
  /\ Goto(r, "Open")
  /\ UNCHANGED <<fileVars, size, reply>>

\* HandlePut up to its MkdirAll of the parent directory, which fails when a
\* file is in its way.
HandlePut(r, p, n) ==
  /\ Arrive(r, "put", p, n)
  /\ \/ /\ Blocked(p)
        /\ Finish(r, "InternalError")
        /\ UNCHANGED node
     \/ /\ ~Blocked(p)
        /\ node' = [q \in Paths |-> IF q \in Ancestors[p] THEN "dir" ELSE node[q]]
        /\ Goto(r, "Open")
        /\ UNCHANGED reply
  /\ UNCHANGED <<data, size>>

\* A bug for the mutation checks: an existing file is not truncated.
PutOpenKeepsContent(r) ==
  LET p == req[r].path
      inode == IF IsFile(p) THEN node[p] ELSE r
  IN  /\ pc[r] = "Open"
      /\ \/ /\ IsDir(p) \/ \E a \in Ancestors[p] : ~IsDir(a)
            /\ Finish(r, "InternalError")
            /\ UNCHANGED <<node, fd>>
         \/ /\ ~IsDir(p) /\ \A a \in Ancestors[p] : IsDir(a)
            /\ node' = [node EXCEPT ![p] = inode]
            /\ fd' = [fd EXCEPT ![r] = inode]
            /\ Goto(r, "Write")
            /\ UNCHANGED reply
      /\ UNCHANGED <<data, size, buf, faults>>
      /\ Continue

\* WriteFile's open(O_CREATE|O_TRUNC).  It fails when the path is a directory
\* or its parent is (no longer) one.
PutOpen(r) ==
  LET p == req[r].path
      inode == IF IsFile(p) THEN node[p] ELSE r
  IN  /\ pc[r] = "Open"
      /\ \/ /\ IsDir(p) \/ \E a \in Ancestors[p] : ~IsDir(a)
            /\ Finish(r, "InternalError")
            /\ UNCHANGED <<fileVars, fd>>
         \/ /\ ~IsDir(p) /\ \A a \in Ancestors[p] : IsDir(a)
            /\ node' = [node EXCEPT ![p] = inode]
            /\ data' = [data EXCEPT ![inode] = <<>>]
            /\ fd' = [fd EXCEPT ![r] = inode]
            /\ Goto(r, "Write")
            /\ UNCHANGED reply
      /\ UNCHANGED <<size, buf, faults>>
      /\ Continue

Longer(m, n) == IF m < n THEN n ELSE m

\* The first n bytes of a content replaced by bytes of r.
Overwritten(content, r, n) ==
  [k \in 1..Longer(n, Len(content)) |-> IF k <= n THEN r ELSE content[k]]

\* WriteFile's write, from offset 0, and close: what is longer keeps its
\* end.  A write that fails has written less.
PutWrite(r) ==
  /\ pc[r] = "Write"
  /\ \E n \in 0..req[r].size :
       /\ data' = [data EXCEPT ![fd[r]] = Overwritten(data[fd[r]], r, n)]
       /\ \/ /\ n = req[r].size
             /\ Goto(r, "PutStat")
             /\ UNCHANGED <<reply, faults>>
          \/ /\ n < req[r].size
             /\ Fault
             /\ Finish(r, "InternalError")
  /\ fd' = [fd EXCEPT ![r] = NULL]
  /\ UNCHANGED <<node, size, buf>>
  /\ Continue

\* The Stat whose error is dropped: when the path is gone, info is nil, and
\* the Recovery middleware answers for the panic.
PutStat(r) ==
  /\ pc[r] = "PutStat"
  /\ Finish(r, IF Exists(req[r].path) THEN "Created" ELSE "InternalError")
  /\ UNCHANGED <<fileVars, locals, faults>>
  /\ Continue

-----------------------------------------------------------------------------
\* HandleGet up to its Stat.
HandleGet(r, p) ==
  /\ Arrive(r, "get", p, 0)
  /\ \/ /\ Blocked(p)
        /\ Finish(r, "InternalError")
        /\ UNCHANGED size
     \/ /\ ~Blocked(p) /\ ~Exists(p)
        /\ Finish(r, "NotFound")
        /\ UNCHANGED size
     \/ /\ IsDir(p)
        /\ Goto(r, "ReadDir")
        /\ UNCHANGED <<size, reply>>
     \/ /\ IsFile(p)
        /\ size' = [size EXCEPT ![r] = Len(data[node[p]])]
        /\ Goto(r, "OpenRead")
        /\ UNCHANGED reply
  /\ UNCHANGED fileVars

\* listDirectory.  Entries that vanish meanwhile are skipped.
ReadDir(r) ==
  /\ pc[r] = "ReadDir"
  /\ Finish(r, IF IsDir(req[r].path) THEN "OK" ELSE "InternalError")
  /\ UNCHANGED <<fileVars, locals, faults>>
  /\ Continue

\* A bug for the mutation checks: a path that is no file any more is opened
\* like one.
ReadOpenUnchecked(r) ==
  /\ pc[r] = "OpenRead"
  /\ fd' = [fd EXCEPT ![r] = node[req[r].path]]
  /\ Goto(r, "Read")
  /\ UNCHANGED <<fileVars, size, buf, reply, faults>>
  /\ Continue

\* ReadFile's open.
ReadOpen(r) ==
  /\ pc[r] = "OpenRead"
  /\ \/ /\ ~IsFile(req[r].path)
        /\ Finish(r, "InternalError")
        /\ UNCHANGED fd
     \/ /\ IsFile(req[r].path)
        /\ fd' = [fd EXCEPT ![r] = node[req[r].path]]
        /\ Goto(r, "Read")
        /\ UNCHANGED reply
  /\ UNCHANGED <<fileVars, size, buf, faults>>
  /\ Continue

\* ReadFile reads until a read returns nothing: here once what the file
\* holds, and again whatever it holds beyond that by then.
Read(r) ==
  LET content == data[fd[r]]
  IN  /\ pc[r] = "Read"
      /\ \/ /\ Len(content) > Len(buf[r])
            /\ buf' = [buf EXCEPT ![r] = @ \o SubSeq(content, Len(@) + 1, Len(content))]
            /\ UNCHANGED <<pc, reply, fd>>
         \/ /\ Len(content) <= Len(buf[r])
            /\ fd' = [fd EXCEPT ![r] = NULL]
            /\ Finish(r, "OK")
            /\ UNCHANGED buf
      /\ UNCHANGED <<fileVars, size, faults>>
      /\ Continue

-----------------------------------------------------------------------------
\* HandleDelete up to its Stat.
HandleDelete(r, p) ==
  /\ Arrive(r, "delete", p, 0)
  /\ \/ Blocked(p) /\ Finish(r, "InternalError")
     \/ ~Blocked(p) /\ ~Exists(p) /\ Finish(r, "NotFound")
     \/ Exists(p) /\ Goto(r, "Remove") /\ UNCHANGED reply
  /\ UNCHANGED <<fileVars, size>>

Unlink(p) == node' = [node EXCEPT ![p] = "none"]

\* A bug for the mutation checks: Remove in place of RemoveAll, its error
\* dropped.
RemoveLeavesDirectories(r) ==
  /\ pc[r] = "Remove"
  /\ IF Populated(req[r].path) THEN UNCHANGED node ELSE Unlink(req[r].path)
  /\ Finish(r, "OK")
  /\ UNCHANGED <<data, locals, faults>>
  /\ Continue

\* RemoveAll first tries to remove the path itself, which may be gone: then
\* there is nothing to do, unless a file is in the way of the path by now.
Remove(r) ==
  /\ pc[r] = "Remove"
  /\ \/ /\ Blocked(req[r].path)
        /\ Finish(r, "InternalError")
        /\ UNCHANGED node
     \/ /\ Populated(req[r].path)
        /\ Goto(r, "Empty")
        /\ UNCHANGED <<node, reply>>
     \/ /\ ~Blocked(req[r].path) /\ ~Populated(req[r].path)
        /\ Unlink(req[r].path)
        /\ Finish(r, "OK")
  /\ UNCHANGED <<data, locals, faults>>
  /\ Continue

\* Then what is in the directory, one by one, until it reads as empty.  It is
\* open by now, so that a file that takes its parent's place is not met.
Empty(r) ==
  /\ pc[r] = "Empty"
  /\ \/ /\ \E q \in Below(req[r].path) : Exists(q) /\ ~Populated(q) /\ Unlink(q)
        /\ UNCHANGED pc
     \/ /\ ~Populated(req[r].path)
        /\ Goto(r, "Rmdir")
        /\ UNCHANGED node
  /\ UNCHANGED <<data, locals, reply, faults>>
  /\ Continue

\* Then the directory, if it is one and still empty.
Rmdir(r) ==
  LET p == req[r].path
  IN  /\ pc[r] = "Rmdir"
      /\ \/ /\ IsFile(p) \/ Populated(p)
            /\ Finish(r, "InternalError")
            /\ UNCHANGED node
         \/ /\ ~IsFile(p) /\ ~Populated(p)
            /\ Unlink(p)
            /\ Finish(r, "OK")
      /\ UNCHANGED <<data, locals, faults>>
      /\ Continue

-----------------------------------------------------------------------------
\* The Timeout middleware answers 503; the handler, which does not look at
\* the context, runs on.
Timeout(r) ==
  /\ pc[r] \notin {"idle", "done"} /\ reply[r] = NULL
  /\ Fault
  /\ Answer(r, "ServiceUnavailable")
  /\ UNCHANGED <<fileVars, pc, locals>>
  /\ Continue

\* The manager crashes; the files stay as they are.
Crash ==
  LET running == {r \in Requests : pc[r] \notin {"idle", "done"}}
  IN  /\ running # {}
      /\ Fault
      /\ pc' = [r \in Requests |-> IF r \in running THEN "done" ELSE pc[r]]
      /\ reply' = [r \in Requests |->
                     IF r \in running /\ reply[r] = NULL THEN "Lost" ELSE reply[r]]
      /\ UNCHANGED <<fileVars, locals>>
      /\ Continue

\* Every request has been dealt with: nothing is left to do.
Terminated ==
  /\ \A r \in Requests : pc[r] = "done"
  /\ UNCHANGED vars

Next ==
  \/ \E r \in Requests :
       \/ RejectRequest(r)
       \/ \E p \in Paths :
            \/ r \in Readers /\ HandleGet(r, p)
            \/ r \notin Readers /\ \E n \in Sizes : HandlePut(r, p, n)
            \/ r \notin Readers /\ HandleDelete(r, p)
       \/ PutOpen(r) \/ PutWrite(r) \/ PutStat(r)
       \/ ReadDir(r) \/ ReadOpen(r) \/ Read(r)
       \/ Remove(r) \/ Empty(r) \/ Rmdir(r)
       \/ Timeout(r)
  \/ Crash
  \/ Terminated

Spec == Init /\ [][Next]_vars

-----------------------------------------------------------------------------
Done(op) == {r \in Requests : pc[r] = "done" /\ req[r] # NULL /\ req[r].op = op}

\* The GETs that got an answer from their handler.
Answered == {g \in Done("get") : reply[g] \in {"OK", "NotFound", "InternalError"}}

\* Request q can make, change or remove what is at path p.
Alters(q, p) ==
  /\ req[q] # NULL
  /\ \/ req[q].op = "put" /\ (req[q].path = p \/ p \in Ancestors[req[q].path])
     \/ req[q].op = "delete" /\ (req[q].path = p \/ req[q].path \in Ancestors[p])

\* Every other request that alters what g reads was over when w began, or
\* began when g was over.
NothingBetween(w, g) ==
  /\ w \in before[g]
  /\ \A q \in Requests \ {w} : Alters(q, req[g].path) => q \in before[w] \/ g \in before[q]

Written(w) == [k \in 1..req[w].size |-> w]

\* A file that was written with 201 reads back whole, under its own size,
\* whatever was there before and whatever else happens in the volume
\* (HandlePut's truncation, HandleGet's Stat and ReadFile).
ReadYourWrite ==
  \A w \in Done("put"), g \in Answered :
    reply[w] = "Created" /\ req[w].path = req[g].path /\ NothingBetween(w, g) =>
      /\ reply[g] = "OK"
      /\ buf[g] = Written(w)
      /\ size[g] = Len(buf[g])

\* PUT q makes a file where path p needs a directory.
Blocks(q, p) ==
  req[q] # NULL /\ req[q].op = "put" /\ req[q].path \in Ancestors[p]

\* A file or directory that was deleted with 200 is gone with all that was in
\* it, also when a handler that timed out or crashed left it half done: a GET
\* says so, or finds a file in its way that was made after the DELETE arrived.
ReadYourDelete ==
  \A d \in Done("delete"), g \in Answered :
    /\ reply[d] = "OK"
    /\ req[d].path = req[g].path \/ req[d].path \in Ancestors[req[g].path]
    /\ NothingBetween(d, g)
    => \/ reply[g] = "NotFound"
       \/ /\ reply[g] = "InternalError"
          /\ \E q \in Requests : Blocks(q, req[g].path) /\ q \notin before[d] /\ g \notin before[q]

Overlap(q, r) == q # r /\ q \notin before[r] /\ r \notin before[q]

OnOnePath(q, r) ==
  \/ req[q].path = req[r].path
  \/ req[q].path \in Ancestors[req[r].path]
  \/ req[r].path \in Ancestors[req[q].path]

\* What can make request r fail without a fault: a DELETE meanwhile; a PUT
\* meanwhile, if it is a DELETE itself; a PUT, no later than r, of a file where
\* r needs a directory; or, if r is a PUT, one below the path that r wants to
\* be a file.
Disturbs(q, r) ==
  /\ req[q] # NULL /\ OnOnePath(q, r) /\ r \notin before[q]
  /\ \/ req[q].op = "delete" /\ Overlap(q, r)
     \/ req[q].op = "put" /\ req[r].op = "delete" /\ Overlap(q, r)
     \/ Blocks(q, req[r].path)
     \/ req[r].op = "put" /\ Blocks(r, req[q].path)

\* As long as nothing fails, a 500 means that another request was at work on
\* the same path: requests that do not meet do not make each other fail.
FailsOnlyWhenDisturbed ==
  faults = 0 =>
    \A r \in Requests :
      req[r] # NULL /\ reply[r] = "InternalError" => \E q \in Requests : Disturbs(q, r)

\* Contents are mixed only by PUTs that overlap: as long as nothing fails and
\* no two PUTs of a path were under way together, a file that no handler has
\* open for writing holds exactly what the last PUT of it wrote, also when
\* DELETEs unlink files that are being written (HandlePut's os.WriteFile).
MixedOnlyByOverlap ==
  faults = 0 =>
    \A p \in Paths :
      LET puts == {r \in Requests : req[r] # NULL /\ req[r].op = "put" /\ req[r].path = p}
      IN  /\ IsFile(p)
          /\ \A r \in Requests : pc[r] = "Write" => fd[r] # node[p]
          /\ \A q, r \in puts : ~Overlap(q, r)
          => \E w \in puts : /\ data[node[p]] = Written(w)
                             /\ \A q \in puts \ {w} : reply[q] = "Created" => w \notin before[q]
=============================================================================
