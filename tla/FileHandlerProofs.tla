-------------------------- MODULE FileHandlerProofs --------------------------
(***************************************************************************)
(* What the file handlers guarantee without a lock, for any number of      *)
(* requests, paths, faults and crashes: a write and a delete are seen by   *)
(* the reads that follow them, requests that do not meet do not make each  *)
(* other fail, and only overlapping PUTs of one path mix their contents.   *)
(***************************************************************************)
EXTENDS FileHandler, SequenceTheorems, TLAPS

Putting == {"Open", "Write", "PutStat"}
Getting == {"OpenRead", "Read", "ReadDir"}
Deleting == {"Remove", "Empty", "Rmdir"}
Running == Putting \cup Getting \cup Deleting

Is(r, op) == req[r] # NULL /\ req[r].op = op

\* What a request at a step has: parameters of the step's kind, an inode that
\* was made for its path, and a past of requests that are over.
LocalsOK(r) ==
  /\ pc[r] = "idle" => req[r] = NULL /\ before[r] = {} /\ reply[r] = NULL
  /\ pc[r] \in Running => reply[r] \in {NULL, "ServiceUnavailable"}
  /\ pc[r] \in Putting => Is(r, "put")
  /\ pc[r] \in Getting => Is(r, "get")
  /\ pc[r] \in Deleting => Is(r, "delete")
  /\ pc[r] \in {"Write", "Read"} =>
       fd[r] \in Inodes /\ Is(fd[r], "put") /\ req[fd[r]].path = req[r].path
  /\ pc[r] \notin {"Read", "done"} => buf[r] = <<>>
  /\ \A q \in before[r] : pc[q] = "done" /\ req[q] # NULL

\* What is at a path is there through a PUT, in directories.
TreeOK(p) ==
  /\ IsFile(p) => Is(node[p], "put") /\ req[node[p]].path = p
  /\ IsDir(p) => \E q \in Requests : Is(q, "put") /\ p \in Ancestors[req[q].path]
  /\ Exists(p) => \A a \in Ancestors[p] : IsDir(a)

FileInv ==
  /\ TypeOK
  /\ \A r \in Requests : LocalsOK(r)
  /\ \A p \in Paths : TreeOK(p)

-----------------------------------------------------------------------------
\* Contents are sequences of bytes, and stay so when they are written and read.
LEMMA ContentIs ==
  \A c : c \in Content <=> c \in Seq(Requests) /\ Len(c) \in 0..MaxSize
<1>1. ASSUME NEW c, c \in Content PROVE c \in Seq(Requests) /\ Len(c) \in 0..MaxSize
  <2>1. PICK n \in 0..MaxSize : c \in [1..n -> Requests]
    BY <1>1 DEF Content
  <2>2. n \in Nat
    BY <2>1, FileAssumption
  <2> QED
    BY <2>1, <2>2, SeqDef, LenProperties
<1>2. ASSUME NEW c, c \in Seq(Requests), Len(c) \in 0..MaxSize PROVE c \in Content
  BY <1>2, LenProperties DEF Content
<1> QED
  BY <1>1, <1>2

LEMMA WrittenContent ==
  ASSUME NEW c \in Content, NEW r \in Requests, NEW n \in 0..MaxSize
  PROVE  Overwritten(c, r, n) \in Content
<1>1. c \in Seq(Requests) /\ Len(c) \in 0..MaxSize
  BY ContentIs
<1>2. Longer(n, Len(c)) \in 0..MaxSize /\ (Longer(n, Len(c)) = n \/ Longer(n, Len(c)) = Len(c))
  BY <1>1 DEF Longer
<1>3. \A k \in 1..Longer(n, Len(c)) : k > n => c[k] \in Requests
  BY <1>1, <1>2, ElementOfSeq, FileAssumption
<1>4. Overwritten(c, r, n) \in [1..Longer(n, Len(c)) -> Requests]
  BY <1>3, <1>2, FileAssumption DEF Overwritten
<1> QED
  BY <1>2, <1>4 DEF Content

LEMMA ReadContent ==
  ASSUME NEW b \in Content, NEW c \in Content, Len(c) > Len(b)
  PROVE  b \o SubSeq(c, Len(b) + 1, Len(c)) \in Content
<1> DEFINE s == SubSeq(c, Len(b) + 1, Len(c))
<1>1. /\ b \in Seq(Requests) /\ c \in Seq(Requests)
      /\ Len(b) \in Nat /\ Len(c) \in 0..MaxSize /\ MaxSize \in Nat
  BY ContentIs, FileAssumption
<1>2. \A i \in Len(b) + 1 .. Len(c) : c[i] \in Requests
  BY <1>1, ElementOfSeq
<1>3. s \in Seq(Requests) /\ Len(s) = Len(c) - Len(b)
  BY <1>1, <1>2, SubSeqProperties
<1>4. b \o s \in Seq(Requests) /\ Len(b \o s) = Len(c)
  BY <1>1, <1>3, ConcatProperties
<1> QED
  BY <1>1, <1>4, ContentIs

\* A first read gets the whole file, and a write to an empty file all of it.
LEMMA ReadFromStart ==
  ASSUME NEW c \in Content
  PROVE  <<>> \o SubSeq(c, Len(<<>>) + 1, Len(c)) = c
<1>1. c \in Seq(Requests) /\ Len(c) \in Nat /\ Len(<<>>) = 0
  BY ContentIs, FileAssumption, EmptySeq
<1>2. SubSeq(c, 1, Len(c)) = c
  BY <1>1, SubSeqFull
<1> QED
  BY <1>1, <1>2, ConcatEmptySeq

LEMMA WriteFromStart ==
  ASSUME NEW r \in Requests, NEW n \in 0..MaxSize
  PROVE  /\ Overwritten(<<>>, r, n) = [k \in 1..n |-> r]
         /\ [k \in 1..n |-> r] \in Content /\ Len([k \in 1..n |-> r]) = n
<1>1. n \in Nat /\ Len(<<>>) = 0
  BY FileAssumption, EmptySeq
<1>2. Longer(n, 0) = n
  BY <1>1 DEF Longer
<1>3. Overwritten(<<>>, r, n) = [k \in 1..n |-> r]
  BY <1>1, <1>2 DEF Overwritten
<1>4. [k \in 1..n |-> r] \in [1..n -> Requests]
  OBVIOUS
<1> QED
  BY <1>1, <1>3, <1>4 DEF Content

LEMMA EmptyContent == <<>> \in Content /\ Len(<<>>) = 0
<1>1. <<>> \in Seq(Requests) /\ Len(<<>>) = 0 /\ 0 \in 0..MaxSize
  BY FileAssumption, EmptySeq
<1> QED
  BY <1>1, ContentIs

-----------------------------------------------------------------------------
\* A step of one request.
Step(r) ==
  \/ RejectRequest(r)
  \/ \E p \in Paths :
       \/ r \in Readers /\ HandleGet(r, p)
       \/ r \notin Readers /\ \E n \in Sizes : HandlePut(r, p, n)
       \/ r \notin Readers /\ HandleDelete(r, p)
  \/ PutOpen(r) \/ PutWrite(r) \/ PutStat(r)
  \/ ReadDir(r) \/ ReadOpen(r) \/ Read(r)
  \/ Remove(r) \/ Empty(r) \/ Rmdir(r)
  \/ Timeout(r)

LEMMA NextIs == Next <=> (\E r \in Requests : Step(r)) \/ Crash \/ Terminated
BY DEF Next, Step

\* The arrivals: each sets the request's parameters and its past.
LEMMA ArrivalDoes ==
  ASSUME TypeOK, NEW r \in Requests, NEW op \in {"put", "get", "delete"}, NEW p \in Paths,
         NEW n \in 0..MaxSize, Arrive(r, op, p, n)
  PROVE  /\ pc[r] = "idle"
         /\ \A q \in Requests \ {r} : req'[q] = req[q] /\ before'[q] = before[q]
         /\ req'[r] = [op |-> op, path |-> p, size |-> n] /\ req'[r] \in Request
         /\ before'[r] = {q \in Requests : pc[q] = "done" /\ req[q] # NULL}
         /\ req' \in [Requests -> Request \cup {NULL}]
         /\ before' \in [Requests -> SUBSET Requests]
         /\ UNCHANGED <<fd, buf, faults>>
<1>1. [op |-> op, path |-> p, size |-> n] \in Request
  BY DEF Request
<1> QED
  BY <1>1 DEF Arrive, TypeOK

LEMMA GotoDoes ==
  ASSUME TypeOK, NEW r \in Requests, NEW step \in Steps, Goto(r, step)
  PROVE  /\ pc' \in [Requests -> Steps] /\ pc'[r] = step
         /\ \A q \in Requests \ {r} : pc'[q] = pc[q]
BY DEF Goto, TypeOK

LEMMA FinishDoes ==
  ASSUME TypeOK, NEW r \in Requests, NEW code \in Replies, Finish(r, code)
  PROVE  /\ pc' \in [Requests -> Steps] /\ pc'[r] = "done"
         /\ reply' \in [Requests -> Replies \cup {NULL}]
         /\ reply'[r] = IF reply[r] = NULL THEN code ELSE reply[r]
         /\ \A q \in Requests \ {r} : pc'[q] = pc[q] /\ reply'[q] = reply[q]
BY DEF Finish, Goto, Answer, TypeOK, Steps

-----------------------------------------------------------------------------
\* A step of r changes r's own locals only, and its parameters and past only
\* when it arrives.
Alone(r) ==
  /\ pc[r] # "done"
  /\ \A q \in Requests \ {r} :
       /\ pc'[q] = pc[q] /\ req'[q] = req[q] /\ before'[q] = before[q] /\ reply'[q] = reply[q]
       /\ fd'[q] = fd[q] /\ size'[q] = size[q] /\ buf'[q] = buf[q]
  /\ \/ pc[r] = "idle"
     \/ req'[r] = req[r] /\ before'[r] = before[r]

LEMMA ArriveIsAlone ==
  ASSUME TypeOK, NEW r \in Requests, pc[r] = "idle", NEW p \in Paths,
         \/ RejectRequest(r) \/ HandleGet(r, p) \/ HandleDelete(r, p)
         \/ \E n \in Sizes : HandlePut(r, p, n)
  PROVE  TypeOK' /\ Alone(r)
<1>1. CASE RejectRequest(r)
  BY <1>1, FinishDoes DEF RejectRequest, fileVars, locals, Continue, Alone, TypeOK, Replies
<1>2. CASE HandleGet(r, p)
  <2>1. 0 \in 0..MaxSize
    BY FileAssumption
  <2>2. /\ req' \in [Requests -> Request \cup {NULL}]
        /\ before' \in [Requests -> SUBSET Requests]
        /\ \A q \in Requests \ {r} : req'[q] = req[q] /\ before'[q] = before[q]
        /\ UNCHANGED <<node, data, fd, buf, faults>>
    BY <1>2, <2>1, ArrivalDoes DEF HandleGet, fileVars
  <2>3. /\ pc' \in [Requests -> Steps] /\ reply' \in [Requests -> Replies \cup {NULL}]
        /\ \A q \in Requests \ {r} : pc'[q] = pc[q] /\ reply'[q] = reply[q]
    BY <1>2, FinishDoes, GotoDoes DEF HandleGet, TypeOK, Replies, Steps
  <2>4. /\ size' \in [Requests -> 0..MaxSize]
        /\ \A q \in Requests \ {r} : size'[q] = size[q]
    <3>1. CASE UNCHANGED size
      BY <3>1 DEF TypeOK
    <3>2. CASE IsFile(p) /\ size' = [size EXCEPT ![r] = Len(data[node[p]])]
      <4>1. Len(data[node[p]]) \in 0..MaxSize
        BY <3>2, ContentIs DEF IsFile, TypeOK
      <4> QED
        BY <3>2, <4>1 DEF TypeOK
    <3> QED
      BY <1>2, <3>1, <3>2 DEF HandleGet
  <2> QED
    BY <2>2, <2>3, <2>4 DEF TypeOK, Alone
<1>3. CASE HandleDelete(r, p)
  <2>1. 0 \in 0..MaxSize
    BY FileAssumption
  <2>2. /\ req' \in [Requests -> Request \cup {NULL}]
        /\ before' \in [Requests -> SUBSET Requests]
        /\ \A q \in Requests \ {r} : req'[q] = req[q] /\ before'[q] = before[q]
        /\ UNCHANGED <<node, data, fd, buf, faults, size>>
    BY <1>3, <2>1, ArrivalDoes DEF HandleDelete, fileVars
  <2>3. /\ pc' \in [Requests -> Steps] /\ reply' \in [Requests -> Replies \cup {NULL}]
        /\ \A q \in Requests \ {r} : pc'[q] = pc[q] /\ reply'[q] = reply[q]
    BY <1>3, FinishDoes, GotoDoes DEF HandleDelete, TypeOK, Replies, Steps
  <2> QED
    BY <2>2, <2>3 DEF TypeOK, Alone
<1>4. ASSUME NEW n \in Sizes, HandlePut(r, p, n)
      PROVE  TypeOK' /\ Alone(r)
  <2>1. n \in 0..MaxSize
    BY FileAssumption
  <2>2. /\ req' \in [Requests -> Request \cup {NULL}]
        /\ before' \in [Requests -> SUBSET Requests]
        /\ \A q \in Requests \ {r} : req'[q] = req[q] /\ before'[q] = before[q]
        /\ UNCHANGED <<data, fd, buf, faults, size>>
    BY <1>4, <2>1, ArrivalDoes DEF HandlePut
  <2>3. /\ pc' \in [Requests -> Steps] /\ reply' \in [Requests -> Replies \cup {NULL}]
        /\ \A q \in Requests \ {r} : pc'[q] = pc[q] /\ reply'[q] = reply[q]
    BY <1>4, FinishDoes, GotoDoes DEF HandlePut, TypeOK, Replies, Steps
  <2>4. node' \in [Paths -> {"none", "dir"} \cup Inodes]
    BY <1>4 DEF HandlePut, TypeOK
  <2> QED
    BY <2>2, <2>3, <2>4 DEF TypeOK, Alone
<1> QED
  BY <1>1, <1>2, <1>3, <1>4

LEMMA PutIsAlone ==
  ASSUME FileInv, NEW r \in Requests, PutOpen(r) \/ PutWrite(r) \/ PutStat(r)
  PROVE  TypeOK' /\ Alone(r)
<1>1. TypeOK /\ LocalsOK(r)
  BY DEF FileInv
<1>2. CASE PutOpen(r)
  <2> DEFINE p == req[r].path
             inode == IF IsFile(p) THEN node[p] ELSE r
  <2>1. /\ pc[r] = "Open" /\ p \in Paths /\ inode \in Inodes
    BY <1>1, <1>2 DEF PutOpen, LocalsOK, Is, Putting, TypeOK, Request, IsFile, Inodes
  <2>2. /\ pc' \in [Requests -> Steps] /\ reply' \in [Requests -> Replies \cup {NULL}]
        /\ \A q \in Requests \ {r} : pc'[q] = pc[q] /\ reply'[q] = reply[q]
    BY <1>1, <1>2, FinishDoes, GotoDoes DEF PutOpen, TypeOK, Replies, Steps
  <2>3. /\ node' \in [Paths -> {"none", "dir"} \cup Inodes]
        /\ data' \in [Inodes -> Content]
        /\ fd' \in [Requests -> Inodes \cup {NULL}]
        /\ \A q \in Requests \ {r} : fd'[q] = fd[q]
    <3>1. CASE UNCHANGED <<fileVars, fd>>
      BY <1>1, <3>1 DEF TypeOK, fileVars
    <3>2. CASE /\ node' = [node EXCEPT ![p] = inode]
               /\ data' = [data EXCEPT ![inode] = <<>>]
               /\ fd' = [fd EXCEPT ![r] = inode]
      <4> HIDE DEF p, inode
      <4> QED
        BY <1>1, <2>1, <3>2, EmptyContent DEF TypeOK
    <3> QED
      BY <1>2, <3>1, <3>2 DEF PutOpen
  <2> QED
    BY <1>1, <1>2, <2>1, <2>2, <2>3 DEF PutOpen, Continue, TypeOK, Alone
<1>3. CASE PutWrite(r)
  <2>1. PICK n \in 0..req[r].size :
          /\ data' = [data EXCEPT ![fd[r]] = Overwritten(data[fd[r]], r, n)]
          /\ \/ /\ n = req[r].size
                /\ Goto(r, "PutStat")
                /\ UNCHANGED <<reply, faults>>
             \/ /\ n < req[r].size
                /\ Fault
                /\ Finish(r, "InternalError")
    BY <1>3 DEF PutWrite
  <2>2. req[r] \in Request /\ fd[r] \in Inodes
    BY <1>1, <1>3 DEF PutWrite, LocalsOK, Is, Putting, TypeOK
  <2>3. n \in 0..MaxSize
    BY <2>2, FileAssumption DEF Request
  <2>4. Overwritten(data[fd[r]], r, n) \in Content
    BY <1>1, <2>2, <2>3, WrittenContent DEF TypeOK
  <2>5. data' \in [Inodes -> Content]
    BY <1>1, <2>1, <2>4 DEF TypeOK
  <2>6. /\ pc' \in [Requests -> Steps] /\ reply' \in [Requests -> Replies \cup {NULL}]
        /\ \A q \in Requests \ {r} : pc'[q] = pc[q] /\ reply'[q] = reply[q]
    BY <1>1, <2>1, FinishDoes, GotoDoes DEF TypeOK, Replies, Steps
  <2>7. faults' \in 0..MaxFaults
    BY <1>1, <2>1, FileAssumption DEF Fault, TypeOK
  <2> QED
    BY <1>1, <1>3, <2>5, <2>6, <2>7 DEF PutWrite, Continue, TypeOK, Alone
<1>4. CASE PutStat(r)
  BY <1>1, <1>4, FinishDoes DEF PutStat, fileVars, locals, Continue, Alone, TypeOK, Replies
<1> QED
  BY <1>2, <1>3, <1>4

LEMMA GetIsAlone ==
  ASSUME FileInv, NEW r \in Requests, ReadDir(r) \/ ReadOpen(r) \/ Read(r)
  PROVE  TypeOK' /\ Alone(r)
<1>1. TypeOK /\ LocalsOK(r)
  BY DEF FileInv
<1>2. CASE ReadDir(r)
  BY <1>1, <1>2, FinishDoes DEF ReadDir, fileVars, locals, Continue, Alone, TypeOK, Replies
<1>3. CASE ReadOpen(r)
  <2>1. req[r].path \in Paths
    BY <1>1, <1>3 DEF ReadOpen, LocalsOK, Is, Getting, TypeOK, Request
  <2>2. /\ pc' \in [Requests -> Steps] /\ reply' \in [Requests -> Replies \cup {NULL}]
        /\ \A q \in Requests \ {r} : pc'[q] = pc[q] /\ reply'[q] = reply[q]
    BY <1>1, <1>3, FinishDoes, GotoDoes DEF ReadOpen, TypeOK, Replies, Steps
  <2>3. /\ fd' \in [Requests -> Inodes \cup {NULL}]
        /\ \A q \in Requests \ {r} : fd'[q] = fd[q]
    BY <1>1, <1>3, <2>1 DEF ReadOpen, TypeOK, IsFile
  <2> QED
    BY <1>1, <1>3, <2>2, <2>3 DEF ReadOpen, fileVars, Continue, Alone, TypeOK
<1>4. CASE Read(r)
  <2> DEFINE content == data[fd[r]]
  <2>1. content \in Content /\ buf[r] \in Content
    BY <1>1, <1>4 DEF Read, LocalsOK, TypeOK
  <2>2. CASE /\ Len(content) > Len(buf[r])
             /\ buf' = [buf EXCEPT ![r] = @ \o SubSeq(content, Len(@) + 1, Len(content))]
             /\ UNCHANGED <<pc, reply, fd>>
    <3>1. buf[r] \o SubSeq(content, Len(buf[r]) + 1, Len(content)) \in Content
      BY <2>1, <2>2, ReadContent
    <3>2. buf' \in [Requests -> Content] /\ \A q \in Requests \ {r} : buf'[q] = buf[q]
      BY <1>1, <2>2, <3>1 DEF TypeOK
    <3> QED
      BY <1>1, <1>4, <2>2, <3>2 DEF Read, fileVars, Continue, Alone, TypeOK
  <2>3. CASE /\ fd' = [fd EXCEPT ![r] = NULL]
             /\ Finish(r, "OK")
             /\ UNCHANGED buf
    BY <1>1, <1>4, <2>3, FinishDoes DEF Read, fileVars, Continue, Alone, TypeOK, Replies
  <2> QED
    BY <1>4, <2>2, <2>3 DEF Read
<1> QED
  BY <1>2, <1>3, <1>4

LEMMA DeleteIsAlone ==
  ASSUME FileInv, NEW r \in Requests, Remove(r) \/ Empty(r) \/ Rmdir(r)
  PROVE  TypeOK' /\ Alone(r)
<1>1. TypeOK /\ LocalsOK(r)
  BY DEF FileInv
<1>2. \A p : Unlink(p) => node' \in [Paths -> {"none", "dir"} \cup Inodes]
  BY <1>1 DEF Unlink, TypeOK
<1>3. node' \in [Paths -> {"none", "dir"} \cup Inodes]
  BY <1>1, <1>2 DEF Remove, Empty, Rmdir, TypeOK
<1>4. /\ pc' \in [Requests -> Steps] /\ reply' \in [Requests -> Replies \cup {NULL}]
      /\ \A q \in Requests \ {r} : pc'[q] = pc[q] /\ reply'[q] = reply[q]
  BY <1>1, FinishDoes, GotoDoes DEF Remove, Empty, Rmdir, TypeOK, Replies, Steps
<1> QED
  BY <1>1, <1>3, <1>4 DEF Remove, Empty, Rmdir, locals, Continue, Alone, TypeOK

LEMMA StepIsAlone ==
  ASSUME FileInv, NEW r \in Requests, Step(r)
  PROVE  TypeOK' /\ Alone(r)
<1>1. CASE Timeout(r)
  <2>1. TypeOK /\ faults' \in 0..MaxFaults
    BY <1>1, FileAssumption DEF Timeout, Fault, TypeOK, FileInv
  <2> QED
    BY <1>1, <2>1 DEF Timeout, Answer, fileVars, locals, Continue, Alone, TypeOK, Replies
<1>2. CASE RejectRequest(r)
  BY <1>2, FinishDoes
  DEF RejectRequest, fileVars, locals, Continue, Alone, TypeOK, Replies, FileInv
<1> QED
  BY <1>1, <1>2, ArriveIsAlone, PutIsAlone, GetIsAlone, DeleteIsAlone
  DEF Step, FileInv, HandleGet, HandlePut, HandleDelete, Arrive

-----------------------------------------------------------------------------
\* What a request asked for stays as it is.
LEMMA AskedStays ==
  ASSUME FileInv, NEW r \in Requests, Alone(r)
  PROVE  \A q \in Requests : req[q] # NULL => req'[q] = req[q] /\ before'[q] = before[q]
BY DEF Alone, FileInv, LocalsOK

LEMMA OthersKeepLocals ==
  ASSUME FileInv, NEW r \in Requests, Alone(r), NEW q \in Requests \ {r}
  PROVE  LocalsOK(q)'
<1>1. LocalsOK(q) /\ q \in Requests /\ before[q] \subseteq Requests
  BY DEF FileInv, TypeOK
<1>2. /\ pc'[q] = pc[q] /\ req'[q] = req[q] /\ before'[q] = before[q] /\ reply'[q] = reply[q]
      /\ fd'[q] = fd[q] /\ buf'[q] = buf[q]
  BY DEF Alone
<1>3. \A x \in before'[q] : pc'[x] = "done" /\ req'[x] # NULL
  BY <1>1, <1>2 DEF LocalsOK, Alone
<1>4. ASSUME fd[q] \in Inodes, Is(fd[q], "put")
      PROVE  req'[fd[q]] = req[fd[q]]
  BY <1>4, AskedStays DEF Is, Inodes
<1>5. \A op : Is(q, op) => Is(q, op)'
  BY <1>2 DEF Is
<1>6. pc'[q] \in {"Write", "Read"} =>
        fd'[q] \in Inodes /\ Is(fd[q], "put")' /\ req'[fd'[q]].path = req'[q].path
  BY <1>1, <1>2, <1>4 DEF LocalsOK, Is
<1> QED
  BY <1>1, <1>2, <1>3, <1>5, <1>6 DEF LocalsOK, Is

\* A request that arrives finds what is over, and begins with nothing read.
LEMMA ArriveKeepsLocals ==
  ASSUME FileInv, NEW r \in Requests, pc[r] = "idle", Alone(r), UNCHANGED buf,
         NEW op \in {"put", "get", "delete"}, NEW p \in Paths, NEW n \in 0..MaxSize,
         Arrive(r, op, p, n),
         \/ \E code \in Replies : Finish(r, code)
         \/ UNCHANGED reply /\ \E step \in Steps \ {"idle", "Write", "Read", "done"} :
              /\ Goto(r, step)
              /\ step \in Putting => op = "put"
              /\ step \in Getting => op = "get"
              /\ step \in Deleting => op = "delete"
  PROVE  LocalsOK(r)'
<1>1. TypeOK /\ LocalsOK(r)
  BY DEF FileInv
<1>2. /\ req'[r] = [op |-> op, path |-> p, size |-> n] /\ req'[r] \in Request
      /\ before'[r] = {q \in Requests : pc[q] = "done" /\ req[q] # NULL}
  BY <1>1, ArrivalDoes
<1>3. \A q \in before'[r] : pc'[q] = "done" /\ req'[q] # NULL
  BY <1>2 DEF Alone
<1>4. Is(r, op)'
  BY <1>2, NullAssumption DEF Is
<1>5. CASE \E code \in Replies : Finish(r, code)
  <2>1. pc'[r] = "done"
    BY <1>1, <1>5, FinishDoes
  <2> QED
    BY <2>1, <1>3 DEF LocalsOK, Putting, Getting, Deleting, Running
<1>6. CASE UNCHANGED reply /\ \E step \in Steps \ {"idle", "Write", "Read", "done"} :
              /\ Goto(r, step)
              /\ step \in Putting => op = "put"
              /\ step \in Getting => op = "get"
              /\ step \in Deleting => op = "delete"
  <2>1. /\ pc'[r] \notin {"idle", "Write", "Read", "done"} /\ reply'[r] = NULL
        /\ pc'[r] \in Putting => op = "put"
        /\ pc'[r] \in Getting => op = "get"
        /\ pc'[r] \in Deleting => op = "delete"
        /\ buf'[r] = <<>>
    BY <1>1, <1>6, GotoDoes DEF LocalsOK
  <2> QED
    BY <2>1, <1>3, <1>4 DEF LocalsOK
<1> QED
  BY <1>5, <1>6

\* A request goes on, or is over.
LEMMA GoesOnKeepsLocals ==
  ASSUME FileInv, NEW r \in Requests, Alone(r), pc[r] \in Running,
         req'[r] = req[r], before'[r] = before[r],
         \/ pc'[r] = "done"
         \/ /\ pc'[r] \in Running
            /\ reply'[r] \in {NULL, "ServiceUnavailable"}
            /\ pc[r] \in Putting <=> pc'[r] \in Putting
            /\ pc[r] \in Getting <=> pc'[r] \in Getting
            /\ pc[r] \in Deleting <=> pc'[r] \in Deleting
            /\ pc'[r] # "Read" => buf'[r] = buf[r] /\ pc[r] # "Read"
            /\ pc'[r] \in {"Write", "Read"} =>
                 /\ fd'[r] \in Inodes /\ Is(fd'[r], "put")
                 /\ req[fd'[r]].path = req[r].path
  PROVE  LocalsOK(r)'
<1>1. LocalsOK(r) /\ before[r] \subseteq Requests
  BY DEF FileInv, TypeOK
<1>2. \A q \in before'[r] : pc'[q] = "done" /\ req'[q] # NULL
  BY <1>1 DEF LocalsOK, Alone
<1>3. CASE pc'[r] = "done"
  BY <1>2, <1>3 DEF LocalsOK, Putting, Getting, Deleting, Running
<1>4. CASE pc'[r] # "done"
  <2>1. /\ pc'[r] \in Running /\ reply'[r] \in {NULL, "ServiceUnavailable"}
        /\ pc[r] \in Putting <=> pc'[r] \in Putting
        /\ pc[r] \in Getting <=> pc'[r] \in Getting
        /\ pc[r] \in Deleting <=> pc'[r] \in Deleting
        /\ pc'[r] # "Read" => buf'[r] = buf[r] /\ pc[r] # "Read"
    BY <1>4
  <2>2. pc'[r] \in {"Write", "Read"} =>
          /\ fd'[r] \in Inodes /\ req'[fd'[r]] = req[fd'[r]] /\ Is(fd'[r], "put")
          /\ req[fd'[r]].path = req[r].path
    BY <1>4, AskedStays DEF Is, Inodes
  <2>3. /\ pc'[r] \in Putting => Is(r, "put")'
        /\ pc'[r] \in Getting => Is(r, "get")'
        /\ pc'[r] \in Deleting => Is(r, "delete")'
    BY <1>1, <2>1 DEF LocalsOK, Is
  <2>4. pc'[r] \notin {"Read", "done"} => buf'[r] = <<>>
    BY <1>1, <2>1 DEF LocalsOK, Running, Putting, Getting, Deleting
  <2>5. pc'[r] # "idle"
    BY <2>1 DEF Running, Putting, Getting, Deleting
  <2>6. pc'[r] \in {"Write", "Read"} =>
          fd'[r] \in Inodes /\ Is(fd[r], "put")' /\ req'[fd'[r]].path = req'[r].path
    BY <2>2 DEF Is
  <2> QED
    BY <1>2, <2>1, <2>3, <2>4, <2>5, <2>6 DEF LocalsOK
<1> QED
  BY <1>3, <1>4

LEMMA StepKeepsLocals ==
  ASSUME FileInv, NEW r \in Requests, Step(r)
  PROVE  LocalsOK(r)'
<1>1. TypeOK /\ LocalsOK(r) /\ Alone(r)
  BY StepIsAlone DEF FileInv
<1>2. 0 \in 0..MaxSize /\ Sizes \subseteq 0..MaxSize
  BY FileAssumption
<1>3. CASE RejectRequest(r)
  <2>1. pc'[r] = "done" /\ before'[r] = {}
    BY <1>1, <1>3, FinishDoes DEF RejectRequest, Continue, LocalsOK, Replies
  <2> QED
    BY <2>1 DEF LocalsOK, Running, Putting, Getting, Deleting
<1>4. ASSUME NEW p \in Paths, HandleGet(r, p)
      PROVE  LocalsOK(r)'
  <2>1. Arrive(r, "get", p, 0) /\ UNCHANGED buf /\ pc[r] = "idle"
    BY <1>4 DEF HandleGet, Arrive
  <2>2. \/ Finish(r, "InternalError") \/ Finish(r, "NotFound")
        \/ UNCHANGED reply /\ \E step \in {"ReadDir", "OpenRead"} : Goto(r, step)
    BY <1>4 DEF HandleGet
  <2> QED
    BY <1>1, <1>2, <2>1, <2>2, ArriveKeepsLocals DEF Replies, Steps, Putting, Getting, Deleting
<1>5. ASSUME NEW p \in Paths, NEW n \in Sizes, HandlePut(r, p, n)
      PROVE  LocalsOK(r)'
  <2>1. Arrive(r, "put", p, n) /\ UNCHANGED buf /\ pc[r] = "idle"
    BY <1>5 DEF HandlePut, Arrive
  <2>2. \/ Finish(r, "InternalError")
        \/ UNCHANGED reply /\ Goto(r, "Open")
    BY <1>5 DEF HandlePut
  <2> QED
    BY <1>1, <1>2, <2>1, <2>2, ArriveKeepsLocals DEF Replies, Steps, Putting, Getting, Deleting
<1>6. ASSUME NEW p \in Paths, HandleDelete(r, p)
      PROVE  LocalsOK(r)'
  <2>1. Arrive(r, "delete", p, 0) /\ UNCHANGED buf /\ pc[r] = "idle"
    BY <1>6 DEF HandleDelete, Arrive
  <2>2. \/ Finish(r, "InternalError") \/ Finish(r, "NotFound")
        \/ UNCHANGED reply /\ Goto(r, "Remove")
    BY <1>6 DEF HandleDelete
  <2> QED
    BY <1>1, <1>2, <2>1, <2>2, ArriveKeepsLocals DEF Replies, Steps, Putting, Getting, Deleting
<1>7. CASE PutOpen(r)
  <2> DEFINE p == req[r].path
             inode == IF IsFile(p) THEN node[p] ELSE r
  <2>1. /\ pc[r] = "Open" /\ UNCHANGED <<req, before, buf>> /\ p \in Paths
        /\ Is(r, "put") /\ reply[r] \in {NULL, "ServiceUnavailable"}
    BY <1>1, <1>7 DEF PutOpen, Continue, LocalsOK, Is, Putting, Running, TypeOK, Request
  <2>2. inode \in Inodes /\ Is(inode, "put") /\ req[inode].path = p
    BY <2>1 DEF FileInv, TreeOK, IsFile, Inodes
  <2>3. CASE pc'[r] = "done"
    BY <1>1, <2>1, <2>3, GoesOnKeepsLocals DEF Running, Putting
  <2>4. CASE fd' = [fd EXCEPT ![r] = inode] /\ Goto(r, "Write") /\ UNCHANGED reply
    <3>1. fd'[r] = inode /\ pc'[r] = "Write" /\ reply'[r] = reply[r]
      BY <1>1, <2>4, GotoDoes DEF TypeOK, Steps
    <3> HIDE DEF inode
    <3> QED
      BY <1>1, <2>1, <2>2, <3>1, GoesOnKeepsLocals DEF Running, Putting, Getting, Deleting
  <2> QED
    BY <1>1, <1>7, <2>3, <2>4, FinishDoes DEF PutOpen, Replies
<1>8. CASE PutWrite(r)
  <2>1. /\ pc[r] = "Write" /\ UNCHANGED <<req, before, buf>>
        /\ reply[r] \in {NULL, "ServiceUnavailable"}
        /\ pc'[r] = "done" \/ (pc'[r] = "PutStat" /\ UNCHANGED reply)
    BY <1>1, <1>8, FinishDoes, GotoDoes
    DEF PutWrite, Continue, LocalsOK, Running, Putting, Replies, Steps
  <2> QED
    BY <1>1, <2>1, GoesOnKeepsLocals DEF Running, Putting, Getting, Deleting
<1>9. CASE PutStat(r) \/ ReadDir(r)
  <2>1. /\ pc[r] \in {"PutStat", "ReadDir"} /\ UNCHANGED <<req, before, buf>> /\ pc'[r] = "done"
    BY <1>1, <1>9, FinishDoes DEF PutStat, ReadDir, Continue, locals, Replies
  <2> QED
    BY <1>1, <2>1, GoesOnKeepsLocals DEF Running, Putting, Getting, Deleting
<1>10. CASE ReadOpen(r)
  <2>1. /\ pc[r] = "OpenRead" /\ UNCHANGED <<req, before, buf>> /\ req[r].path \in Paths
        /\ reply[r] \in {NULL, "ServiceUnavailable"}
    BY <1>1, <1>10
    DEF ReadOpen, Continue, LocalsOK, Running, Getting, Is, TypeOK, Request
  <2>2. CASE pc'[r] = "done"
    BY <1>1, <2>1, <2>2, GoesOnKeepsLocals DEF Running, Getting
  <2>3. CASE /\ IsFile(req[r].path) /\ fd' = [fd EXCEPT ![r] = node[req[r].path]]
             /\ Goto(r, "Read") /\ UNCHANGED reply
    <3>1. fd'[r] = node[req[r].path] /\ pc'[r] = "Read" /\ reply'[r] = reply[r]
      BY <1>1, <2>3, GotoDoes DEF TypeOK, Steps
    <3>2. fd'[r] \in Inodes /\ Is(fd'[r], "put") /\ req[fd'[r]].path = req[r].path
      BY <2>1, <2>3, <3>1 DEF FileInv, TreeOK, IsFile
    <3> QED
      BY <1>1, <2>1, <3>1, <3>2, GoesOnKeepsLocals DEF Running, Putting, Getting, Deleting
  <2> QED
    BY <1>1, <1>10, <2>2, <2>3, FinishDoes DEF ReadOpen, Replies
<1>11. CASE Read(r)
  <2>1. /\ pc[r] = "Read" /\ UNCHANGED <<req, before>> /\ reply[r] \in {NULL, "ServiceUnavailable"}
        /\ fd[r] \in Inodes /\ Is(fd[r], "put") /\ req[fd[r]].path = req[r].path
        /\ pc'[r] = "done" \/ UNCHANGED <<pc, reply, fd>>
    BY <1>1, <1>11, FinishDoes DEF Read, Continue, LocalsOK, Running, Getting, Replies
  <2> QED
    BY <1>1, <2>1, GoesOnKeepsLocals DEF Running, Putting, Getting, Deleting
<1>12. CASE Remove(r) \/ Empty(r) \/ Rmdir(r)
  <2>1. /\ pc[r] \in Deleting /\ UNCHANGED <<req, before, buf>>
        /\ reply[r] \in {NULL, "ServiceUnavailable"}
        /\ pc'[r] = "done" \/ (pc'[r] \in Deleting /\ UNCHANGED reply)
    BY <1>1, <1>12, FinishDoes, GotoDoes
    DEF Remove, Empty, Rmdir, Continue, locals, LocalsOK, Running, Deleting, Replies, Steps
  <2> QED
    BY <1>1, <2>1, GoesOnKeepsLocals DEF Running, Putting, Getting, Deleting
<1>13. CASE Timeout(r)
  <2>1. /\ pc[r] \in Running /\ UNCHANGED <<req, before, buf, pc, fd>>
        /\ reply'[r] \in {NULL, "ServiceUnavailable"}
    BY <1>1, <1>13
    DEF Timeout, Answer, Continue, locals, TypeOK, Steps, Running, Putting, Getting, Deleting
  <2> QED
    BY <1>1, <2>1 DEF LocalsOK, Is, Alone, Running, Putting, Getting, Deleting
<1> QED
  BY <1>3, <1>4, <1>5, <1>6, <1>7, <1>8, <1>9, <1>10, <1>11, <1>12, <1>13 DEF Step

-----------------------------------------------------------------------------
\* What a step of r does to the tree: nothing, a directory on the way to r's
\* file, r's new file, or something less that r deletes.
Made(r, p) ==
  /\ node[p] = "none" /\ node'[p] = "dir"
  /\ pc[r] = "idle" /\ Is(r, "put")' /\ p \in Ancestors[req'[r].path]

Opened(r, p) ==
  /\ node[p] = "none" /\ node'[p] = r
  /\ pc[r] = "Open" /\ req[r].path = p

Removed(r, p) ==
  /\ node'[p] = "none" /\ ~Populated(p)
  /\ pc[r] \in Deleting /\ (req[r].path = p \/ req[r].path \in Ancestors[p])

Moves(r) ==
  \A p \in Paths :
    \/ node'[p] = node[p]
    \/ (Made(r, p) \/ Opened(r, p)) /\ \A a \in Ancestors[p] : node'[a] = "dir"
    \/ Removed(r, p)

\* And to the contents: what r has opened is empty then, or r writes to it.
Writes(r) ==
  \A i \in Inodes :
    \/ data'[i] = data[i]
    \/ pc[r] = "Open" /\ pc'[r] = "Write" /\ fd'[r] = i /\ node'[req[r].path] = i
    \/ pc[r] = "Write" /\ fd[r] = i

LEMMA NoOwnAncestor ==
  ASSUME NEW p \in Paths
  PROVE  /\ p \notin Ancestors[p] /\ Ancestors[p] \subseteq Paths
         /\ \A a \in Ancestors[p] : Ancestors[a] \subseteq Ancestors[p]
BY FileAssumption

LEMMA HandlePutMoves ==
  ASSUME FileInv, NEW r \in Requests, NEW p \in Paths, NEW n \in Sizes, HandlePut(r, p, n)
  PROVE  Moves(r)
<1>1. TypeOK /\ n \in 0..MaxSize
  BY FileAssumption DEF FileInv
<1>2. pc[r] = "idle" /\ Is(r, "put")' /\ req'[r].path = p
  <2>1. Arrive(r, "put", p, n)
    BY DEF HandlePut
  <2>2. pc[r] = "idle" /\ req'[r] = [op |-> "put", path |-> p, size |-> n] /\ req'[r] \in Request
    BY <1>1, <2>1, ArrivalDoes
  <2> QED
    BY <2>2, NullAssumption DEF Is
<1>3. CASE UNCHANGED node
  BY <1>3 DEF Moves
<1>4. CASE /\ \A a \in Ancestors[p] : ~IsFile(a)
           /\ node' = [q \in Paths |-> IF q \in Ancestors[p] THEN "dir" ELSE node[q]]
  <2>1. \A a \in Ancestors[p] : a \in Paths /\ node[a] \in {"none", "dir"} /\ node'[a] = "dir"
    BY <1>1, <1>4, NoOwnAncestor DEF IsFile, TypeOK
  <2>2. \A q \in Paths : q \notin Ancestors[p] => node'[q] = node[q]
    BY <1>4
  <2>3. \A q \in Ancestors[p] : \A a \in Ancestors[q] : node'[a] = "dir"
    BY <2>1, NoOwnAncestor
  <2> QED
    BY <1>2, <2>1, <2>2, <2>3 DEF Moves, Made
<1> QED
  BY <1>3, <1>4 DEF HandlePut, Blocked

LEMMA PutOpenMoves ==
  ASSUME FileInv, NEW r \in Requests, PutOpen(r)
  PROVE  Moves(r) /\ Writes(r)
<1> DEFINE p == req[r].path
           inode == IF IsFile(p) THEN node[p] ELSE r
<1>1. TypeOK /\ pc[r] = "Open" /\ p \in Paths /\ inode \in Inodes
  BY DEF FileInv, PutOpen, LocalsOK, Is, Putting, TypeOK, Request, IsFile, Inodes
<1>2. CASE UNCHANGED fileVars
  BY <1>2 DEF Moves, Writes, fileVars
<1>3. CASE /\ ~IsDir(p) /\ \A a \in Ancestors[p] : IsDir(a)
           /\ node' = [node EXCEPT ![p] = inode]
           /\ data' = [data EXCEPT ![inode] = <<>>]
           /\ fd' = [fd EXCEPT ![r] = inode]
           /\ Goto(r, "Write")
  <2>1. \A q \in Paths \ {p} : node'[q] = node[q]
    BY <1>1, <1>3 DEF TypeOK
  <2>2. node'[p] = node[p] \/ (node[p] = "none" /\ node'[p] = r)
    BY <1>1, <1>3 DEF TypeOK, IsFile, IsDir
  <2>3. \A a \in Ancestors[p] : node'[a] = "dir"
    BY <1>1, <1>3, <2>1, NoOwnAncestor DEF IsDir
  <2>4. Moves(r)
    BY <1>1, <2>1, <2>2, <2>3 DEF Moves, Opened
  <2>5. node'[p] = inode /\ fd'[r] = inode /\ pc'[r] = "Write"
        /\ \A i \in Inodes : i # inode => data'[i] = data[i]
    BY <1>1, <1>3, GotoDoes DEF TypeOK, Steps
  <2> QED
    BY <1>1, <2>4, <2>5 DEF Writes
<1> QED
  BY <1>2, <1>3 DEF PutOpen

LEMMA DeleteMoves ==
  ASSUME FileInv, NEW r \in Requests, Remove(r) \/ Empty(r) \/ Rmdir(r)
  PROVE  Moves(r)
<1>1. TypeOK /\ pc[r] \in Deleting /\ req[r].path \in Paths
  BY DEF FileInv, Remove, Empty, Rmdir, LocalsOK, Is, Deleting, TypeOK, Request
<1>2. ASSUME NEW p \in Paths, p = req[r].path \/ req[r].path \in Ancestors[p],
             ~Populated(p), Unlink(p)
      PROVE  Moves(r)
  BY <1>1, <1>2 DEF Unlink, Moves, Removed, TypeOK
<1>3. CASE UNCHANGED node
  BY <1>3 DEF Moves
<1> QED
  BY <1>1, <1>2, <1>3 DEF Remove, Empty, Rmdir, Below

LEMMA StepMoves ==
  ASSUME FileInv, NEW r \in Requests, Step(r)
  PROVE  Moves(r) /\ Writes(r)
<1>1. UNCHANGED node => Moves(r)
  BY DEF Moves
<1>2. UNCHANGED data => Writes(r)
  BY DEF Writes
<1>3. CASE PutWrite(r)
  <2>1. TypeOK /\ pc[r] = "Write" /\ UNCHANGED node
        /\ \E c : data' = [data EXCEPT ![fd[r]] = c]
    BY <1>3 DEF FileInv, PutWrite
  <2> QED
    BY <1>1, <2>1 DEF Writes, TypeOK
<1>4. CASE \E p \in Paths, n \in Sizes : HandlePut(r, p, n)
  BY <1>2, <1>4, HandlePutMoves DEF HandlePut
<1>5. CASE Remove(r) \/ Empty(r) \/ Rmdir(r)
  BY <1>2, <1>5, DeleteMoves DEF Remove, Empty, Rmdir
<1>6. CASE \/ RejectRequest(r) \/ PutStat(r) \/ ReadDir(r) \/ ReadOpen(r) \/ Read(r) \/ Timeout(r)
           \/ \E p \in Paths : HandleGet(r, p) \/ HandleDelete(r, p)
  BY <1>1, <1>2, <1>6
  DEF RejectRequest, PutStat, ReadDir, ReadOpen, Read, Timeout, HandleGet, HandleDelete, fileVars
<1> QED
  BY <1>3, <1>4, <1>5, <1>6, PutOpenMoves DEF Step

LEMMA StepKeepsTree ==
  ASSUME FileInv, NEW r \in Requests, Step(r), NEW p \in Paths
  PROVE  TreeOK(p)'
<1>1. Alone(r) /\ Moves(r) /\ TypeOK /\ TypeOK' /\ LocalsOK(r) /\ LocalsOK(r)' /\ TreeOK(p)
  BY StepIsAlone, StepMoves, StepKeepsLocals DEF FileInv
<1>2. \A q \in Requests : req[q] # NULL => req'[q] = req[q]
  BY <1>1, AskedStays
<1>3. "none" \notin Inodes /\ "dir" \notin Inodes
  BY FileAssumption DEF Inodes
<1>4. IsFile(p)' => Is(node[p], "put")' /\ req'[node'[p]].path = p
  <2>1. CASE node'[p] = node[p]
    BY <1>1, <1>2, <2>1 DEF TreeOK, IsFile, Is, Inodes
  <2>2. CASE Opened(r, p)
    <3>1. Is(r, "put") /\ req'[r] = req[r] /\ node'[p] = r /\ req[r].path = p
      BY <1>1, <1>2, <2>2 DEF Opened, LocalsOK, Putting, Is
    <3> QED
      BY <3>1 DEF Is
  <2>3. CASE Made(r, p) \/ Removed(r, p)
    BY <1>3, <2>3 DEF Made, Removed, IsFile
  <2> QED
    BY <1>1, <2>1, <2>2, <2>3 DEF Moves
<1>5. IsDir(p)' => \E q \in Requests : Is(q, "put")' /\ p \in Ancestors[req'[q].path]
  <2>1. CASE node'[p] = node[p]
    BY <1>1, <1>2, <2>1 DEF TreeOK, IsDir, Is
  <2>2. CASE Opened(r, p) \/ Removed(r, p)
    BY <1>3, <2>2 DEF Opened, Removed, IsDir, Inodes
  <2>3. CASE Made(r, p)
    BY <2>3 DEF Made
  <2> QED
    BY <1>1, <2>1, <2>2, <2>3 DEF Moves
<1>6. ASSUME Exists(p)', NEW a \in Ancestors[p]
      PROVE  IsDir(a)'
  <2>1. a \in Paths /\ p \in Below(a)
    BY NoOwnAncestor DEF Below
  <2>2. CASE node'[p] = node[p]
    <3>1. node[a] = "dir" /\ Exists(p)
      BY <1>1, <1>6, <2>2 DEF TreeOK, Exists, IsDir
    <3>2. ~Removed(r, a)
      BY <2>1, <3>1 DEF Removed, Populated
    <3>3. node'[a] = node[a]
      BY <1>1, <2>1, <3>1, <3>2 DEF Moves, Made, Opened
    <3> QED
      BY <3>1, <3>3 DEF IsDir
  <2>3. CASE \A x \in Ancestors[p] : node'[x] = "dir"
    BY <2>3 DEF IsDir
  <2>4. CASE Removed(r, p)
    BY <1>6, <2>4 DEF Removed, Exists
  <2> QED
    BY <1>1, <2>2, <2>3, <2>4 DEF Moves
<1> QED
  BY <1>4, <1>5, <1>6 DEF TreeOK

-----------------------------------------------------------------------------
LEMMA FileInit == Init => FileInv
<1> SUFFICES ASSUME Init PROVE FileInv
  OBVIOUS
<1>1. TypeOK
  BY EmptyContent, FileAssumption DEF Init, TypeOK, Steps
<1>2. \A r \in Requests : LocalsOK(r)
  BY DEF Init, LocalsOK, Running, Putting, Getting, Deleting
<1>3. \A p \in Paths : TreeOK(p)
  BY FileAssumption DEF Init, TreeOK, IsFile, IsDir, Exists, Inodes
<1> QED
  BY <1>1, <1>2, <1>3 DEF FileInv

LEMMA CrashDoes ==
  ASSUME FileInv, Crash
  PROVE  /\ TypeOK'
         /\ UNCHANGED <<node, data, fd, size, buf, req, before>>
         /\ faults < MaxFaults /\ faults' = faults + 1
         /\ \A q \in Requests :
              \/ pc'[q] = pc[q] /\ reply'[q] = reply[q]
              \/ /\ pc[q] \in Running /\ pc'[q] = "done"
                 /\ reply'[q] \in {"Lost", "ServiceUnavailable"}
BY FileAssumption
DEF FileInv, TypeOK, Crash, Fault, Continue, fileVars, locals, LocalsOK, Running, Putting,
    Getting, Deleting, Steps, Replies

LEMMA FileStep == FileInv /\ [Next]_vars => FileInv'
<1> SUFFICES ASSUME FileInv, [Next]_vars PROVE FileInv'
  OBVIOUS
<1>1. ASSUME NEW r \in Requests, Step(r)
      PROVE  FileInv'
  <2>1. \A q \in Requests : LocalsOK(q)'
    BY <1>1, StepIsAlone, OthersKeepLocals, StepKeepsLocals
  <2> QED
    BY <1>1, <2>1, StepIsAlone, StepKeepsTree DEF FileInv
<1>2. CASE Crash
  <2>1. \A q \in Requests : LocalsOK(q)'
    BY <1>2, CrashDoes DEF FileInv, TypeOK, LocalsOK, Is, Running, Putting, Getting, Deleting
  <2>2. \A p \in Paths : TreeOK(p)'
    BY <1>2, CrashDoes DEF FileInv, TreeOK, IsFile, IsDir, Exists, Is
  <2> QED
    BY <1>2, <2>1, <2>2, CrashDoes DEF FileInv
<1>3. CASE UNCHANGED vars
  <2>1. TypeOK'
    BY <1>3 DEF FileInv, TypeOK, vars
  <2>2. \A q \in Requests : LocalsOK(q)'
    BY <1>3 DEF FileInv, LocalsOK, Is, vars
  <2>3. \A p \in Paths : TreeOK(p)'
    BY <1>3 DEF FileInv, TreeOK, IsFile, IsDir, Exists, Is, vars
  <2> QED
    BY <2>1, <2>2, <2>3 DEF FileInv
<1> QED
  BY <1>1, <1>2, <1>3, NextIs DEF Terminated

LEMMA FileInvariance == Spec => []FileInv
BY FileInit, FileStep, PTL DEF Spec

\* Every variable of the file handlers keeps its type; contents stay within
\* the bound, and only inodes are written to and read (HandlePut, HandleGet,
\* HandleDelete and the filesystem below them).
THEOREM FileTypeCorrect == Spec => []TypeOK
BY FileInvariance, PTL DEF FileInv

-----------------------------------------------------------------------------
(***************************************************************************)
(* What reads see.                                                         *)
(***************************************************************************)

\* Whoever alters what is at path p, other than w, was over when w arrived.
Undisturbed(w, p) == \A q \in Requests \ {w} : Alters(q, p) => q \in before[w]

\* What w has done to its file, as long as nobody has disturbed it.
WriteOK(w) ==
  Is(w, "put") /\ Undisturbed(w, req[w].path) =>
    /\ pc[w] = "Write" => node[req[w].path] = fd[w] /\ data[fd[w]] = <<>>
    /\ pc[w] = "PutStat" \/ reply[w] = "Created" =>
         IsFile(req[w].path) /\ data[node[req[w].path]] = Written(w)

\* No file that was there when d arrived stands on the way to p.
Clear(d, p) == \A a \in Ancestors[p] : node[a] \notin before[d]

\* What d has deleted, as long as nobody has made it again.
DeleteOK(d) ==
  Is(d, "delete") =>
    /\ pc[d] \in Deleting => Clear(d, req[d].path)
    /\ reply[d] = "OK" =>
         \A p \in Paths :
           req[d].path = p \/ req[d].path \in Ancestors[p] =>
             Clear(d, p) /\ (Undisturbed(d, p) => ~Exists(p))

\* A read that follows a write: how far it is, it has seen what was written.
SeesWrite(w, g) ==
  /\ Is(w, "put") /\ Is(g, "get") /\ reply[w] = "Created" /\ req[w].path = req[g].path
  /\ NothingBetween(w, g)
  => /\ pc[g] # "ReadDir"
     /\ pc[g] \in {"OpenRead", "Read"} => size[g] = req[w].size
     /\ pc[g] = "Read" => fd[g] = node[req[g].path] /\ buf[g] \in {<<>>, Written(w)}
     /\ pc[g] = "done" /\ reply[g] \in {"OK", "NotFound", "InternalError"} =>
          reply[g] = "OK" /\ buf[g] = Written(w) /\ size[g] = req[w].size

\* A file that was made since d arrived is in the way of what g reads.
InTheWay(d, g) ==
  \E q \in Requests : Blocks(q, req[g].path) /\ q \notin before[d] /\ g \notin before[q]

SeesDelete(d, g) ==
  /\ Is(d, "delete") /\ Is(g, "get") /\ reply[d] = "OK"
  /\ req[d].path = req[g].path \/ req[d].path \in Ancestors[req[g].path]
  /\ NothingBetween(d, g)
  => /\ pc[g] = "done"
     /\ reply[g] = "NotFound" \/ (reply[g] = "InternalError" /\ InTheWay(d, g))

ReadInv ==
  \A r \in Requests :
    WriteOK(r) /\ DeleteOK(r) /\ \A g \in Requests : SeesWrite(r, g) /\ SeesDelete(r, g)

\* The steps of each kind of request.
LEMMA StepsOfKind ==
  ASSUME FileInv, NEW r \in Requests, Step(r)
  PROVE  /\ Is(r, "put")' =>
              \/ \E p \in Paths, n \in Sizes : HandlePut(r, p, n)
              \/ PutOpen(r) \/ PutWrite(r) \/ PutStat(r) \/ Timeout(r)
         /\ Is(r, "get")' =>
              \/ \E p \in Paths : HandleGet(r, p)
              \/ ReadDir(r) \/ ReadOpen(r) \/ Read(r) \/ Timeout(r)
         /\ Is(r, "delete")' =>
              \/ \E p \in Paths : HandleDelete(r, p)
              \/ Remove(r) \/ Empty(r) \/ Rmdir(r) \/ Timeout(r)
<1>1. TypeOK /\ LocalsOK(r) /\ 0 \in 0..MaxSize /\ Sizes \subseteq 0..MaxSize
  BY FileAssumption DEF FileInv
<1>2. \A op \in {"put", "get", "delete"}, p \in Paths, n \in 0..MaxSize :
        Arrive(r, op, p, n) => \A x : Is(r, x)' => x = op
  <2> SUFFICES ASSUME NEW op \in {"put", "get", "delete"}, NEW p \in Paths, NEW n \in 0..MaxSize,
                      Arrive(r, op, p, n)
               PROVE  req'[r].op = op
    BY DEF Is
  <2>1. req'[r] = [op |-> op, path |-> p, size |-> n]
    BY <1>1, ArrivalDoes
  <2> QED
    BY <2>1
<1>3. \A p \in Paths : HandleGet(r, p) => \A x : Is(r, x)' => x = "get"
  BY <1>1, <1>2 DEF HandleGet
<1>4. \A p \in Paths : HandleDelete(r, p) => \A x : Is(r, x)' => x = "delete"
  BY <1>1, <1>2 DEF HandleDelete
<1>5. \A p \in Paths, n \in Sizes : HandlePut(r, p, n) => \A x : Is(r, x)' => x = "put"
  BY <1>1, <1>2 DEF HandlePut
<1>6. RejectRequest(r) => \A x : ~Is(r, x)'
  BY <1>1 DEF RejectRequest, Continue, LocalsOK, Is
<1>7. PutOpen(r) \/ PutWrite(r) \/ PutStat(r) => \A x : Is(r, x)' => x = "put"
  BY <1>1 DEF PutOpen, PutWrite, PutStat, Continue, LocalsOK, Is, Putting
<1>8. ReadDir(r) \/ ReadOpen(r) \/ Read(r) => \A x : Is(r, x)' => x = "get"
  BY <1>1 DEF ReadDir, ReadOpen, Read, Continue, LocalsOK, Is, Getting
<1>9. Remove(r) \/ Empty(r) \/ Rmdir(r) => \A x : Is(r, x)' => x = "delete"
  BY <1>1 DEF Remove, Empty, Rmdir, Continue, LocalsOK, Is, Deleting
<1> QED
  BY <1>3, <1>4, <1>5, <1>6, <1>7, <1>8, <1>9 DEF Step

\* Who alters something alters it from then on.
LEMMA AltersStays ==
  ASSUME FileInv, NEW r \in Requests, Alone(r), NEW q \in Requests, NEW p, Alters(q, p)
  PROVE  Alters(q, p)' /\ before'[q] = before[q] /\ req'[q] = req[q]
BY AskedStays DEF Alters

LEMMA MovesAlter ==
  ASSUME FileInv, NEW r \in Requests, Step(r), NEW p \in Paths,
         \/ node'[p] # node[p]
         \/ IsFile(p) /\ data'[node[p]] # data[node[p]]
  PROVE  Alters(r, p)'
<1>1. /\ Alone(r) /\ Moves(r) /\ Writes(r) /\ LocalsOK(r) /\ LocalsOK(r)' /\ TreeOK(p)
      /\ \A x \in Paths : TreeOK(x)'
  BY StepIsAlone, StepMoves, StepKeepsLocals, StepKeepsTree DEF FileInv
<1>2. pc[r] \in Running => req'[r] = req[r] /\ req[r].path \in Paths /\ req[r] # NULL
  BY <1>1 DEF Alone, LocalsOK, Is, FileInv, TypeOK, Request, Running, Putting, Getting, Deleting
<1>3. CASE node'[p] # node[p]
  <2>1. CASE Made(r, p)
    BY <2>1 DEF Made, Alters, Is
  <2>2. CASE Opened(r, p)
    BY <1>1, <1>2, <2>2 DEF Opened, Alters, LocalsOK, Is, Running, Putting
  <2>3. CASE Removed(r, p)
    BY <1>1, <1>2, <2>3 DEF Removed, Alters, LocalsOK, Is, Running, Deleting
  <2> QED
    BY <1>1, <1>3, <2>1, <2>2, <2>3 DEF Moves
<1>4. CASE IsFile(p) /\ data'[node[p]] # data[node[p]]
  <2>1. /\ node[p] \in Inodes /\ Is(node[p], "put") /\ req[node[p]].path = p
        /\ req'[node[p]] = req[node[p]]
    BY <1>1, <1>4, AskedStays DEF TreeOK, IsFile, Is, Inodes
  <2>2. pc[r] \in {"Open", "Write"} /\ Is(r, "put")
    BY <1>1, <1>4, <2>1 DEF Writes, LocalsOK, Putting
  <2>3. CASE pc[r] = "Open" /\ node'[req[r].path] = node[p]
    <3>1. req[r].path \in Paths
      BY <1>2, <2>3 DEF Running, Putting
    <3>2. req'[node[p]].path = req[r].path
      BY <1>1, <2>1, <2>3, <3>1 DEF TreeOK, IsFile
    <3> QED
      BY <1>2, <2>1, <2>2, <3>2 DEF Alters, Is, Running, Putting
  <2>4. CASE pc[r] = "Write" /\ fd[r] = node[p]
    BY <1>1, <1>2, <2>1, <2>2, <2>4 DEF Alters, Is, LocalsOK, Running, Putting
  <2> QED
    BY <1>1, <1>4, <2>1, <2>3, <2>4 DEF Writes
<1> QED
  BY <1>3, <1>4

\* As long as nobody disturbs w, a step of another leaves its path alone.
LEMMA UndisturbedStays ==
  ASSUME FileInv, NEW r \in Requests, Step(r), NEW w \in Requests, req[w] # NULL,
         NEW p \in Paths, Undisturbed(w, p)'
  PROVE  /\ Undisturbed(w, p)
         /\ r # w => /\ node'[p] = node[p]
                     /\ IsFile(p) => data'[node[p]] = data[node[p]]
<1>1. Alone(r) /\ LocalsOK(w) /\ before'[w] = before[w]
  BY StepIsAlone, AskedStays DEF FileInv
<1>2. Undisturbed(w, p)
  BY <1>1, AltersStays DEF Undisturbed
<1>3. r # w => ~Alters(r, p)'
  BY <1>1 DEF Undisturbed, LocalsOK, Alone
<1> QED
  BY <1>2, <1>3, MovesAlter

\* A read that still runs and follows w alone: nobody has disturbed w.
LEMMA NothingBetweenYet ==
  ASSUME \A q \in Requests : LocalsOK(q), NEW w \in Requests, NEW g \in Requests,
         NothingBetween(w, g), pc[g] # "done"
  PROVE  Undisturbed(w, req[g].path)
BY DEF NothingBetween, Undisturbed, LocalsOK

LEMMA NothingBetweenBefore ==
  ASSUME FileInv, NEW r \in Requests, Alone(r), NEW w \in Requests, NEW g \in Requests,
         req[w] # NULL, req[g] # NULL, NothingBetween(w, g)'
  PROVE  NothingBetween(w, g)
<1>1. req'[g] = req[g] /\ before'[g] = before[g] /\ before'[w] = before[w]
  BY AskedStays
<1>2. \A q \in Requests \ {w} : Alters(q, req[g].path) => q \in before[w] \/ g \in before[q]
  BY <1>1, AltersStays DEF NothingBetween
<1> QED
  BY <1>1, <1>2 DEF NothingBetween

LEMMA PutKeepsWrite ==
  ASSUME FileInv, NEW w \in Requests, WriteOK(w), Step(w)
  PROVE  WriteOK(w)'
<1> SUFFICES ASSUME Is(w, "put")', NEW p, p = req'[w].path, Undisturbed(w, p)'
             PROVE  /\ pc'[w] = "Write" => node'[p] = fd'[w] /\ data'[fd'[w]] = <<>>
                    /\ pc'[w] = "PutStat" \/ reply'[w] = "Created" =>
                         node'[p] \in Inodes /\ data'[node'[p]] = Written(w)'
  BY DEF WriteOK, IsFile
<1>1. TypeOK /\ LocalsOK(w) /\ Alone(w) /\ NULL \notin Replies
  BY StepIsAlone, NullAssumption DEF FileInv
<1>2. CASE \E q \in Paths, n \in Sizes : HandlePut(w, q, n)
  <2>1. reply[w] = NULL
    BY <1>1, <1>2 DEF HandlePut, Arrive, LocalsOK
  <2>2. pc'[w] \in {"done", "Open"} /\ reply'[w] # "Created"
    BY <1>1, <1>2, <2>1, FinishDoes, GotoDoes DEF HandlePut, Replies, Steps
  <2> QED
    BY <2>2
<1>3. ASSUME PutOpen(w) \/ PutWrite(w) \/ PutStat(w) \/ Timeout(w)
      PROVE  /\ UNCHANGED req /\ req[w] # NULL /\ req[w] \in Request
             /\ p = req[w].path /\ p \in Paths
             /\ Is(w, "put") /\ reply[w] \in {NULL, "ServiceUnavailable"}
             /\ Undisturbed(w, p)
  <2>1. UNCHANGED <<req, before>> /\ req[w] # NULL
    BY <1>1, <1>3 DEF PutOpen, PutWrite, PutStat, Timeout, Continue, Is
  <2>2. pc[w] \in Running
    BY <1>1, <1>3
    DEF PutOpen, PutWrite, PutStat, Timeout, TypeOK, Steps, Running, Putting, Getting, Deleting
  <2>3. Is(w, "put") /\ reply[w] \in {NULL, "ServiceUnavailable"}
    BY <1>1, <2>1, <2>2 DEF LocalsOK, Is
  <2>4. req[w] \in Request /\ p = req[w].path /\ p \in Paths
    BY <1>1, <2>1 DEF TypeOK, Request
  <2> QED
    BY <2>1, <2>3, <2>4, UndisturbedStays
<1>4. CASE PutOpen(w)
  <2>1. CASE pc'[w] = "done" /\ reply'[w] # "Created"
    BY <2>1
  <2>2. CASE /\ node' = [node EXCEPT ![p] = IF IsFile(p) THEN node[p] ELSE w]
             /\ data' = [data EXCEPT ![IF IsFile(p) THEN node[p] ELSE w] = <<>>]
             /\ fd' = [fd EXCEPT ![w] = IF IsFile(p) THEN node[p] ELSE w]
             /\ Goto(w, "Write")
             /\ UNCHANGED reply
    <3> DEFINE inode == IF IsFile(p) THEN node[p] ELSE w
    <3>1. inode \in Inodes
      BY DEF IsFile, Inodes
    <3>2. p \in Paths
      BY <1>3, <1>4
    <3> HIDE DEF inode
    <3>3. node'[p] = inode /\ fd'[w] = inode /\ data'[inode] = <<>>
      BY <1>1, <2>2, <3>1, <3>2 DEF TypeOK, inode
    <3>4. pc'[w] = "Write" /\ reply'[w] # "Created"
      BY <1>1, <1>3, <1>4, <2>2, GotoDoes DEF Steps, Replies
    <3> QED
      BY <3>2, <3>3, <3>4
  <2>3. \/ Finish(w, "InternalError")
        \/ /\ node' = [node EXCEPT ![p] = IF IsFile(p) THEN node[p] ELSE w]
           /\ data' = [data EXCEPT ![IF IsFile(p) THEN node[p] ELSE w] = <<>>]
           /\ fd' = [fd EXCEPT ![w] = IF IsFile(p) THEN node[p] ELSE w]
           /\ Goto(w, "Write")
           /\ UNCHANGED reply
    BY <1>3, <1>4 DEF PutOpen
  <2>4. Finish(w, "InternalError") => pc'[w] = "done" /\ reply'[w] # "Created"
    BY <1>1, <1>3, <1>4, FinishDoes DEF Replies
  <2> QED
    BY <2>1, <2>2, <2>3, <2>4
<1>5. CASE PutWrite(w)
  <2>1. pc[w] = "Write" /\ UNCHANGED node /\ node[p] = fd[w] /\ data[fd[w]] = <<>> /\ fd[w] \in Inodes
    BY <1>1, <1>3, <1>5 DEF PutWrite, WriteOK, LocalsOK
  <2>2. CASE pc'[w] = "done" /\ reply'[w] # "Created"
    BY <2>2
  <2>3. CASE data' = [data EXCEPT ![fd[w]] = Overwritten(data[fd[w]], w, req[w].size)]
    <3>1. data'[fd[w]] = Overwritten(<<>>, w, req[w].size)
      BY <1>1, <2>1, <2>3 DEF TypeOK
    <3>2. req[w].size \in 0..MaxSize
      BY <1>3, <1>5 DEF Request
    <3>3. data'[node'[p]] = Written(w)'
      BY <1>3, <1>5, <2>1, <3>1, <3>2, WriteFromStart DEF Written
    <3>4. pc'[w] # "Write"
      BY <1>1, <1>5, FinishDoes, GotoDoes DEF PutWrite, Replies, Steps
    <3> QED
      BY <2>1, <3>3, <3>4
  <2>4. \/ Finish(w, "InternalError")
        \/ data' = [data EXCEPT ![fd[w]] = Overwritten(data[fd[w]], w, req[w].size)]
    BY <1>5 DEF PutWrite
  <2>5. Finish(w, "InternalError") => pc'[w] = "done" /\ reply'[w] # "Created"
    BY <1>1, <1>3, <1>5, FinishDoes DEF Replies
  <2> QED
    BY <2>2, <2>3, <2>4, <2>5
<1>6. CASE PutStat(w)
  <2>1. IsFile(p) /\ data[node[p]] = Written(w) /\ UNCHANGED <<node, data, req>>
    BY <1>1, <1>3, <1>6 DEF PutStat, WriteOK, fileVars, Continue
  <2>2. pc'[w] = "done"
    BY <1>1, <1>6, FinishDoes DEF PutStat, Replies
  <2> QED
    BY <1>3, <1>6, <2>1, <2>2 DEF IsFile, Written
<1>7. CASE Timeout(w)
  <2>1. UNCHANGED <<node, data, fd, pc, req>> /\ reply'[w] # "Created"
    BY <1>1, <1>7 DEF Timeout, Answer, fileVars, locals, Continue, TypeOK
  <2> QED
    BY <1>3, <1>7, <2>1 DEF WriteOK, IsFile, Written
<1> QED
  BY <1>2, <1>4, <1>5, <1>6, <1>7, StepsOfKind

LEMMA OthersKeepWrite ==
  ASSUME FileInv, NEW r \in Requests, Step(r), NEW w \in Requests \ {r}, WriteOK(w)
  PROVE  WriteOK(w)'
<1>1. /\ pc'[w] = pc[w] /\ req'[w] = req[w] /\ reply'[w] = reply[w] /\ fd'[w] = fd[w]
      /\ LocalsOK(w)
  BY StepIsAlone DEF Alone, FileInv
<1>2. ASSUME Is(w, "put"), NEW p, p = req[w].path, Undisturbed(w, p)'
      PROVE  /\ Undisturbed(w, p) /\ node'[p] = node[p]
             /\ IsFile(p) => data'[node[p]] = data[node[p]]
  <2>1. p \in Paths /\ req[w] # NULL
    BY <1>2 DEF Is, FileInv, TypeOK, Request
  <2> QED
    BY <1>2, <2>1, UndisturbedStays
<1>3. pc[w] = "Write" => fd[w] \in Inodes
  BY <1>1 DEF LocalsOK
<1> SUFFICES ASSUME Is(w, "put"), NEW p, p = req[w].path, Undisturbed(w, p)'
             PROVE  /\ pc[w] = "Write" => node'[p] = fd[w] /\ data'[fd[w]] = <<>>
                    /\ pc[w] = "PutStat" \/ reply[w] = "Created" =>
                         node'[p] \in Inodes /\ data'[node'[p]] = Written(w)
  BY <1>1 DEF WriteOK, Is, IsFile, Written
<1> QED
  BY <1>2, <1>3 DEF WriteOK, IsFile

\* A file that is made later was not there before.
LEMMA ClearStays ==
  ASSUME FileInv, NEW r \in Requests, Step(r), NEW d \in Requests, req[d] # NULL,
         NEW p \in Paths, Clear(d, p)
  PROVE  Clear(d, p)'
<1>1. Alone(r) /\ Moves(r) /\ LocalsOK(d) /\ before[d] \subseteq Requests /\ before'[d] = before[d]
  BY StepIsAlone, StepMoves, AskedStays DEF FileInv, TypeOK
<1>2. r \notin before[d] /\ "none" \notin before[d] /\ "dir" \notin before[d]
  BY <1>1, FileAssumption DEF LocalsOK, Alone
<1>3. ASSUME NEW a \in Ancestors[p]
      PROVE  node'[a] \notin before[d]
  BY <1>1, <1>2, <1>3, NoOwnAncestor DEF Clear, Moves, Made, Opened, Removed
<1> QED
  BY <1>1, <1>3 DEF Clear

LEMMA StepKeepsDelete ==
  ASSUME FileInv, FileInv', NEW r \in Requests, Step(r), NEW d \in Requests, DeleteOK(d)
  PROVE  DeleteOK(d)'
<1> SUFFICES ASSUME Is(d, "delete")'
             PROVE  /\ pc'[d] \in Deleting => Clear(d, req[d].path)'
                    /\ reply'[d] = "OK" =>
                         \A p \in Paths :
                           req'[d].path = p \/ req'[d].path \in Ancestors[p] =>
                             Clear(d, p)' /\ (Undisturbed(d, p)' => node'[p] = "none")
  BY DEF DeleteOK, Exists
<1>1. TypeOK /\ LocalsOK(d) /\ Alone(r) /\ NULL \notin Replies /\ before'[d] \subseteq Requests
  BY StepIsAlone, NullAssumption DEF FileInv, TypeOK
<1>2. CASE d # r
  <2>1. req'[d] = req[d] /\ reply'[d] = reply[d] /\ pc'[d] = pc[d] /\ Is(d, "delete")
    BY <1>1, <1>2 DEF Alone, Is
  <2>2. req[d] # NULL /\ req[d].path \in Paths
    BY <1>1, <2>1 DEF Is, TypeOK, Request
  <2>3. \A p \in Paths : Clear(d, p) => Clear(d, p)'
    BY <2>2, ClearStays
  <2>4. pc'[d] \in Deleting => Clear(d, req[d].path)'
    <3> DEFINE path == req[d].path
    <3>1. pc'[d] \in Deleting => Clear(d, path)'
      BY <2>1, <2>2, <2>3 DEF DeleteOK
    <3> QED
      BY <2>1, <3>1 DEF Clear
  <2>5. ASSUME reply'[d] = "OK", NEW p \in Paths, req'[d].path = p \/ req'[d].path \in Ancestors[p]
        PROVE  Clear(d, p)' /\ (Undisturbed(d, p)' => node'[p] = "none")
    BY <1>2, <2>1, <2>2, <2>3, <2>5, UndisturbedStays DEF DeleteOK, Exists
  <2> QED
    BY <2>4, <2>5
<1>3. CASE d = r
  <2>1. CASE \E q \in Paths : HandleDelete(d, q)
    <3>1. PICK q \in Paths : HandleDelete(d, q)
      BY <2>1
    <3>2. 0 \in 0..MaxSize /\ Arrive(d, "delete", q, 0) /\ UNCHANGED node
      BY <3>1, FileAssumption DEF HandleDelete, fileVars
    <3>3. req'[d] = [op |-> "delete", path |-> q, size |-> 0] /\ pc[d] = "idle"
      BY <1>1, <3>2, ArrivalDoes
    <3>4. req'[d].path = q /\ reply[d] = NULL
      BY <1>1, <3>3 DEF LocalsOK
    <3>5. reply'[d] # "OK"
      BY <1>1, <3>1, <3>4, FinishDoes DEF HandleDelete, Replies
    <3>6. pc'[d] \in Deleting => Exists(q)
      BY <1>1, <3>1, FinishDoes DEF HandleDelete, Replies, Deleting
    <3>7. Exists(q) => \A a \in Ancestors[q] : node'[a] = "dir"
      BY <3>2 DEF FileInv, TreeOK, IsDir
    <3>8. pc'[d] \in Deleting => \A a \in Ancestors[req'[d].path] : node'[a] \notin before'[d]
      BY <1>1, <3>4, <3>6, <3>7, FileAssumption
    <3> QED
      BY <3>5, <3>8 DEF Clear
  <2>2. ASSUME Remove(d) \/ Empty(d) \/ Rmdir(d) \/ Timeout(d)
        PROVE  /\ reply[d] \in {NULL, "ServiceUnavailable"} /\ req'[d] = req[d]
               /\ req[d].path \in Paths /\ \A a \in Ancestors[req[d].path] : node'[a] \notin before'[d]
    <3>1. /\ pc[d] \in Running /\ req'[d] = req[d] /\ Is(d, "delete")
          /\ reply[d] \in {NULL, "ServiceUnavailable"}
      BY <1>1, <2>2
      DEF Remove, Empty, Rmdir, Timeout, LocalsOK, Continue, TypeOK, Steps, Is,
          Running, Putting, Getting, Deleting
    <3>2. pc[d] \in Deleting
      BY <1>1, <3>1 DEF LocalsOK, Running, Is
    <3>3. req[d] # NULL /\ req[d].path \in Paths
      BY <1>1, <3>1 DEF Is, TypeOK, Request
    <3>4. ASSUME NEW p \in Paths, Clear(d, p)
          PROVE  Clear(d, p)'
      BY <1>3, <3>3, <3>4, ClearStays
    <3>5. PICK p \in Paths : p = req[d].path
      BY <3>3
    <3>6. Clear(d, p)
      BY <3>1, <3>2, <3>5 DEF DeleteOK
    <3>7. \A a \in Ancestors[p] : node'[a] \notin before'[d]
      BY <3>4, <3>6 DEF Clear
    <3> QED
      BY <3>1, <3>3, <3>5, <3>7
  <2>3. CASE Empty(d) \/ Timeout(d)
    <3>1. reply'[d] # "OK"
      BY <1>1, <2>2, <2>3 DEF Empty, Timeout, Answer, TypeOK, Replies
    <3> QED
      BY <2>2, <2>3, <3>1 DEF Clear
  <2>4. CASE Remove(d) \/ Rmdir(d)
    <3> SUFFICES ASSUME reply'[d] = "OK", NEW p \in Paths,
                        req'[d].path = p \/ req'[d].path \in Ancestors[p]
                 PROVE  (\A a \in Ancestors[p] : node'[a] \notin before'[d]) /\ node'[p] = "none"
      BY <2>2, <2>4 DEF Clear
    <3> DEFINE path == req[d].path
    <3>1. ~Populated(path) /\ Unlink(path) /\ path \in Paths /\ (path = p \/ path \in Ancestors[p])
      BY <1>1, <2>2, <2>4, FinishDoes DEF Remove, Rmdir, Replies
    <3>2. node'[path] = "none"
      BY <1>1, <3>1 DEF Unlink, TypeOK
    <3>3. \A a \in Paths : path \in Ancestors[a] => node[a] = "none"
      BY <3>1 DEF Populated, Below, Exists
    <3>4. \A a \in Paths : path # a => node'[a] = node[a]
      BY <1>1, <3>1 DEF Unlink, TypeOK
    <3>5. \A a \in Paths : path = a \/ path \in Ancestors[a] => node'[a] = "none"
      BY <3>2, <3>3, <3>4
    <3>6. "none" \notin before'[d] /\ \A a \in Ancestors[path] : node'[a] \notin before'[d]
      BY <1>1, <2>2, <2>4, FileAssumption
    <3>7. ASSUME NEW a \in Ancestors[p]
          PROVE  a \in Paths /\ (path = a \/ path \in Ancestors[a] \/ a \in Ancestors[path])
      <4> HIDE DEF path
      <4> QED
        BY <3>1, FileAssumption
    <3> QED
      BY <3>1, <3>5, <3>6, <3>7
  <2> QED
    BY <1>3, <2>1, <2>3, <2>4, StepsOfKind
<1> QED
  BY <1>2, <1>3

\* Who is in the way stays so.
LEMMA InTheWayStays ==
  ASSUME FileInv, NEW r \in Requests, Alone(r), NEW d \in Requests, NEW g \in Requests,
         req[d] # NULL, req[g] # NULL, InTheWay(d, g)
  PROVE  InTheWay(d, g)'
<1>1. PICK q \in Requests : Blocks(q, req[g].path) /\ q \notin before[d] /\ g \notin before[q]
  BY DEF InTheWay
<1>2. /\ req'[q] = req[q] /\ before'[q] = before[q]
      /\ before'[d] = before[d] /\ req'[g] = req[g]
  BY <1>1, AskedStays DEF Blocks
<1> QED
  BY <1>1, <1>2 DEF InTheWay, Blocks

\* A step of neither the write nor the read.
LEMMA OthersKeepSight ==
  ASSUME FileInv, FileInv', NEW r \in Requests, Step(r),
         NEW w \in Requests \ {r}, NEW g \in Requests \ {r}
  PROVE  (SeesWrite(w, g) => SeesWrite(w, g)') /\ (SeesDelete(w, g) => SeesDelete(w, g)')
<1>1. /\ Alone(r) /\ LocalsOK(g)
      /\ pc'[w] = pc[w] /\ req'[w] = req[w] /\ reply'[w] = reply[w]
      /\ pc'[g] = pc[g] /\ req'[g] = req[g] /\ reply'[g] = reply[g]
      /\ fd'[g] = fd[g] /\ size'[g] = size[g] /\ buf'[g] = buf[g]
  BY StepIsAlone DEF Alone, FileInv
<1>2. ASSUME req[w] # NULL, req[g] # NULL, NothingBetween(w, g)'
      PROVE  NothingBetween(w, g)
  BY <1>1, <1>2, NothingBetweenBefore
<1>3. ASSUME req[w] # NULL, req[g] # NULL, NothingBetween(w, g)', pc[g] = "Read"
      PROVE  node'[req[g].path] = node[req[g].path]
  <2>1. \A q \in Requests : LocalsOK(q)'
    BY DEF FileInv
  <2>2. NothingBetween(w, g)' /\ pc'[g] # "done" /\ req'[g] = req[g]
    BY <1>1, <1>3
  <2>3. \A p : p = req'[g].path => Undisturbed(w, p)'
    BY <2>1, <2>2 DEF NothingBetween, Undisturbed, LocalsOK
  <2>4. req[g].path \in Paths
    BY <1>3 DEF FileInv, TypeOK, Request
  <2> QED
    BY <1>1, <1>3, <2>3, <2>4, UndisturbedStays
<1>4. SeesWrite(w, g) => SeesWrite(w, g)'
  BY <1>1, <1>2, <1>3 DEF SeesWrite, Is, Written
<1>5. SeesDelete(w, g) => SeesDelete(w, g)'
  BY <1>1, <1>2, InTheWayStays DEF SeesDelete, Is
<1> QED
  BY <1>4, <1>5

\* What was over before a read is over.
LEMMA WriterIsOver ==
  ASSUME FileInv, NEW r \in Requests, Step(r), NEW g \in Requests, NEW w \in Requests,
         NothingBetween(w, g)', req'[g] # NULL
  PROVE  w # r \/ w = g
<1>1. Alone(r) /\ LocalsOK(g) /\ LocalsOK(g)'
  BY StepIsAlone, StepKeepsLocals, OthersKeepLocals DEF FileInv
<1>2. w \in before'[g]
  BY DEF NothingBetween
<1>3. g # r => w # r
  BY <1>1, <1>2 DEF Alone, LocalsOK
<1> QED
  BY <1>3

LEMMA OwnWritten ==
  ASSUME TypeOK, NEW w \in Requests, Is(w, "put")
  PROVE  /\ req[w].size \in 0..MaxSize
         /\ Written(w) \in Content /\ Len(Written(w)) = req[w].size
<1>1. req[w].size \in 0..MaxSize
  BY DEF TypeOK, Is, Request
<1> QED
  BY <1>1, WriteFromStart DEF Written

LEMMA NothingIsEmpty ==
  ASSUME NEW c \in Content, Len(c) <= Len(<<>>)
  PROVE  c = <<>>
<1>1. c \in Seq(Requests) /\ Len(c) \in Nat /\ Len(<<>>) = 0
  BY ContentIs, FileAssumption, EmptySeq
<1> QED
  BY <1>1, EmptySeq

\* The read that arrives finds the path as the write or delete left it.
LEMMA FoundUndisturbed ==
  ASSUME FileInv, NEW g \in Requests, NEW p \in Paths, HandleGet(g, p),
         NEW w \in Requests \ {g}, NothingBetween(w, g)'
  PROVE  /\ Undisturbed(w, p) /\ pc[w] = "done" /\ req[w] # NULL
         /\ req'[g].path = p /\ pc[g] = "idle" /\ reply[g] = NULL /\ req'[w] = req[w]
<1>1. TypeOK /\ LocalsOK(g) /\ 0 \in 0..MaxSize /\ Arrive(g, "get", p, 0)
  BY FileAssumption DEF FileInv, HandleGet
<1>2. /\ pc[g] = "idle" /\ req'[g] = [op |-> "get", path |-> p, size |-> 0]
      /\ before'[g] = {q \in Requests : pc[q] = "done" /\ req[q] # NULL}
      /\ \A q \in Requests \ {g} : req'[q] = req[q] /\ before'[q] = before[q]
  BY <1>1, ArrivalDoes
<1>3. req'[g].path = p /\ req[g] = NULL /\ reply[g] = NULL
  BY <1>1, <1>2 DEF LocalsOK
<1>4. \A q \in Requests : g \notin before[q]
  BY <1>2 DEF FileInv, LocalsOK
<1>5. ASSUME NEW q \in Requests \ {w}, Alters(q, p)
      PROVE  q \in before[w]
  <2>1. q # g
    BY <1>3, <1>5 DEF Alters
  <2>2. Alters(q, p)'
    BY <1>2, <1>5, <2>1 DEF Alters
  <2> QED
    BY <1>2, <1>3, <1>4, <2>1, <2>2 DEF NothingBetween
<1> QED
  BY <1>2, <1>3, <1>5 DEF NothingBetween, Undisturbed

LEMMA GetSeesDelete ==
  ASSUME FileInv, NEW g \in Requests, Step(g), NEW d \in Requests, DeleteOK(d), SeesDelete(d, g)
  PROVE  SeesDelete(d, g)'
<1> SUFFICES ASSUME Is(d, "delete")', Is(g, "get")', reply'[d] = "OK",
                    req'[d].path = req'[g].path \/ req'[d].path \in Ancestors[req'[g].path],
                    NothingBetween(d, g)'
             PROVE  /\ pc'[g] = "done"
                    /\ reply'[g] = "NotFound" \/ (reply'[g] = "InternalError" /\ InTheWay(d, g)')
  BY DEF SeesDelete
<1>1. TypeOK /\ LocalsOK(g) /\ Alone(g) /\ d # g /\ NULL \notin Replies
  BY StepIsAlone, NullAssumption DEF FileInv, Is
<1>2. reply'[d] = reply[d] /\ req'[d] = req[d]
  BY <1>1 DEF Alone
<1>3. CASE \E p \in Paths : HandleGet(g, p)
  <2>1. PICK p \in Paths : HandleGet(g, p)
    BY <1>3
  <2>2. /\ Undisturbed(d, p) /\ req'[g].path = p /\ reply[g] = NULL /\ pc[g] = "idle"
        /\ req[d] # NULL
    BY <1>1, <2>1, FoundUndisturbed
  <2>3. ~Exists(p) /\ Clear(d, p)
    BY <1>2, <2>2 DEF DeleteOK, Is
  <2>4. CASE ~Blocked(p)
    <3>1. Finish(g, "NotFound")
      BY <2>1, <2>3, <2>4, FileAssumption DEF HandleGet, Exists, IsDir, IsFile, Inodes
    <3> QED
      BY <1>1, <2>2, <3>1, FinishDoes DEF Replies
  <2>5. CASE Blocked(p)
    <3>1. Finish(g, "InternalError")
      BY <2>1, <2>3, <2>5, FileAssumption DEF HandleGet, Exists, IsDir, IsFile, Inodes
    <3>2. PICK a \in Ancestors[p] : IsFile(a)
      BY <2>5 DEF Blocked
    <3>3. PICK q \in Requests : q = node[a] /\ Is(q, "put") /\ req[q].path = a
      BY <3>2, NoOwnAncestor DEF FileInv, TreeOK, IsFile, Inodes
    <3>4. q \notin before[d] /\ g \notin before[q]
      BY <2>2, <2>3, <3>3 DEF Clear, FileInv, LocalsOK
    <3>5. req'[q] = req[q] /\ before'[q] = before[q] /\ before'[d] = before[d]
      BY <1>1, <2>2, <3>3, AskedStays DEF Is
    <3>6. InTheWay(d, g)'
      BY <2>2, <3>2, <3>3, <3>4, <3>5 DEF InTheWay, Blocks, Is
    <3> QED
      BY <1>1, <2>2, <3>1, <3>6, FinishDoes DEF Replies
  <2> QED
    BY <2>4, <2>5
<1>4. CASE ReadDir(g) \/ ReadOpen(g) \/ Read(g) \/ Timeout(g)
  <2>1. pc[g] \notin {"idle", "done"} /\ req'[g] = req[g]
    BY <1>1, <1>4 DEF ReadDir, ReadOpen, Read, Timeout, Continue, Alone
  <2>2. req[d] # NULL /\ req[g] # NULL
    BY <1>2, <2>1 DEF Is
  <2>3. NothingBetween(d, g)
    BY <1>1, <2>2, NothingBetweenBefore
  <2> QED
    BY <1>2, <2>1, <2>3 DEF SeesDelete, Is
<1> QED
  BY <1>3, <1>4, StepsOfKind

LEMMA GetSeesWrite ==
  ASSUME FileInv, NEW g \in Requests, Step(g), NEW w \in Requests, WriteOK(w), SeesWrite(w, g)
  PROVE  SeesWrite(w, g)'
<1> SUFFICES ASSUME Is(w, "put")', Is(g, "get")', reply'[w] = "Created",
                    NEW p, p = req'[g].path, req'[w].path = p, NothingBetween(w, g)'
             PROVE  /\ pc'[g] # "ReadDir"
                    /\ pc'[g] \in {"OpenRead", "Read"} => size'[g] = req'[w].size
                    /\ pc'[g] = "Read" => fd'[g] = node'[p] /\ buf'[g] \in {<<>>, Written(w)'}
                    /\ pc'[g] = "done" /\ reply'[g] \in {"OK", "NotFound", "InternalError"} =>
                         reply'[g] = "OK" /\ buf'[g] = Written(w)' /\ size'[g] = req'[w].size
  BY DEF SeesWrite
<1>1. TypeOK /\ LocalsOK(g) /\ Alone(g) /\ w # g /\ NULL \notin Replies
  BY StepIsAlone, NullAssumption DEF FileInv, Is
<1>2. reply'[w] = reply[w] /\ req'[w] = req[w] /\ Is(w, "put") /\ Written(w)' = Written(w)
  BY <1>1 DEF Alone, Is, Written
<1>3. Undisturbed(w, p) => node[p] \in Inodes /\ data[node[p]] = Written(w)
  BY <1>2 DEF WriteOK, IsFile
<1>4. req[w].size \in 0..MaxSize /\ Written(w) \in Content /\ Len(Written(w)) = req[w].size
  BY <1>1, <1>2, OwnWritten
<1>5. CASE \E q \in Paths : HandleGet(g, q)
  <2>1. p \in Paths /\ HandleGet(g, p)
    <3>1. PICK q \in Paths : HandleGet(g, q)
      BY <1>5
    <3>2. req'[g].path = q
      BY <1>1, <3>1, FoundUndisturbed
    <3> QED
      BY <3>1, <3>2
  <2>2. Undisturbed(w, p)
    BY <1>1, <2>1, FoundUndisturbed
  <2>3. size' = [size EXCEPT ![g] = Len(data[node[p]])] /\ Goto(g, "OpenRead")
    <3>1. ~Blocked(p)
      BY <1>3, <2>1, <2>2, FileAssumption
      DEF Blocked, FileInv, TreeOK, Exists, IsDir, IsFile, Inodes
    <3> QED
      BY <1>3, <2>1, <2>2, <3>1, FileAssumption DEF HandleGet, Exists, IsDir, IsFile, Inodes
  <2> QED
    BY <1>1, <1>2, <1>3, <1>4, <2>2, <2>3, GotoDoes DEF TypeOK, Steps
<1>6. ASSUME ReadDir(g) \/ ReadOpen(g) \/ Read(g) \/ Timeout(g)
      PROVE  /\ req'[g] = req[g] /\ Is(g, "get") /\ p = req[g].path /\ p \in Paths
             /\ NothingBetween(w, g) /\ Undisturbed(w, p)
             /\ reply[g] \in {NULL, "ServiceUnavailable"} /\ pc[g] # "ReadDir"
             /\ pc[g] \in {"OpenRead", "Read"} => size[g] = req[w].size
             /\ pc[g] = "Read" => fd[g] = node[p] /\ buf[g] \in {<<>>, Written(w)}
  <2>1. pc[g] \in Running /\ req'[g] = req[g]
    BY <1>1, <1>6
    DEF ReadDir, ReadOpen, Read, Timeout, Continue, TypeOK, Steps, Running, Putting, Getting, Deleting
  <2>2. /\ Is(g, "get") /\ p = req[g].path /\ p \in Paths
        /\ reply[g] \in {NULL, "ServiceUnavailable"} /\ pc[g] # "done"
    BY <1>1, <2>1 DEF LocalsOK, Is, TypeOK, Request, Running, Putting, Getting, Deleting
  <2>3. NothingBetween(w, g)
    BY <1>1, <1>2, <2>2, NothingBetweenBefore DEF Is
  <2>4. Undisturbed(w, p)
    BY <2>2, <2>3, NothingBetweenYet DEF FileInv
  <2> QED
    BY <1>2, <2>1, <2>2, <2>3, <2>4 DEF SeesWrite
<1>7. CASE ReadDir(g)
  BY <1>6, <1>7 DEF ReadDir
<1>8. CASE ReadOpen(g)
  <2>1. /\ pc[g] = "OpenRead" /\ node[p] \in Inodes /\ size[g] = req[w].size
        /\ UNCHANGED <<node, size, buf>> /\ buf[g] = <<>>
    BY <1>1, <1>3, <1>6, <1>8 DEF ReadOpen, fileVars, LocalsOK
  <2>2. fd' = [fd EXCEPT ![g] = node[p]] /\ Goto(g, "Read")
    BY <1>6, <1>8, <2>1 DEF ReadOpen, IsFile
  <2> QED
    BY <1>1, <1>2, <2>1, <2>2, GotoDoes DEF TypeOK, Steps
<1>9. CASE Read(g)
  <2>1. /\ pc[g] = "Read" /\ data[fd[g]] = Written(w) /\ size[g] = req[w].size
        /\ UNCHANGED <<node, size>> /\ fd[g] = node[p] /\ buf[g] \in {<<>>, Written(w)}
    BY <1>3, <1>6, <1>9 DEF Read, fileVars
  <2>2. CASE /\ Len(Written(w)) > Len(buf[g])
             /\ buf' = [buf EXCEPT ![g] = @ \o SubSeq(Written(w), Len(@) + 1, Len(Written(w)))]
             /\ UNCHANGED <<pc, reply, fd>>
    <3>1. buf[g] = <<>>
      BY <1>4, <2>1, <2>2
    <3>2. buf'[g] = Written(w)
      BY <1>1, <1>4, <2>2, <3>1, ReadFromStart DEF TypeOK
    <3> QED
      BY <1>2, <2>1, <2>2, <3>2
  <2>3. CASE /\ Len(Written(w)) <= Len(buf[g])
             /\ Finish(g, "OK") /\ UNCHANGED buf
    <3>1. buf[g] = Written(w)
      BY <1>4, <2>1, <2>3, NothingIsEmpty
    <3>2. pc'[g] = "done" /\ reply'[g] \in {"OK", "ServiceUnavailable"}
      BY <1>1, <1>6, <1>9, <2>3, FinishDoes DEF Replies
    <3> QED
      BY <1>2, <2>1, <2>3, <3>1, <3>2
  <2> QED
    BY <1>9, <2>1, <2>2, <2>3 DEF Read
<1>10. CASE Timeout(g)
  <2>1. UNCHANGED <<node, pc, fd, size, buf>> /\ pc[g] # "done"
    BY <1>10 DEF Timeout, fileVars, locals
  <2> QED
    BY <1>2, <1>6, <1>10, <2>1
<1> QED
  BY <1>5, <1>7, <1>8, <1>9, <1>10, StepsOfKind

LEMMA ReadInit == Init => ReadInv
BY DEF Init, ReadInv, WriteOK, DeleteOK, SeesWrite, SeesDelete, Is

LEMMA CrashKeepsReads ==
  ASSUME FileInv, ReadInv, Crash
  PROVE  ReadInv'
<1>1. /\ UNCHANGED <<node, data, fd, size, buf, req, before>>
      /\ \A q \in Requests :
           \/ pc'[q] = pc[q] /\ reply'[q] = reply[q]
           \/ /\ pc[q] \in Running /\ pc'[q] = "done"
              /\ reply'[q] \in {"Lost", "ServiceUnavailable"}
  BY CrashDoes
<1>2. ASSUME NEW r \in Requests, NEW p
      PROVE  Undisturbed(r, p)' => Undisturbed(r, p)
  BY <1>1 DEF Undisturbed, Alters
<1>3. ASSUME NEW r \in Requests, NEW g \in Requests
      PROVE  NothingBetween(r, g)' => NothingBetween(r, g)
  BY <1>1 DEF NothingBetween, Alters
<1> SUFFICES ASSUME NEW r \in Requests
             PROVE  WriteOK(r)' /\ DeleteOK(r)'
                    /\ \A g \in Requests : SeesWrite(r, g)' /\ SeesDelete(r, g)'
  BY DEF ReadInv
<1>4. WriteOK(r) /\ DeleteOK(r) /\ \A g \in Requests : SeesWrite(r, g) /\ SeesDelete(r, g)
  BY DEF ReadInv
<1>5. WriteOK(r)'
  <2>1. Undisturbed(r, req[r].path)' => Undisturbed(r, req[r].path)
    BY <1>1 DEF Undisturbed, Alters
  <2> QED
    BY <1>1, <1>4, <2>1 DEF WriteOK, Is, IsFile, Written
<1>6. DeleteOK(r)'
  <2>1. \A p : Clear(r, p)' <=> Clear(r, p)
    BY <1>1 DEF Clear
  <2>2. /\ pc'[r] \in Deleting => pc'[r] = pc[r] /\ req'[r] = req[r]
        /\ reply'[r] = "OK" => reply[r] = "OK" /\ req'[r] = req[r]
        /\ Is(r, "delete")' <=> Is(r, "delete")
    BY <1>1 DEF Is, Deleting
  <2>3. pc'[r] \in Deleting /\ Is(r, "delete") => Clear(r, req[r].path)'
    BY <1>1, <1>4, <2>2 DEF DeleteOK, Clear
  <2> QED
    BY <1>1, <1>2, <1>4, <2>1, <2>2, <2>3 DEF DeleteOK, Exists
<1>7. ASSUME NEW g \in Requests
      PROVE  SeesWrite(r, g)' /\ SeesDelete(r, g)'
  <2>1. \A op, x : Is(x, op)' <=> Is(x, op)
    BY <1>1 DEF Is
  <2>2. Written(r)' = Written(r)
    BY <1>1 DEF Written
  <2>3. /\ reply'[r] \in {"Created", "OK"} => reply'[r] = reply[r]
        /\ pc'[g] \in {"ReadDir", "OpenRead", "Read"} => pc'[g] = pc[g]
        /\ reply'[g] \in {"OK", "NotFound", "InternalError"} => pc'[g] = pc[g] /\ reply'[g] = reply[g]
        /\ pc[g] = "done" => pc'[g] = pc[g] /\ reply'[g] = reply[g]
    BY <1>1 DEF Running, Putting, Getting, Deleting
  <2>4. SeesWrite(r, g)'
    BY <1>1, <1>3, <1>4, <2>1, <2>2, <2>3 DEF SeesWrite
  <2>5. SeesDelete(r, g)'
    <3>1. InTheWay(r, g)' <=> InTheWay(r, g)
      BY <1>1 DEF InTheWay, Blocks
    <3> QED
      BY <1>1, <1>3, <1>4, <2>1, <2>3, <3>1 DEF SeesDelete
  <2> QED
    BY <2>4, <2>5
<1> QED
  BY <1>5, <1>6, <1>7

LEMMA ReadStep == FileInv /\ FileInv' /\ ReadInv /\ [Next]_vars => ReadInv'
<1> SUFFICES ASSUME FileInv, FileInv', ReadInv, [Next]_vars PROVE ReadInv'
  OBVIOUS
<1>1. ASSUME NEW r \in Requests, Step(r)
      PROVE  ReadInv'
  <2>1. ASSUME NEW w \in Requests
        PROVE  WriteOK(w)' /\ DeleteOK(w)'
    BY <1>1, PutKeepsWrite, OthersKeepWrite, StepKeepsDelete DEF ReadInv
  <2>2. ASSUME NEW w \in Requests, NEW g \in Requests
        PROVE  SeesWrite(w, g)' /\ SeesDelete(w, g)'
    <3>1. WriteOK(w) /\ DeleteOK(w) /\ SeesWrite(w, g) /\ SeesDelete(w, g)
      BY DEF ReadInv
    <3>2. CASE g = r
      BY <1>1, <3>1, <3>2, GetSeesWrite, GetSeesDelete
    <3>3. CASE g # r /\ w # r
      BY <1>1, <3>1, <3>3, OthersKeepSight
    <3>4. CASE g # r /\ w = r
      BY <1>1, <3>4, WriterIsOver DEF SeesWrite, SeesDelete, Is
    <3> QED
      BY <3>2, <3>3, <3>4
  <2> QED
    BY <2>1, <2>2 DEF ReadInv
<1>2. CASE UNCHANGED vars
  BY <1>2 DEF vars, ReadInv, WriteOK, DeleteOK, SeesWrite, SeesDelete, Is, Undisturbed, Alters,
              NothingBetween, Written, IsFile, Exists, Clear, InTheWay, Blocks
<1> QED
  BY <1>1, <1>2, CrashKeepsReads, NextIs DEF Terminated

LEMMA ReadInvariance == Spec => [](FileInv /\ ReadInv)
BY FileInit, FileStep, ReadInit, ReadStep, PTL DEF Spec

\* A file that was written with 201 reads back whole, under its own size, when
\* nothing else touches its path between the two, whatever was there before and
\* whatever fails (HandlePut's truncation, HandleGet's Stat and ReadFile).
THEOREM WritesAreRead == Spec => []ReadYourWrite
<1>1. FileInv /\ ReadInv => ReadYourWrite
  <2> SUFFICES ASSUME FileInv, ReadInv, NEW w \in Done("put"), NEW g \in Answered,
                      reply[w] = "Created", req[w].path = req[g].path, NothingBetween(w, g)
               PROVE  reply[g] = "OK" /\ buf[g] = Written(w) /\ size[g] = Len(buf[g])
    BY DEF ReadYourWrite
  <2>1. w \in Requests /\ g \in Requests /\ Is(w, "put") /\ Is(g, "get") /\ pc[g] = "done"
        /\ reply[g] \in {"OK", "NotFound", "InternalError"}
    BY DEF Done, Answered, Is
  <2>2. SeesWrite(w, g)
    BY <2>1 DEF ReadInv
  <2>3. Len(Written(w)) = req[w].size
    BY <2>1, OwnWritten DEF FileInv
  <2> QED
    BY <2>1, <2>2, <2>3 DEF SeesWrite
<1> QED
  BY <1>1, ReadInvariance, PTL

\* A file or directory that was deleted with 200 is gone with all that was in
\* it, when nobody makes it again, whatever handlers before had left half done:
\* a read is told so, unless a file that was made since is in the way of the
\* path (HandleDelete's RemoveAll, HandleGet's Stat).
THEOREM DeletesAreRead == Spec => []ReadYourDelete
<1>1. ReadInv => ReadYourDelete
  BY DEF ReadInv, SeesDelete, InTheWay, ReadYourDelete, Done, Answered, Is
<1> QED
  BY <1>1, ReadInvariance, PTL

-----------------------------------------------------------------------------
(***************************************************************************)
(* Why requests fail.                                                      *)
(***************************************************************************)
Disturbed(r) == \E q \in Requests : Disturbs(q, r)

\* Unless another disturbs it, a request finds what it has found or made
\* before, and fails through a fault only.
CauseOK(r) ==
  req[r] # NULL =>
    \/ Disturbed(r)
    \/ /\ pc[r] = "Open" => \A a \in Ancestors[req[r].path] : IsDir(a)
       /\ pc[r] \in {"Write", "PutStat"} => Exists(req[r].path)
       /\ pc[r] = "ReadDir" => IsDir(req[r].path)
       /\ pc[r] = "OpenRead" => IsFile(req[r].path)
       /\ pc[r] \in {"Empty", "Rmdir"} => ~IsFile(req[r].path)
       /\ pc[r] = "Rmdir" => ~Populated(req[r].path)
       /\ reply[r] = "InternalError" => faults > 0

CauseInv == \A r \in Requests : CauseOK(r)

LEMMA DisturbsStays ==
  ASSUME FileInv, NEW r \in Requests, Alone(r), NEW x \in Requests, NEW q \in Requests,
         req[x] # NULL, Disturbs(q, x)
  PROVE  Disturbs(q, x)'
<1>1. /\ req[q] # NULL /\ req'[q] = req[q] /\ before'[q] = before[q]
      /\ req'[x] = req[x] /\ before'[x] = before[x]
  BY AskedStays DEF Disturbs
<1> QED
  BY <1>1 DEF Disturbs, OnOnePath, Overlap, Blocks

\* Two requests that are under way overlap.
LEMMA RunningOverlap ==
  ASSUME FileInv, FileInv', NEW r \in Requests, Alone(r), NEW x \in Requests \ {r}, pc[x] \in Running,
         Is(r, "delete")' \/ (Is(r, "put")' /\ Is(x, "delete")), OnOnePath(r, x)'
  PROVE  Disturbs(r, x)'
<1>1. pc'[x] # "done" /\ req'[x] = req[x] /\ before'[x] = before[x]
  BY DEF Alone, Running, Putting, Getting, Deleting
<1>2. x \notin before'[r]
  BY <1>1 DEF FileInv, LocalsOK
<1>3. r \notin before'[x]
  BY <1>1 DEF FileInv, LocalsOK, Alone
<1>4. Overlap(r, x)'
  BY <1>2, <1>3 DEF Overlap
<1> QED
  BY <1>1, <1>2, <1>4 DEF Disturbs, Is

LEMMA FaultsGrow ==
  ASSUME FileInv, NEW r \in Requests, Step(r)
  PROVE  faults \in Nat /\ (faults' = faults \/ faults' = faults + 1)
<1>1. faults \in Nat /\ TypeOK /\ 0 \in 0..MaxSize /\ Sizes \subseteq 0..MaxSize
  BY FileAssumption DEF FileInv, TypeOK
<1>2. \A op \in {"put", "get", "delete"}, p \in Paths, n \in 0..MaxSize :
        Arrive(r, op, p, n) => faults' = faults
  BY DEF Arrive
<1> QED
  BY <1>1, <1>2
  DEF Step, RejectRequest, HandleGet, HandlePut, HandleDelete, PutOpen, PutWrite, PutStat, ReadDir,
      ReadOpen, Read, Remove, Empty, Rmdir, Timeout, Fault

\* A step of r takes from x what it has found only if r disturbs x.
LEMMA OthersKeepCause ==
  ASSUME FileInv, FileInv', NEW r \in Requests, Step(r), NEW x \in Requests \ {r}, CauseOK(x)
  PROVE  CauseOK(x)'
<1>1. /\ Alone(r) /\ Moves(r) /\ LocalsOK(r) /\ LocalsOK(x) /\ LocalsOK(r)' /\ TypeOK
      /\ pc'[x] = pc[x] /\ req'[x] = req[x] /\ reply'[x] = reply[x]
  BY StepIsAlone, StepMoves DEF Alone, FileInv
<1> SUFFICES ASSUME req[x] # NULL, ~Disturbed(x)'
             PROVE  /\ pc[x] = "Open" => \A a \in Ancestors[req[x].path] : IsDir(a)'
                    /\ pc[x] \in {"Write", "PutStat"} => node'[req[x].path] # "none"
                    /\ pc[x] = "ReadDir" => node'[req[x].path] = "dir"
                    /\ pc[x] = "OpenRead" => node'[req[x].path] \in Inodes
                    /\ pc[x] \in {"Empty", "Rmdir"} => node'[req[x].path] \notin Inodes
                    /\ pc[x] = "Rmdir" => \A y \in Below(req[x].path) : node'[y] = "none"
                    /\ reply[x] = "InternalError" => faults' > 0
  BY <1>1 DEF CauseOK, IsDir, IsFile, Exists, Populated, Below
<1> DEFINE p == req[x].path
<1>2. p \in Paths
  BY <1>1 DEF TypeOK, Request
<1>3. ~Disturbed(x)
  BY <1>1, DisturbsStays DEF Disturbed
<1>4. /\ pc[x] = "Open" => \A a \in Ancestors[p] : IsDir(a)
      /\ pc[x] \in {"Write", "PutStat"} => Exists(p)
      /\ pc[x] = "ReadDir" => IsDir(p)
      /\ pc[x] = "OpenRead" => IsFile(p)
      /\ pc[x] \in {"Empty", "Rmdir"} => ~IsFile(p)
      /\ pc[x] = "Rmdir" => ~Populated(p)
      /\ reply[x] = "InternalError" => faults > 0
  BY <1>3 DEF CauseOK
<1>5. ASSUME NEW a \in Paths, a = p \/ a \in Ancestors[p], pc[x] \in Running
      PROVE  ~Removed(r, a)
  <2> SUFFICES ASSUME Removed(r, a) PROVE FALSE
    OBVIOUS
  <2>1. Is(r, "delete")' /\ req'[r] = req[r]
    BY <1>1 DEF Removed, LocalsOK, Deleting, Is, Alone
  <2>2. req[r].path = p \/ req[r].path \in Ancestors[p]
    BY <1>2, <1>5, NoOwnAncestor DEF Removed
  <2>3. OnOnePath(r, x)'
    BY <1>1, <2>1, <2>2 DEF OnOnePath
  <2> QED
    BY <1>1, <1>5, <2>1, <2>3, RunningOverlap DEF Disturbed
<1>6. ASSUME NEW y \in Paths, y = p \/ p \in Ancestors[y], pc[x] \in Deleting
      PROVE  ~Opened(r, y) /\ ~(p \in Ancestors[y] /\ Made(r, y))
  <2>1. Is(x, "delete") /\ pc[x] \in Running
    BY <1>1, <1>6 DEF LocalsOK, Running
  <2>2. ASSUME Is(r, "put")', req'[r].path = y \/ (y \in Ancestors[req'[r].path] /\ y # p)
        PROVE  FALSE
    <3>1. req'[r].path \in Paths
      BY <2>2 DEF FileInv, TypeOK, Is, Request
    <3>2. req'[r].path = p \/ p \in Ancestors[req'[r].path]
      BY <1>6, <2>2, <3>1, NoOwnAncestor
    <3>3. OnOnePath(r, x)'
      BY <1>1, <3>2 DEF OnOnePath
    <3> QED
      BY <1>1, <2>1, <2>2, <3>3, RunningOverlap DEF Disturbed
  <2>3. ~Opened(r, y)
    BY <1>1, <2>2 DEF Opened, LocalsOK, Putting, Is, Alone
  <2>4. ~(p \in Ancestors[y] /\ Made(r, y))
    BY <1>2, <2>2, NoOwnAncestor DEF Made
  <2> QED
    BY <2>3, <2>4
<1>7. "none" \notin Inodes /\ "dir" \notin Inodes
  BY FileAssumption DEF Inodes
<1>8. pc[x] = "Open" => \A a \in Ancestors[p] : IsDir(a)'
  BY <1>1, <1>2, <1>4, <1>5, NoOwnAncestor DEF Moves, Made, Opened, IsDir, Running, Putting
<1>9. /\ pc[x] \in {"Write", "PutStat"} => node'[p] # "none"
      /\ pc[x] = "ReadDir" => node'[p] = "dir"
      /\ pc[x] = "OpenRead" => node'[p] \in Inodes
  BY <1>1, <1>2, <1>4, <1>5, <1>7
  DEF Moves, Made, Opened, IsDir, IsFile, Exists, Running, Putting, Getting, Inodes
<1>10. pc[x] \in {"Empty", "Rmdir"} => node'[p] \notin Inodes
  BY <1>1, <1>2, <1>4, <1>6, <1>7 DEF Moves, Made, Removed, IsFile, Deleting
<1>11. pc[x] = "Rmdir" => \A y \in Below(p) : node'[y] = "none"
  BY <1>1, <1>2, <1>4, <1>6 DEF Moves, Removed, Populated, Below, Exists, Deleting
<1>12. reply[x] = "InternalError" => faults' > 0
  BY <1>4, FaultsGrow
<1> QED
  BY <1>8, <1>9, <1>10, <1>11, <1>12

\* What is in the way of a request was made by a PUT no later than it.
LEMMA BlockedIsDisturbed ==
  ASSUME FileInv, NEW r \in Requests, Alone(r), NEW p \in Paths, Blocked(p), req'[r].path = p
  PROVE  Disturbed(r)'
<1>1. PICK a \in Ancestors[p] : IsFile(a)
  BY DEF Blocked
<1>2. PICK q \in Requests : Is(q, "put") /\ req[q].path = a
  BY <1>1, NoOwnAncestor DEF FileInv, TreeOK, IsFile, Inodes
<1>3. r \notin before[q]
  BY DEF FileInv, LocalsOK, Alone
<1>4. req'[q] = req[q] /\ before'[q] = before[q]
  BY <1>2, AskedStays DEF Is
<1>5. Disturbs(q, r)'
  BY <1>2, <1>3, <1>4 DEF Disturbs, Blocks, OnOnePath, Is
<1> QED
  BY <1>5 DEF Disturbed

LEMMA DirectoryInTheWay ==
  ASSUME FileInv, NEW p \in Paths, IsDir(p)
  PROVE  \E q \in Requests : Is(q, "put") /\ p \in Ancestors[req[q].path] /\ req[q].path # p
BY NoOwnAncestor DEF FileInv, TreeOK

LEMMA PutKeepsCause ==
  ASSUME FileInv, FileInv', NEW r \in Requests, Step(r), CauseOK(r), Is(r, "put")'
  PROVE  CauseOK(r)'
<1>1. /\ TypeOK /\ TypeOK' /\ LocalsOK(r) /\ Alone(r) /\ NULL \notin Replies
      /\ faults \in Nat /\ (faults' = faults \/ faults' = faults + 1)
  BY StepIsAlone, FaultsGrow, NullAssumption DEF FileInv
<1>2. CASE \E p \in Paths, n \in Sizes : HandlePut(r, p, n)
  <2>1. PICK p \in Paths, n \in Sizes : HandlePut(r, p, n)
    BY <1>2
  <2>2. n \in 0..MaxSize /\ Arrive(r, "put", p, n)
    BY <2>1, FileAssumption DEF HandlePut
  <2>3. /\ pc[r] = "idle" /\ req[r] = NULL /\ reply[r] = NULL /\ req'[r].path = p
        /\ \A q \in Requests \ {r} : req'[q] = req[q]
    <3>1. /\ pc[r] = "idle" /\ req'[r] = [op |-> "put", path |-> p, size |-> n]
          /\ \A q \in Requests \ {r} : req'[q] = req[q]
      BY <1>1, <2>2, ArrivalDoes
    <3> QED
      BY <1>1, <3>1 DEF LocalsOK
  <2>4. CASE /\ \A a \in Ancestors[p] : ~IsFile(a)
             /\ node' = [q \in Paths |-> IF q \in Ancestors[p] THEN "dir" ELSE node[q]]
             /\ Goto(r, "Open") /\ UNCHANGED reply
    <3>1. \A a \in Ancestors[p] : IsDir(a)'
      BY <2>4, NoOwnAncestor DEF IsDir
    <3>2. pc'[r] = "Open" /\ reply'[r] # "InternalError"
      BY <1>1, <2>3, <2>4, GotoDoes DEF Steps, Replies
    <3> QED
      BY <2>3, <3>1, <3>2 DEF CauseOK
  <2>5. CASE Blocked(p)
    BY <1>1, <2>3, <2>5, BlockedIsDisturbed DEF CauseOK
  <2> QED
    BY <2>1, <2>4, <2>5 DEF HandlePut, Blocked
<1>3. ASSUME pc[r] # "idle"
      PROVE  /\ req'[r] = req[r] /\ req[r] # NULL /\ req[r].path \in Paths /\ Is(r, "put")
             /\ reply[r] \in {NULL, "ServiceUnavailable"}
             /\ Disturbed(r) => Disturbed(r)'
  <2>1. req'[r] = req[r] /\ req[r] # NULL
    BY <1>1, <1>3 DEF Alone, Is
  <2>2. req[r].path \in Paths
    BY <1>1, <2>1 DEF TypeOK, Request
  <2>3. pc[r] \in Running
    BY <1>1, <1>3 DEF Alone, TypeOK, Steps, Running, Putting, Getting, Deleting
  <2>4. Disturbed(r) => Disturbed(r)'
    BY <1>1, <2>1, DisturbsStays DEF Disturbed
  <2> QED
    BY <1>1, <2>1, <2>2, <2>3, <2>4 DEF LocalsOK, Is
<1> DEFINE p == req[r].path
<1>4. CASE pc[r] # "idle" /\ Disturbed(r)
  BY <1>3, <1>4 DEF CauseOK
<1>5. CASE PutOpen(r) /\ ~Disturbed(r)
  <2>1. pc[r] = "Open" /\ \A a \in Ancestors[p] : IsDir(a)
    BY <1>3, <1>5 DEF PutOpen, CauseOK
  <2>2. CASE IsDir(p)
    <3>1. PICK q \in Requests : Is(q, "put") /\ p \in Ancestors[req[q].path] /\ req[q].path # p
      BY <1>3, <2>1, <2>2, DirectoryInTheWay
    <3>2. r \notin before[q]
      BY <2>1 DEF FileInv, LocalsOK
    <3>3. Disturbs(q, r)
      BY <1>3, <2>1, <3>1, <3>2 DEF Disturbs, Blocks, OnOnePath, Is
    <3> QED
      BY <1>5, <3>3 DEF Disturbed
  <2>3. CASE ~IsDir(p)
    <3>1. /\ node' = [node EXCEPT ![p] = IF IsFile(p) THEN node[p] ELSE r]
          /\ Goto(r, "Write") /\ UNCHANGED reply
      BY <1>5, <2>1, <2>3 DEF PutOpen
    <3>2. node'[p] \in Inodes
      BY <1>1, <1>3, <2>1, <3>1 DEF TypeOK, IsFile, Inodes
    <3>3. pc'[r] = "Write" /\ reply'[r] # "InternalError"
      BY <1>1, <1>3, <2>1, <3>1, GotoDoes DEF Steps, Replies
    <3> QED
      BY <1>3, <2>1, <3>2, <3>3, FileAssumption DEF CauseOK, Exists, Inodes
  <2> QED
    BY <2>2, <2>3
<1>6. CASE PutWrite(r) /\ ~Disturbed(r)
  <2>1. pc[r] = "Write" /\ Exists(p) /\ node' = node
    BY <1>3, <1>6 DEF PutWrite, CauseOK
  <2>2. CASE Goto(r, "PutStat") /\ UNCHANGED <<reply, faults>>
    <3>1. pc'[r] = "PutStat" /\ reply'[r] # "InternalError"
      BY <1>1, <1>3, <2>1, <2>2, GotoDoes DEF Steps, Replies
    <3> QED
      BY <1>3, <2>1, <3>1 DEF CauseOK, Exists
  <2>3. CASE Fault /\ Finish(r, "InternalError")
    <3>1. pc'[r] = "done" /\ faults' > 0
      BY <1>1, <2>3, FinishDoes DEF Fault, Replies
    <3> QED
      BY <3>1 DEF CauseOK
  <2> QED
    BY <1>6, <2>2, <2>3 DEF PutWrite
<1>7. CASE PutStat(r) /\ ~Disturbed(r)
  <2>1. pc[r] = "PutStat" /\ Exists(p) /\ Finish(r, "Created")
    BY <1>3, <1>7 DEF PutStat, CauseOK
  <2>2. pc'[r] = "done" /\ reply'[r] # "InternalError"
    BY <1>1, <1>3, <2>1, FinishDoes DEF Replies
  <2> QED
    BY <2>2 DEF CauseOK
<1>8. CASE Timeout(r) /\ ~Disturbed(r)
  <2>1. pc[r] # "idle" /\ UNCHANGED <<pc, node, req>> /\ reply'[r] # "InternalError"
    BY <1>1, <1>3, <1>8 DEF Timeout, Answer, fileVars, Continue, TypeOK
  <2> QED
    BY <1>3, <1>8, <2>1 DEF CauseOK, Exists, IsDir, IsFile, Populated, Below
<1> QED
  BY <1>2, <1>4, <1>5, <1>6, <1>7, <1>8, StepsOfKind DEF PutOpen, PutWrite, PutStat, Timeout

LEMMA GetKeepsCause ==
  ASSUME FileInv, FileInv', NEW r \in Requests, Step(r), CauseOK(r), Is(r, "get")'
  PROVE  CauseOK(r)'
<1>1. TypeOK /\ LocalsOK(r) /\ Alone(r) /\ NULL \notin Replies
  BY StepIsAlone, NullAssumption DEF FileInv
<1>2. CASE \E p \in Paths : HandleGet(r, p)
  <2>1. PICK p \in Paths : HandleGet(r, p)
    BY <1>2
  <2>2. 0 \in 0..MaxSize /\ Arrive(r, "get", p, 0) /\ UNCHANGED node
    BY <2>1, FileAssumption DEF HandleGet, fileVars
  <2>3. reply[r] = NULL /\ req'[r].path = p /\ UNCHANGED node
    <3>1. pc[r] = "idle" /\ req'[r] = [op |-> "get", path |-> p, size |-> 0]
      BY <1>1, <2>2, ArrivalDoes
    <3> QED
      BY <1>1, <2>2, <3>1 DEF LocalsOK
  <2>4. CASE Blocked(p)
    BY <1>1, <2>3, <2>4, BlockedIsDisturbed DEF CauseOK
  <2>5. CASE ~Blocked(p)
    <3>1. /\ reply'[r] # "InternalError" /\ pc'[r] \in {"done", "ReadDir", "OpenRead"}
          /\ pc'[r] = "ReadDir" => IsDir(p)
          /\ pc'[r] = "OpenRead" => IsFile(p)
      BY <1>1, <2>1, <2>3, <2>5, FinishDoes, GotoDoes DEF HandleGet, Replies, Steps
    <3> QED
      BY <2>3, <3>1 DEF CauseOK, IsDir, IsFile
  <2> QED
    BY <2>4, <2>5
<1>3. ASSUME pc[r] # "idle"
      PROVE  /\ req'[r] = req[r] /\ req[r] # NULL
             /\ reply[r] \in {NULL, "ServiceUnavailable"}
             /\ Disturbed(r) => Disturbed(r)'
  <2>1. req'[r] = req[r] /\ req[r] # NULL
    BY <1>1, <1>3 DEF Alone, Is
  <2>2. pc[r] \in Running
    BY <1>1, <1>3 DEF Alone, TypeOK, Steps, Running, Putting, Getting, Deleting
  <2>3. Disturbed(r) => Disturbed(r)'
    BY <1>1, <2>1, DisturbsStays DEF Disturbed
  <2> QED
    BY <1>1, <2>1, <2>2, <2>3 DEF LocalsOK, Is
<1>4. CASE pc[r] # "idle" /\ Disturbed(r)
  BY <1>3, <1>4 DEF CauseOK
<1>5. CASE ReadDir(r) /\ ~Disturbed(r)
  <2>1. IsDir(req[r].path) /\ Finish(r, "OK") /\ pc[r] = "ReadDir"
    BY <1>3, <1>5 DEF ReadDir, CauseOK
  <2>2. pc'[r] = "done" /\ reply'[r] # "InternalError"
    BY <1>1, <1>3, <2>1, FinishDoes DEF Replies
  <2> QED
    BY <2>2 DEF CauseOK
<1>6. CASE ReadOpen(r) /\ ~Disturbed(r)
  <2>1. IsFile(req[r].path) /\ Goto(r, "Read") /\ UNCHANGED reply /\ pc[r] = "OpenRead"
    BY <1>3, <1>6 DEF ReadOpen, CauseOK
  <2>2. pc'[r] = "Read" /\ reply'[r] # "InternalError"
    BY <1>1, <1>3, <2>1, GotoDoes DEF Steps, Replies
  <2> QED
    BY <2>2 DEF CauseOK
<1>7. CASE Read(r) /\ ~Disturbed(r)
  <2>1. pc'[r] \in {"done", "Read"} /\ reply'[r] # "InternalError"
    BY <1>1, <1>3, <1>7, FinishDoes DEF Read, Replies
  <2> QED
    BY <2>1 DEF CauseOK
<1>8. CASE Timeout(r) /\ ~Disturbed(r)
  <2>1. pc[r] # "idle" /\ UNCHANGED <<pc, node, req>> /\ reply'[r] # "InternalError"
    BY <1>1, <1>3, <1>8 DEF Timeout, Answer, fileVars, Continue, TypeOK
  <2> QED
    BY <1>3, <1>8, <2>1 DEF CauseOK, Exists, IsDir, IsFile, Populated, Below
<1> QED
  BY <1>2, <1>4, <1>5, <1>6, <1>7, <1>8, StepsOfKind DEF ReadDir, ReadOpen, Read, Timeout

LEMMA DeleteKeepsCause ==
  ASSUME FileInv, FileInv', NEW r \in Requests, Step(r), CauseOK(r), Is(r, "delete")'
  PROVE  CauseOK(r)'
<1>1. TypeOK /\ LocalsOK(r) /\ Alone(r) /\ NULL \notin Replies
  BY StepIsAlone, NullAssumption DEF FileInv
<1>2. CASE \E p \in Paths : HandleDelete(r, p)
  <2>1. PICK p \in Paths : HandleDelete(r, p)
    BY <1>2
  <2>2. 0 \in 0..MaxSize /\ Arrive(r, "delete", p, 0)
    BY <2>1, FileAssumption DEF HandleDelete
  <2>3. reply[r] = NULL /\ req'[r].path = p
    <3>1. pc[r] = "idle" /\ req'[r] = [op |-> "delete", path |-> p, size |-> 0]
      BY <1>1, <2>2, ArrivalDoes
    <3> QED
      BY <1>1, <3>1 DEF LocalsOK
  <2>4. CASE Blocked(p)
    BY <1>1, <2>3, <2>4, BlockedIsDisturbed DEF CauseOK
  <2>5. CASE ~Blocked(p)
    <3>1. reply'[r] # "InternalError" /\ pc'[r] \in {"done", "Remove"}
      BY <1>1, <2>1, <2>3, <2>5, FinishDoes, GotoDoes DEF HandleDelete, Replies, Steps
    <3> QED
      BY <3>1 DEF CauseOK
  <2> QED
    BY <2>4, <2>5
<1>3. ASSUME pc[r] # "idle"
      PROVE  /\ req'[r] = req[r] /\ req[r] # NULL /\ req[r].path \in Paths
             /\ reply[r] \in {NULL, "ServiceUnavailable"}
             /\ Disturbed(r) => Disturbed(r)'
  <2>1. req'[r] = req[r] /\ req[r] # NULL
    BY <1>1, <1>3 DEF Alone, Is
  <2>2. pc[r] \in Running
    BY <1>1, <1>3 DEF Alone, TypeOK, Steps, Running, Putting, Getting, Deleting
  <2>3. Disturbed(r) => Disturbed(r)'
    BY <1>1, <2>1, DisturbsStays DEF Disturbed
  <2>4. req[r].path \in Paths
    BY <1>1, <2>1 DEF TypeOK, Request
  <2> QED
    BY <1>1, <2>1, <2>2, <2>3, <2>4 DEF LocalsOK, Is
<1> DEFINE p == req[r].path
<1>4. CASE pc[r] # "idle" /\ Disturbed(r)
  BY <1>3, <1>4 DEF CauseOK
<1>5. CASE Remove(r) /\ ~Disturbed(r)
  <2>1. pc[r] = "Remove"
    BY <1>5 DEF Remove
  <2>2. CASE Finish(r, "OK")
    <3>1. pc'[r] = "done" /\ reply'[r] # "InternalError"
      BY <1>1, <1>3, <2>1, <2>2, FinishDoes DEF Replies
    <3> QED
      BY <3>1 DEF CauseOK
  <2>3. CASE Populated(p) /\ Goto(r, "Empty") /\ UNCHANGED <<node, reply>>
    <3>1. node[p] = "dir"
      BY <2>3 DEF Populated, Below, FileInv, TreeOK, IsDir
    <3>2. pc'[r] = "Empty" /\ reply'[r] # "InternalError"
      BY <1>1, <1>3, <2>1, <2>3, GotoDoes DEF Steps, Replies
    <3> QED
      BY <1>3, <2>1, <2>3, <3>1, <3>2, FileAssumption DEF CauseOK, IsFile, Inodes
  <2>4. CASE Blocked(p)
    BY <1>1, <1>3, <2>1, <2>4, BlockedIsDisturbed DEF CauseOK
  <2> QED
    BY <1>5, <2>2, <2>3, <2>4 DEF Remove
<1>6. CASE Empty(r) /\ ~Disturbed(r)
  <2>1. /\ pc[r] = "Empty" /\ ~IsFile(p) /\ reply'[r] = reply[r]
    BY <1>3, <1>6 DEF Empty, CauseOK
  <2>2. node'[p] \notin Inodes
    BY <1>1, <1>3, <1>6, <2>1, FileAssumption DEF Empty, Unlink, TypeOK, IsFile, Inodes
  <2>3. CASE UNCHANGED pc
    BY <1>3, <2>1, <2>2, <2>3, <1>1 DEF CauseOK, IsFile, Replies
  <2>4. CASE ~Populated(p) /\ Goto(r, "Rmdir") /\ UNCHANGED node
    <3>1. pc'[r] = "Rmdir" /\ reply'[r] # "InternalError"
      BY <1>1, <1>3, <2>1, <2>4, GotoDoes DEF Steps, Replies
    <3> QED
      BY <1>3, <2>1, <2>4, <3>1 DEF CauseOK, IsFile, Populated, Below, Exists
  <2> QED
    BY <1>6, <2>3, <2>4 DEF Empty
<1>7. CASE Rmdir(r) /\ ~Disturbed(r)
  <2>1. pc[r] = "Rmdir" /\ ~IsFile(p) /\ ~Populated(p)
    BY <1>3, <1>7 DEF Rmdir, CauseOK
  <2>2. Finish(r, "OK")
    BY <1>7, <2>1 DEF Rmdir
  <2>3. pc'[r] = "done" /\ reply'[r] # "InternalError"
    BY <1>1, <1>3, <2>1, <2>2, FinishDoes DEF Replies
  <2> QED
    BY <2>3 DEF CauseOK
<1>8. CASE Timeout(r) /\ ~Disturbed(r)
  <2>1. pc[r] # "idle" /\ UNCHANGED <<pc, node, req>> /\ reply'[r] # "InternalError"
    BY <1>1, <1>3, <1>8 DEF Timeout, Answer, fileVars, Continue, TypeOK
  <2> QED
    BY <1>3, <1>8, <2>1 DEF CauseOK, Exists, IsDir, IsFile, Populated, Below
<1> QED
  BY <1>2, <1>4, <1>5, <1>6, <1>7, <1>8, StepsOfKind DEF Remove, Empty, Rmdir, Timeout

LEMMA CauseInit == Init => CauseInv
BY DEF Init, CauseInv, CauseOK

LEMMA CauseStep == FileInv /\ FileInv' /\ CauseInv /\ [Next]_vars => CauseInv'
<1> SUFFICES ASSUME FileInv, FileInv', CauseInv, [Next]_vars, NEW x \in Requests
             PROVE  CauseOK(x)'
  BY DEF CauseInv
<1>1. CauseOK(x)
  BY DEF CauseInv
<1>2. ASSUME NEW r \in Requests, Step(r)
      PROVE  CauseOK(x)'
  <2>1. CASE r # x
    BY <1>1, <1>2, <2>1, OthersKeepCause
  <2>2. req'[x] # NULL => Is(x, "put")' \/ Is(x, "get")' \/ Is(x, "delete")'
    BY DEF FileInv, TypeOK, Request, Is
  <2>3. CASE r = x
    BY <1>1, <1>2, <2>2, <2>3, PutKeepsCause, GetKeepsCause, DeleteKeepsCause DEF CauseOK
  <2> QED
    BY <2>1, <2>3
<1>3. CASE Crash
  <2>1. /\ UNCHANGED <<node, req, before>> /\ faults' = faults + 1 /\ faults \in Nat
        /\ (pc'[x] = pc[x] /\ reply'[x] = reply[x])
             \/ (pc'[x] = "done" /\ reply'[x] \in {"Lost", "ServiceUnavailable"})
    BY <1>3, CrashDoes, FileAssumption DEF FileInv, TypeOK
  <2>2. Disturbed(x) => Disturbed(x)'
    BY <2>1 DEF Disturbed, Disturbs, OnOnePath, Overlap, Blocks
  <2> QED
    BY <1>1, <2>1, <2>2 DEF CauseOK, Exists, IsDir, IsFile, Populated, Below
<1>4. CASE UNCHANGED vars
  <2>1. Disturbed(x) => Disturbed(x)'
    BY <1>4 DEF Disturbed, Disturbs, OnOnePath, Overlap, Blocks, vars
  <2> QED
    BY <1>1, <1>4, <2>1 DEF CauseOK, Exists, IsDir, IsFile, Populated, Below, vars
<1> QED
  BY <1>2, <1>3, <1>4, NextIs DEF Terminated

\* As long as nothing fails, a 500 has a cause: another request on the same
\* path, a DELETE that overlaps, or a PUT that made a file where another wants
\* a directory or a path below it, before or beside it (the calls of the filesystem between which handlers interleave).
THEOREM FailuresHaveACause == Spec => []FailsOnlyWhenDisturbed
<1>1. FileInv /\ CauseInv => FailsOnlyWhenDisturbed
  BY DEF CauseInv, CauseOK, Disturbed, FailsOnlyWhenDisturbed
<1> QED
  BY <1>1, FileInvariance, FileInit, FileStep, CauseInit, CauseStep, PTL DEF Spec

-----------------------------------------------------------------------------
(***************************************************************************)
(* What contents are mixed by.                                             *)
(***************************************************************************)
Puts(p) == {r \in Requests : Is(r, "put") /\ req[r].path = p}

Apart(p) == \A q, r \in Puts(p) : ~Overlap(q, r)

\* PUT w is the last that has opened the file at p: it is about to write to
\* the empty file, or has written; later PUTs have not opened the file, or
\* failed to.
IsLast(w, p) ==
  /\ \/ pc[w] = "Write" /\ fd[w] = node[p] /\ data[node[p]] = <<>>
     \/ pc[w] \in {"PutStat", "done"} /\ data[node[p]] = Written(w)
  /\ \A q \in Puts(p) \ {w} :
       w \in before[q] => pc[q] = "Open" \/ (pc[q] = "done" /\ reply[q] # "Created")

LastOK(p) ==
  faults = 0 /\ IsFile(p) /\ Apart(p) => \E w \in Puts(p) : IsLast(w, p)

LastInv == \A p \in Paths : LastOK(p)

\* Who arrived for a path stays among its PUTs, and overlaps stay.
LEMMA PutsStay ==
  ASSUME FileInv, NEW r \in Requests, Alone(r), NEW p
  PROVE  /\ Puts(p) \subseteq Puts(p)' /\ \A q \in Puts(p)' \ {r} : q \in Puts(p)
         /\ Apart(p)' => Apart(p)
<1>1. \A q \in Puts(p) : req'[q] = req[q] /\ before'[q] = before[q] /\ Is(q, "put")'
  BY AskedStays DEF Puts, Is
<1>2. Puts(p) \subseteq Puts(p)'
  BY <1>1 DEF Puts
<1>3. \A q \in Puts(p)' \ {r} : q \in Puts(p)
  BY DEF Alone, Puts, Is
<1>4. \A q, x \in Puts(p) : Overlap(q, x) => Overlap(q, x)'
  BY <1>1 DEF Overlap
<1> QED
  BY <1>2, <1>3, <1>4 DEF Apart

\* A PUT that opens the file at p is the last, since no other is under way.
LEMMA OpenerIsLast ==
  ASSUME FileInv, FileInv', NEW r \in Requests, PutOpen(r), NEW p \in Paths, req[r].path = p,
         IsFile(p)', pc'[r] = "Write"
  PROVE  r \in Puts(p)' /\ IsLast(r, p)'
<1>1. TypeOK /\ LocalsOK(r) /\ pc[r] = "Open" /\ Is(r, "put") /\ req' = req
  BY DEF FileInv, LocalsOK, PutOpen, Continue, Putting
<1>2. r \in Puts(p)'
  BY <1>1 DEF Puts, Is
<1>3. fd'[r] = node'[p] /\ data'[node'[p]] = <<>>
  <2> DEFINE inode == IF IsFile(p) THEN node[p] ELSE r
  <2>1. /\ node' = [node EXCEPT ![p] = inode]
        /\ data' = [data EXCEPT ![inode] = <<>>]
        /\ fd' = [fd EXCEPT ![r] = inode]
    BY <1>1, FinishDoes DEF PutOpen, Replies
  <2>2. inode \in Inodes
    BY DEF IsFile, Inodes
  <2> HIDE DEF inode
  <2> QED
    BY <1>1, <2>1, <2>2 DEF TypeOK
<1>4. \A q \in Requests : r \notin before'[q]
  BY DEF FileInv, LocalsOK
<1> QED
  BY <1>2, <1>3, <1>4 DEF IsLast, Puts

\* A step that opens nothing at p leaves its last PUT the last.
LEMMA LastStays ==
  ASSUME FileInv, FileInv', NEW r \in Requests, Step(r), faults' = 0, faults = 0,
         NEW p \in Paths, IsFile(p), node'[p] = node[p], Apart(p)',
         ~(PutOpen(r) /\ req[r].path = p /\ pc'[r] = "Write"),
         NEW w \in Puts(p), IsLast(w, p)
  PROVE  w \in Puts(p)' /\ IsLast(w, p)'
<1>1. /\ TypeOK /\ LocalsOK(r) /\ LocalsOK(w) /\ Alone(r) /\ Writes(r) /\ ~Timeout(r)
      /\ w \in Requests /\ Is(w, "put") /\ req[w].path = p /\ NULL \notin Replies
      /\ node[p] \in Inodes
  BY StepIsAlone, StepMoves, NullAssumption DEF FileInv, Puts, Timeout, Fault, IsFile
<1>2. /\ w \in Puts(p)' /\ Apart(p) /\ \A q \in Puts(p)' \ {r} : q \in Puts(p)
      /\ req'[w] = req[w] /\ before'[w] = before[w] /\ Written(w)' = Written(w)
  BY <1>1, PutsStay, AskedStays DEF Is, Written
<1>3. pc[r] = "Open" /\ Is(r, "put") /\ req[r].path = p =>
        pc'[r] = "done" /\ reply'[r] # "Created"
  <2> SUFFICES ASSUME pc[r] = "Open", Is(r, "put"), req[r].path = p
               PROVE  pc'[r] = "done" /\ reply'[r] # "Created"
    OBVIOUS
  <2>1. Is(r, "put")' /\ reply[r] \in {NULL, "ServiceUnavailable"}
    BY <1>1 DEF LocalsOK, Alone, Is, Running, Putting
  <2>2. PutOpen(r)
    BY <1>1, <2>1, StepsOfKind DEF HandlePut, Arrive, PutWrite, PutStat
  <2>3. Finish(r, "InternalError")
    BY <1>1, <2>2, GotoDoes DEF PutOpen, Steps
  <2> QED
    BY <1>1, <2>1, <2>3, FinishDoes DEF Replies
<1>4. ASSUME NEW q \in Puts(p)', q # w, w \in before'[q]
      PROVE  pc'[q] = "Open" \/ (pc'[q] = "done" /\ reply'[q] # "Created")
  <2>1. CASE q # r
    <3>1. /\ q \in Puts(p) /\ pc'[q] = pc[q] /\ before'[q] = before[q] /\ reply'[q] = reply[q]
      BY <1>1, <1>2, <1>4, <2>1 DEF Alone, Puts
    <3> QED
      BY <1>4, <3>1 DEF IsLast
  <2>2. CASE q = r /\ pc[r] = "idle"
    <3>1. PICK n \in Sizes, x \in Paths : HandlePut(r, x, n)
      BY <1>1, <1>4, <2>2, StepsOfKind DEF Puts, PutOpen, PutWrite, PutStat
    <3>2. reply[r] = NULL
      BY <1>1, <2>2 DEF LocalsOK
    <3> QED
      BY <1>1, <2>2, <3>1, <3>2, FinishDoes, GotoDoes DEF HandlePut, Replies, Steps
  <2>3. CASE q = r /\ pc[r] # "idle"
    <3>1. req'[r] = req[r] /\ before'[r] = before[r] /\ pc[r] # "done"
      BY <1>1, <2>3 DEF Alone
    <3>2. r \in Puts(p)
      BY <1>4, <2>3, <3>1 DEF Puts, Is
    <3>3. pc[r] = "Open"
      BY <1>4, <2>3, <3>1, <3>2 DEF IsLast
    <3> QED
      BY <1>3, <2>3, <3>2, <3>3 DEF Puts
  <2> QED
    BY <2>1, <2>2, <2>3
<1>5. \/ pc'[w] = "Write" /\ fd'[w] = node'[p] /\ data'[node'[p]] = <<>>
      \/ pc'[w] \in {"PutStat", "done"} /\ data'[node'[p]] = Written(w)
  <2>1. CASE r = w
    <3>1. Is(r, "put")' /\ pc[r] \in {"Write", "PutStat"}
      BY <1>1, <1>2, <2>1 DEF IsLast, Alone, Is
    <3>2. PutWrite(r) \/ PutStat(r)
      BY <1>1, <3>1, StepsOfKind DEF HandlePut, Arrive, PutOpen
    <3>3. CASE PutWrite(r)
      <4>1. /\ pc[w] = "Write" /\ fd[w] = node[p] /\ data[node[p]] = <<>>
        BY <2>1, <3>3 DEF PutWrite, IsLast
      <4>2. /\ data' = [data EXCEPT ![fd[r]] = Overwritten(data[fd[r]], r, req[r].size)]
            /\ Goto(r, "PutStat")
        <5>1. ~Fault
          BY <1>1 DEF Fault
        <5> QED
          BY <3>3, <5>1 DEF PutWrite
      <4>3. data'[node[p]] = Written(w)
        <5>1. req[w].size \in 0..MaxSize
          BY <1>1, OwnWritten
        <5>2. data'[node[p]] = Overwritten(<<>>, w, req[w].size)
          BY <1>1, <2>1, <4>1, <4>2 DEF TypeOK
        <5> QED
          BY <1>1, <5>1, <5>2, WriteFromStart DEF Written
      <4>4. pc'[w] = "PutStat"
        BY <1>1, <2>1, <4>2, GotoDoes DEF Steps
      <4> QED
        BY <4>3, <4>4
    <3>4. CASE PutStat(r)
      <4>1. pc'[w] = "done" /\ UNCHANGED data
        BY <1>1, <2>1, <3>4, FinishDoes DEF PutStat, fileVars, Replies
      <4>2. data[node[p]] = Written(w)
        BY <2>1, <3>4 DEF PutStat, IsLast
      <4> QED
        BY <4>1, <4>2
    <3> QED
      BY <3>2, <3>3, <3>4
  <2>2. CASE r # w
    <3>1. data'[node[p]] = data[node[p]]
      <4>1. CASE pc[r] = "Open" /\ pc'[r] = "Write" /\ node'[req[r].path] = node[p]
        <5>1. Is(r, "put") /\ req'[r] = req[r]
          BY <1>1, <4>1 DEF LocalsOK, Putting, Alone
        <5>2. req[r].path \in Paths
          BY <1>1, <5>1 DEF TypeOK, Is, Request
        <5>3. req'[node[p]].path = p /\ req'[node[p]].path = req[r].path
          BY <1>1, <4>1, <5>2 DEF FileInv, TreeOK, IsFile
        <5> QED
          BY <1>3, <4>1, <5>1, <5>3
      <4>2. CASE pc[r] = "Write" /\ fd[r] = node[p]
        <5>1. Is(r, "put") /\ req[r].path = p
          BY <1>1, <4>2 DEF LocalsOK, Putting, FileInv, TreeOK, IsFile
        <5>2. r \in Puts(p) /\ ~Overlap(r, w)
          BY <1>2, <5>1 DEF Puts, Apart
        <5>3. w \in before[r]
          BY <1>1, <2>2, <4>2, <5>2 DEF Overlap, LocalsOK
        <5> QED
          BY <2>2, <4>2, <5>2, <5>3 DEF IsLast
      <4> QED
        BY <1>1, <4>1, <4>2 DEF Writes
    <3>2. pc'[w] = pc[w] /\ fd'[w] = fd[w]
      BY <1>1, <2>2 DEF Alone
    <3> QED
      BY <3>1, <3>2 DEF IsLast
  <2> QED
    BY <2>1, <2>2
<1> QED
  BY <1>2, <1>4, <1>5 DEF IsLast

LEMMA LastInit == Init => LastInv
BY FileAssumption DEF Init, LastInv, LastOK, IsFile, Inodes

LEMMA LastStep == FileInv /\ FileInv' /\ LastInv /\ [Next]_vars => LastInv'
<1> SUFFICES ASSUME FileInv, FileInv', LastInv, [Next]_vars, NEW p \in Paths,
                    faults' = 0, IsFile(p)', Apart(p)'
             PROVE  \E w \in Puts(p)' : IsLast(w, p)'
  BY DEF LastInv, LastOK
<1>1. LastOK(p)
  BY DEF LastInv
<1>2. ASSUME NEW r \in Requests, Step(r)
      PROVE  \E w \in Puts(p)' : IsLast(w, p)'
  <2>1. Alone(r) /\ Moves(r) /\ LocalsOK(r) /\ faults = 0 /\ Apart(p)
    BY <1>2, StepIsAlone, StepMoves, FaultsGrow, PutsStay DEF FileInv
  <2>2. CASE PutOpen(r) /\ req[r].path = p /\ pc'[r] = "Write"
    BY <2>2, OpenerIsLast
  <2>3. CASE ~(PutOpen(r) /\ req[r].path = p /\ pc'[r] = "Write")
    <3>1. node'[p] = node[p]
      <4>1. node'[p] \in Inodes /\ node'[p] # "dir" /\ node'[p] # "none"
        BY FileAssumption DEF IsFile, Inodes
      <4>2. ASSUME Opened(r, p) PROVE FALSE
        <5>1. pc[r] = "Open" /\ Is(r, "put")' /\ node'[p] # node[p] /\ req[r].path = p
          BY <2>1, <4>1, <4>2 DEF Opened, LocalsOK, Putting, Is, Alone
        <5>2. PutOpen(r) \/ Timeout(r)
          BY <1>2, <5>1, StepsOfKind DEF HandlePut, Arrive, PutWrite, PutStat
        <5>3. PutOpen(r) /\ Goto(r, "Write")
          BY <5>1, <5>2 DEF PutOpen, Timeout, fileVars
        <5> QED
          BY <2>3, <5>1, <5>3, GotoDoes DEF FileInv, Steps
      <4> QED
        BY <2>1, <4>1, <4>2 DEF Moves, Made, Removed
    <3>2. IsFile(p)
      BY <3>1 DEF IsFile
    <3>3. PICK w \in Puts(p) : IsLast(w, p)
      BY <1>1, <2>1, <3>2 DEF LastOK
    <3> QED
      BY <1>2, <2>1, <2>3, <3>1, <3>2, <3>3, LastStays
  <2> QED
    BY <2>2, <2>3
<1>3. ~Crash
  BY FileAssumption DEF Crash, Fault, FileInv, TypeOK
<1>4. CASE UNCHANGED vars
  BY <1>1, <1>4
  DEF LastOK, IsLast, Puts, Apart, Overlap, Is, IsFile, Written, vars
<1> QED
  BY <1>2, <1>3, <1>4, NextIs DEF Terminated

\* As long as nothing fails and no two PUTs of a path were under way together,
\* a file that nobody is writing holds what the last PUT of it wrote, whatever
\* DELETEs come in between (HandlePut's os.WriteFile, which holds no lock).
THEOREM OnlyOverlapsMix == Spec => []MixedOnlyByOverlap
<1>1. FileInv /\ LastInv => MixedOnlyByOverlap
  <2> SUFFICES ASSUME FileInv, LastInv, faults = 0, NEW p \in Paths, IsFile(p),
                      \A r \in Requests : pc[r] = "Write" => fd[r] # node[p], Apart(p)
               PROVE  \E w \in Puts(p) :
                        /\ data[node[p]] = Written(w)
                        /\ \A q \in Puts(p) \ {w} : reply[q] = "Created" => w \notin before[q]
    BY DEF MixedOnlyByOverlap, Puts, Apart, Is
  <2>1. PICK w \in Puts(p) : IsLast(w, p)
    BY DEF LastInv, LastOK
  <2>2. data[node[p]] = Written(w)
    BY <2>1 DEF IsLast, Puts
  <2>3. \A q \in Requests : pc[q] = "Open" => reply[q] # "Created"
    BY NullAssumption DEF FileInv, LocalsOK, Running, Putting, Replies
  <2> QED
    BY <2>1, <2>2, <2>3 DEF IsLast, Puts
<1> QED
  BY <1>1, FileInvariance, FileInit, FileStep, LastInit, LastStep, PTL DEF Spec
=============================================================================
