--------------------------- MODULE MgFiles_proofs ---------------------------
(***************************************************************************)
(* Proofs about the files of mongoose, MgFiles, for every number of        *)
(* workers and of requests, bodies, ranges and first contents of any size. *)
(*                                                                         *)
(* A step of one worker is one that changes the file, and then it excuses  *)
(* all the others, or one that leaves the file alone.  So the invariant is *)
(* one of each worker by itself (WorkerInv): what it knows of the file is  *)
(* true until it is excused.  What the client's copy is worth is kept by   *)
(* time alone: a file that has been changed since is a newer one.          *)
(***************************************************************************)
EXTENDS MgFiles, SequenceTheorems, TLAPS

Codes == {0, 200, 201, 206, 304, 404, 500, 501, 577}
Seen  == [content : Seq(Nat), racy : BOOLEAN]
Stats == [size : Nat, mtime : Nat]
Copies == [file : Stats, content : Seq(Nat), racy : BOOLEAN]
Asked == [method : Methods, range : Ranges, gzipped : Packed, body : 1 .. MaxBody,
          cached : Copies \cup {<<>>}, mark : 1 .. MaxRequests]

FileTypes ==
  /\ now \in 1 .. LastTime /\ requests \in 0 .. MaxRequests
  /\ dir \in BOOLEAN /\ name \in 0 .. MaxRequests + 1 /\ (name # 0 => dir)
  /\ data \in [Files -> Seq(Nat)] /\ mtime \in [Files -> Nat]
  /\ \A f \in Files : 1 <= mtime[f] /\ mtime[f] <= now
  /\ cache \in Copies \cup {<<>>}

WorkerTypes ==
  /\ pc \in [Workers -> {"idle", "dispatch", "remove", "open", "send", "put", "put_dir",
                         "mkdir", "put_open", "body", "close", "done"}]
  /\ req \in [Workers -> Asked \cup {<<>>}] /\ st \in [Workers -> Stats]
  /\ fp \in [Workers -> 0 .. MaxRequests + 1]
  /\ cl \in [Workers -> Int] /\ sent \in [Workers -> Seq(Nat)]
  /\ status \in [Workers -> Codes]
  /\ taken \in [Workers -> Nat] /\ stored \in [Workers -> Nat]
  /\ excused \in [Workers -> BOOLEAN] /\ seen \in [Workers -> Seen]

\* What a worker has and does at its steps.
Steps(w) ==
  /\ pc[w] # "idle" => req[w] \in Asked
  /\ pc[w] \in {"put", "put_dir", "mkdir"} => req[w].method \in {"PUT", "PUT/"}
  /\ pc[w] \in {"put_open", "body"} => req[w].method = "PUT"
  /\ pc[w] = "remove" => req[w].method = "DELETE"
  /\ pc[w] = "open" => req[w].method \in {"GET", "HEAD"}
  /\ pc[w] = "send" => req[w].method = "GET"
  /\ pc[w] \in {"dispatch", "remove", "open", "put", "put_dir", "mkdir", "put_open"} =>
       fp[w] = 0 /\ sent[w] = <<>> /\ taken[w] = 0
  /\ pc[w] \in {"send", "body", "close"} => fp[w] # 0
  /\ pc[w] = "put_open" => dir
  /\ (pc[w] = "done" /\ fp[w] # 0) => status[w] = 501
  /\ stored[w] <= taken[w] /\ taken[w] <= MaxBody
  /\ (pc[w] # "idle" /\ req[w].method # "PUT") => taken[w] = 0
  /\ (pc[w] # "idle" /\ req[w].method = "PUT") => taken[w] <= req[w].body
  /\ Len(sent[w]) <= cl[w] \/ sent[w] = <<>>

\* What stat saw was there in an earlier second, or may have been changed in its
\* own; and a client that is told its copy is good has one that is.
Knows(w) ==
  pc[w] # "idle" =>
    /\ ~ seen[w].racy => st[w].mtime < now
    /\ st[w].mtime # 0 => st[w].size = Len(seen[w].content)
    /\ (\/ pc[w] = "dispatch" /\ st[w].mtime # 0 /\ req[w].cached # <<>>
           /\ st[w].mtime <= req[w].cached.file.mtime
        \/ pc[w] = "done" /\ status[w] = 304 /\ ~ InLostDay(w))
       => req[w].cached.racy \/ req[w].cached.content = seen[w].content
    /\ status[w] = 304 => pc[w] = "done"

\* The file is sent as stat saw it.
From(w) == IF R1(w) > st[w].size THEN st[w].size ELSE R1(w)
Sends(w) ==
  (pc[w] # "idle" /\ req[w].method \in {"GET", "HEAD"} /\ ~ excused[w]) =>
    /\ (\/ pc[w] = "dispatch" /\ st[w].mtime # 0
        \/ pc[w] \in {"open", "send", "close"}
        \/ pc[w] = "done" /\ status[w] \in {200, 206})
       => name # 0 /\ data[name] = seen[w].content /\ st[w].mtime # 0
    /\ pc[w] \in {"send", "close"} => fp[w] = name /\ status[w] \in {200, 206}
    /\ (pc[w] \in {"send", "close"} \/ (pc[w] = "done" /\ status[w] \in {200, 206}))
       => /\ cl[w] = ContentLength(w)
          /\ status[w] = (IF IsRange(w) THEN 206 ELSE 200)
          /\ From(w) + Len(sent[w]) <= Len(seen[w].content)
          /\ \A i \in 1 .. Len(sent[w]) : sent[w][i] = seen[w].content[From(w) + i]
    /\ (req[w].method = "GET" /\ (pc[w] = "close" \/ (pc[w] = "done" /\ status[w] \in {200, 206})))
       => Len(sent[w]) >= cl[w] \/ From(w) + Len(sent[w]) >= Len(seen[w].content)
    /\ pc[w] = "done" => status[w] # 500

\* The file is what a PUT has written of its body.
Written(w) ==
  IF stored[w] = 0 THEN <<>>
  ELSE [i \in 1 .. R1(w) + stored[w] |-> IF i <= R1(w) THEN 0 ELSE req[w].mark]
Stores(w) ==
  (pc[w] # "idle" /\ req[w].method = "PUT" /\ ~ excused[w]) =>
    /\ (pc[w] \in {"body", "close"} \/ (pc[w] = "done" /\ status[w] \in {200, 201, 206}))
       => name # 0 /\ data[name] = Written(w)
    /\ pc[w] \in {"body", "close"} => fp[w] = name
    /\ (pc[w] = "close" /\ status[w] # 577) => taken[w] = req[w].body
    /\ (pc[w] = "done" /\ status[w] \in {200, 201, 206}) => stored[w] = req[w].body

WorkerInv(w) == Steps(w) /\ Knows(w) /\ Sends(w) /\ Stores(w)

\* A copy that was made in a later second than the file is what the file holds, or
\* is older than it.
CopyIsGood ==
  (cache # <<>> /\ ~ cache.racy) =>
    /\ cache.file.mtime < now
    /\ (name # 0 /\ mtime[name] <= cache.file.mtime) => data[name] = cache.content

FilesInv ==
  /\ FileTypes /\ WorkerTypes /\ CopyIsGood
  /\ \A w \in Workers : WorkerInv(w)
-----------------------------------------------------------------------------
(* The other workers.                                                      *)

\* A worker that takes no part in a step.
Same(v) ==
  /\ pc'[v] = pc[v] /\ req'[v] = req[v] /\ st'[v] = st[v] /\ fp'[v] = fp[v]
  /\ cl'[v] = cl[v] /\ sent'[v] = sent[v] /\ status'[v] = status[v]
  /\ taken'[v] = taken[v] /\ stored'[v] = stored[v] /\ seen'[v] = seen[v]
  /\ excused[v] => excused'[v]

\* The file is as it was for a worker, or the worker is excused.
FileStays(v) == excused'[v] \/ (name' = name /\ data'[name] = data[name])

LEMMA Undisturbed ==
  ASSUME FileTypes, FileTypes', WorkerTypes, NEW v \in Workers, WorkerInv(v),
         Same(v), FileStays(v), now <= now', dir => dir'
  PROVE  WorkerInv(v)'
<1>1. Steps(v)'
  BY DEF WorkerInv, Steps, Same
<1>2. Knows(v)'
  <2>1. st[v].mtime \in Nat /\ now \in Nat /\ now' \in Nat
    BY DEF FileTypes, WorkerTypes, Stats
  <2>2. InLostDay(v)' = InLostDay(v)
    BY DEF Same, InLostDay
  <2> QED
    BY <2>1, <2>2 DEF WorkerInv, Knows, Same
<1>3. Sends(v)'
  <2> SUFFICES ASSUME ~ excused'[v] PROVE Sends(v)'
    BY DEF Sends
  <2>1. From(v)' = From(v) /\ IsRange(v)' = IsRange(v) /\ ContentLength(v)' = ContentLength(v)
    BY DEF Same, From, R1, IsRange, ContentLength
  <2>2. name' = name /\ data'[name] = data[name] /\ ~ excused[v]
    BY DEF Same, FileStays
  <2> QED
    BY <2>1, <2>2 DEF WorkerInv, Sends, Same
<1>4. Stores(v)'
  BY DEF WorkerInv, Stores, Same, FileStays, Written, R1, IsRange
<1> QED
  BY <1>1, <1>2, <1>3, <1>4 DEF WorkerInv

LEMMA OneWorker ==
  ASSUME FilesInv, NEW w \in Workers, FileTypes', WorkerTypes', CopyIsGood', WorkerInv(w)',
         now <= now', dir => dir',
         \A v \in Workers \ {w} : Same(v) /\ FileStays(v)
  PROVE  FilesInv'
<1>1. ASSUME NEW v \in Workers PROVE WorkerInv(v)'
  <2>1. CASE v = w
    BY <2>1
  <2>2. CASE v # w
    BY <2>2, Undisturbed DEF FilesInv
  <2> QED
    BY <2>1, <2>2
<1> QED
  BY <1>1 DEF FilesInv

LEMMA CopyStays ==
  ASSUME FilesInv, UNCHANGED <<now, name, data, mtime, cache>> PROVE CopyIsGood'
BY DEF FilesInv, CopyIsGood

LEMMA FileStaysTyped ==
  ASSUME FilesInv, UNCHANGED <<now, requests, fileVars, cache>> PROVE FileTypes'
BY DEF FilesInv, FileTypes, fileVars

\* A function of the workers of which at most one entry has changed.
LEMMA EntryTyped ==
  ASSUME NEW S, NEW f \in [Workers -> S], NEW g, NEW w \in Workers,
         g = f \/ \E y \in S : g = [f EXCEPT ![w] = y]
  PROVE  g \in [Workers -> S]
OBVIOUS

\* What Put1 makes of a file; at the end of a body so far it is the longer body.
LEMMA PutTyped ==
  ASSUME NEW s \in Seq(Nat), NEW i \in Nat, NEW mark \in Nat
  PROVE  Put1(s, i + 1, mark) \in Seq(Nat)
<1> DEFINE n == IF i + 1 > Len(s) THEN i + 1 ELSE Len(s)
<1>1. n \in Nat
  OBVIOUS
<1>2. ASSUME NEW j \in 1 .. n
      PROVE  (IF j = i + 1 THEN mark ELSE IF j <= Len(s) THEN s[j] ELSE 0) \in Nat
  OBVIOUS
<1> QED
  BY <1>1, <1>2 DEF Put1

LEMMA PutAppends ==
  ASSUME NEW r \in Nat, NEW k \in Nat, NEW mark \in Nat, NEW s,
         s = IF k = 0 THEN <<>> ELSE [i \in 1 .. r + k |-> IF i <= r THEN 0 ELSE mark]
  PROVE  Put1(s, r + k + 1, mark) = [i \in 1 .. r + (k + 1) |-> IF i <= r THEN 0 ELSE mark]
<1>1. CASE k = 0
  <2>1. s = <<>> /\ Len(s) = 0
    BY <1>1
  <2>2. Put1(s, r + k + 1, mark) = [j \in 1 .. r + k + 1 |-> IF j = r + k + 1 THEN mark ELSE 0]
    BY <2>1 DEF Put1
  <2> QED
    BY <1>1, <2>2
<1>2. CASE k # 0
  <2> DEFINE t == [i \in 1 .. r + k |-> IF i <= r THEN 0 ELSE mark]
  <2>1. s = t /\ Len(t) = r + k
    BY <1>2
  <2>2. \A j \in 1 .. r + k : t[j] = IF j <= r THEN 0 ELSE mark
    OBVIOUS
  <2>3. Put1(t, r + k + 1, mark)
          = [j \in 1 .. r + k + 1 |-> IF j = r + k + 1 THEN mark
                                     ELSE IF j <= r + k THEN t[j] ELSE 0]
    <3> HIDE DEF t
    <3> QED
      BY <2>1 DEF Put1
  <2> HIDE DEF t
  <2>4. ASSUME NEW j \in 1 .. r + k + 1
        PROVE  (IF j = r + k + 1 THEN mark ELSE IF j <= r + k THEN t[j] ELSE 0)
                 = (IF j <= r THEN 0 ELSE mark)
    BY <1>2, <2>2
  <2>5. r + k + 1 = r + (k + 1)
    OBVIOUS
  <2> QED
    BY <2>1, <2>3, <2>4, <2>5
<1> QED
  BY <1>1, <1>2

LEMMA FilesAssumptionNat ==
  ASSUME FilesAssumption
  PROVE  MaxBody \in Nat /\ MaxRequests \in Nat /\ LastTime \in Nat \ {0, 1}
BY DEF FilesAssumption

\* What is known of a worker that is not idle.
LEMMA Asks ==
  ASSUME FilesAssumption, FilesInv, NEW w \in Workers, pc[w] # "idle"
  PROVE  /\ req[w] \in Asked
         /\ req[w].method \in Methods /\ req[w].range \in Seq(Nat) /\ Len(req[w].range) <= 2
         /\ req[w].body \in 1 .. MaxBody /\ req[w].mark \in 1 .. MaxRequests
         /\ req[w].cached \in Copies \cup {<<>>}
         /\ R1(w) \in Nat /\ From(w) \in Nat /\ ContentLength(w) \in Int
<1>1. req[w] \in Asked
  BY DEF FilesInv, WorkerInv, Steps
<1>2. /\ req[w].method \in Methods /\ req[w].range \in Ranges
      /\ req[w].body \in 1 .. MaxBody /\ req[w].mark \in 1 .. MaxRequests
      /\ req[w].cached \in Copies \cup {<<>>}
  BY <1>1 DEF Asked
<1>3. req[w].range \in Seq(Nat) /\ Len(req[w].range) <= 2
  BY <1>2 DEF FilesAssumption
<1>4. R1(w) \in Nat
  BY <1>3 DEF R1, IsRange
<1>5. st[w].size \in Nat
  BY DEF FilesInv, WorkerTypes, Stats
<1>6. From(w) \in Nat
  BY <1>4, <1>5 DEF From
<1>7. ContentLength(w) \in Int
  <2>1. CASE Len(req[w].range) = 2
    BY <1>3, <1>5, <2>1 DEF ContentLength
  <2>2. CASE Len(req[w].range) # 2
    BY <1>3, <1>5, <2>2 DEF ContentLength
  <2> QED
    BY <2>1, <2>2
<1> QED
  BY <1>1, <1>2, <1>3, <1>4, <1>6, <1>7

-----------------------------------------------------------------------------
(* The steps.                                                              *)

LEMMA PutKeeps ==
  ASSUME FilesAssumption, FilesInv, NEW w \in Workers, Put(w)
  PROVE  FilesInv'
<1> USE DEF fileVars, respVars, bodyVars, ghosts
<1>1. \A v \in Workers \ {w} : Same(v) /\ FileStays(v)
  BY DEF FilesInv, WorkerTypes, Same, FileStays, Put, At, To, Status, Ends, Disturbs, fileVars, respVars, bodyVars, ghosts
<1>2. /\ pc[w] = "put" /\ pc'[w] = "put_dir" /\ status'[w] \in {200, 201}
      /\ UNCHANGED <<now, name, data, dir, mtime>>
      /\ req'[w] = req[w] /\ st'[w] = st[w] /\ fp'[w] = fp[w] /\ cl'[w] = cl[w] /\ sent'[w] = sent[w]
      /\ taken'[w] = taken[w] /\ stored'[w] = stored[w] /\ seen'[w] = seen[w] /\ excused'[w] = excused[w]
  BY DEF FilesInv, WorkerTypes, Put, At, To, Status, Ends, Disturbs,
     fileVars, respVars, bodyVars, ghosts
<1>3. FileTypes'
  BY FileStaysTyped DEF Put, At, To, Status, Ends, Disturbs, fileVars, respVars, bodyVars, ghosts
<1>4. WorkerTypes'
  <2>1. pc' \in [Workers -> {"idle", "dispatch", "remove", "open", "send", "put", "put_dir",
                         "mkdir", "put_open", "body", "close", "done"}]
    BY DEF FilesInv, WorkerTypes, Put, At, To, Status, Ends, Disturbs, fileVars, respVars, bodyVars, ghosts
  <2>2. status' \in [Workers -> Codes]
    BY DEF FilesInv, WorkerTypes, Codes, Put, At, To, Status, Ends, Disturbs, fileVars, respVars, bodyVars, ghosts
  <2>3. /\ req' \in [Workers -> Asked \cup {<<>>}] /\ st' \in [Workers -> Stats]
        /\ fp' \in [Workers -> 0 .. MaxRequests + 1] /\ seen' \in [Workers -> Seen]
    BY DEF FilesInv, WorkerTypes, Put, At, To, Status, Ends, Disturbs, fileVars, respVars, bodyVars, ghosts
  <2>4. /\ cl' \in [Workers -> Int] /\ sent' \in [Workers -> Seq(Nat)]
        /\ taken' \in [Workers -> Nat] /\ stored' \in [Workers -> Nat]
        /\ excused' \in [Workers -> BOOLEAN]
    BY DEF FilesInv, WorkerTypes, Put, At, To, Status, Ends, Disturbs, fileVars, respVars, bodyVars, ghosts
  <2> QED
    BY <2>1, <2>2, <2>3, <2>4 DEF WorkerTypes
<1>5. CopyIsGood'
  BY CopyStays DEF Put, At, To, Status, Ends, Disturbs, fileVars, respVars, bodyVars, ghosts
<1>6. Steps(w)'
  BY <1>2, Asks DEF FilesInv, WorkerInv, Steps
<1>7. Knows(w)'
  BY <1>2, Asks DEF FilesInv, WorkerInv, Knows
<1>8. Sends(w)'
  BY <1>2, Asks DEF FilesInv, WorkerInv, Sends, Steps
<1>9. Stores(w)'
  BY <1>2, Asks DEF FilesInv, WorkerInv, Stores, Steps
<1>10. now <= now' /\ (dir => dir')
  BY DEF FilesInv, FileTypes, Put, At, To, Status, Ends, Disturbs, fileVars, respVars, bodyVars, ghosts
<1> QED
  BY <1>1, <1>3, <1>4, <1>5, <1>6, <1>7, <1>8, <1>9, <1>10, OneWorker DEF WorkerInv

LEMMA PutDirKeeps ==
  ASSUME FilesAssumption, FilesInv, NEW w \in Workers, PutDir(w)
  PROVE  FilesInv'
<1> USE DEF fileVars, respVars, bodyVars, ghosts
<1>1. \A v \in Workers \ {w} : Same(v) /\ FileStays(v)
  BY DEF FilesInv, WorkerTypes, Same, FileStays, PutDir, At, To, Status, Ends, Disturbs, fileVars, respVars, bodyVars, ghosts
<1>2. /\ pc[w] = "put_dir" /\ pc'[w] = (IF dir THEN AfterDir(w) ELSE "mkdir")
      /\ UNCHANGED <<now, name, data, dir, mtime>>
      /\ req'[w] = req[w] /\ st'[w] = st[w] /\ fp'[w] = fp[w] /\ cl'[w] = cl[w] /\ sent'[w] = sent[w]
      /\ status'[w] = status[w] /\ taken'[w] = taken[w] /\ stored'[w] = stored[w] /\ seen'[w] = seen[w] /\ excused'[w] = excused[w]
  BY DEF FilesInv, WorkerTypes, PutDir, At, To, Status, Ends, Disturbs,
     fileVars, respVars, bodyVars, ghosts
<1>3. FileTypes'
  BY FileStaysTyped DEF PutDir, At, To, Status, Ends, Disturbs, fileVars, respVars, bodyVars, ghosts
<1>4. WorkerTypes'
  <2>1. pc' \in [Workers -> {"idle", "dispatch", "remove", "open", "send", "put", "put_dir",
                         "mkdir", "put_open", "body", "close", "done"}]
    <3>1. \E y \in {"put_open", "mkdir", "done"} : pc' = [pc EXCEPT ![w] = y]
      BY DEF PutDir, To, AfterDir
    <3> QED
      BY <3>1, EntryTyped DEF FilesInv, WorkerTypes
  <2>2. status' \in [Workers -> Codes]
    BY DEF FilesInv, WorkerTypes, Codes, PutDir, At, To, Status, Ends, Disturbs, fileVars, respVars, bodyVars, ghosts
  <2>3. /\ req' \in [Workers -> Asked \cup {<<>>}] /\ st' \in [Workers -> Stats]
        /\ fp' \in [Workers -> 0 .. MaxRequests + 1] /\ seen' \in [Workers -> Seen]
    BY DEF FilesInv, WorkerTypes, PutDir, At, To, Status, Ends, Disturbs, fileVars, respVars, bodyVars, ghosts
  <2>4. /\ cl' \in [Workers -> Int] /\ sent' \in [Workers -> Seq(Nat)]
        /\ taken' \in [Workers -> Nat] /\ stored' \in [Workers -> Nat]
        /\ excused' \in [Workers -> BOOLEAN]
    BY DEF FilesInv, WorkerTypes, PutDir, At, To, Status, Ends, Disturbs, fileVars, respVars, bodyVars, ghosts
  <2> QED
    BY <2>1, <2>2, <2>3, <2>4 DEF WorkerTypes
<1>5. CopyIsGood'
  BY CopyStays DEF PutDir, At, To, Status, Ends, Disturbs, fileVars, respVars, bodyVars, ghosts
<1>6. Steps(w)'
  BY <1>2, Asks DEF FilesInv, WorkerInv, Steps, AfterDir, IsDir
<1>7. Knows(w)'
  BY <1>2, Asks DEF FilesInv, WorkerInv, Knows, AfterDir, IsDir
<1>8. Sends(w)'
  BY <1>2, Asks DEF FilesInv, WorkerInv, Sends, Steps
<1>9. Stores(w)'
  BY <1>2, Asks DEF FilesInv, WorkerInv, Stores, Steps, AfterDir, IsDir
<1>10. now <= now' /\ (dir => dir')
  BY DEF FilesInv, FileTypes, PutDir, At, To, Status, Ends, Disturbs, fileVars, respVars, bodyVars, ghosts
<1> QED
  BY <1>1, <1>3, <1>4, <1>5, <1>6, <1>7, <1>8, <1>9, <1>10, OneWorker DEF WorkerInv

LEMMA MkDirKeeps ==
  ASSUME FilesAssumption, FilesInv, NEW w \in Workers, MkDir(w)
  PROVE  FilesInv'
<1> USE DEF fileVars, respVars, bodyVars, ghosts
<1>1. \A v \in Workers \ {w} : Same(v) /\ FileStays(v)
  BY DEF FilesInv, WorkerTypes, Same, FileStays, MkDir, At, To, Status, Ends, Disturbs, fileVars, respVars, bodyVars, ghosts
<1>2. /\ pc[w] = "mkdir" /\ dir' = TRUE
      /\ UNCHANGED <<now, name, data, mtime>>
      /\ req'[w] = req[w] /\ st'[w] = st[w] /\ fp'[w] = fp[w] /\ cl'[w] = cl[w] /\ sent'[w] = sent[w]
      /\ taken'[w] = taken[w] /\ stored'[w] = stored[w] /\ seen'[w] = seen[w] /\ excused'[w] = excused[w]
  BY DEF MkDir, At
<1>2a. \/ pc'[w] = "done" /\ status'[w] = 500
       \/ pc'[w] = AfterDir(w) /\ status'[w] = status[w]
  <2>1. CASE dir
    <3>1. pc' = [pc EXCEPT ![w] = "done"] /\ status' = [status EXCEPT ![w] = 500]
      BY <2>1 DEF MkDir, To, Status, Ends
    <3>2. pc'[w] = "done"
      BY <3>1 DEF FilesInv, WorkerTypes
    <3>3. status'[w] = 500
      BY <3>1 DEF FilesInv, WorkerTypes
    <3> QED
      BY <3>2, <3>3
  <2>2. CASE ~ dir
    <3>1. pc' = [pc EXCEPT ![w] = AfterDir(w)] /\ status' = status
      BY <2>2 DEF MkDir, To, Status, Ends
    <3> QED
      BY <3>1 DEF FilesInv, WorkerTypes
  <2> QED
    BY <2>1, <2>2
<1>3. FileTypes'
  BY DEF FilesInv, FileTypes, MkDir, fileVars, ghosts
<1>4. WorkerTypes'
  <2>1. pc' \in [Workers -> {"idle", "dispatch", "remove", "open", "send", "put", "put_dir",
                         "mkdir", "put_open", "body", "close", "done"}]
    <3>1. \E y \in {"put_open", "done"} : pc' = [pc EXCEPT ![w] = y]
      BY DEF MkDir, At, To, Ends, AfterDir
    <3> QED
      BY <3>1, EntryTyped DEF FilesInv, WorkerTypes
  <2>2. status' \in [Workers -> Codes]
    <3>1. status' = status \/ \E y \in {500} : status' = [status EXCEPT ![w] = y]
      BY DEF MkDir, At, To, Status, Ends
    <3>2. {500} \subseteq Codes
      BY DEF Codes
    <3>3. status \in [Workers -> Codes]
      BY DEF FilesInv, WorkerTypes
    <3>4. status' = status \/ \E y \in Codes : status' = [status EXCEPT ![w] = y]
      BY <3>1, <3>2
    <3> QED
      BY <3>3, <3>4, EntryTyped
  <2>3. /\ req' \in [Workers -> Asked \cup {<<>>}] /\ st' \in [Workers -> Stats]
        /\ fp' \in [Workers -> 0 .. MaxRequests + 1] /\ seen' \in [Workers -> Seen]
    BY DEF FilesInv, WorkerTypes, MkDir, At, To, Status, Ends, Disturbs, fileVars, respVars, bodyVars, ghosts
  <2>4. /\ cl' \in [Workers -> Int] /\ sent' \in [Workers -> Seq(Nat)]
        /\ taken' \in [Workers -> Nat] /\ stored' \in [Workers -> Nat]
        /\ excused' \in [Workers -> BOOLEAN]
    BY DEF FilesInv, WorkerTypes, MkDir, At, To, Status, Ends, Disturbs, fileVars, respVars, bodyVars, ghosts
  <2> QED
    BY <2>1, <2>2, <2>3, <2>4 DEF WorkerTypes
<1>5. CopyIsGood'
  BY CopyStays DEF MkDir, At, To, Status, Ends, Disturbs, fileVars, respVars, bodyVars, ghosts
<1>6. Steps(w)'
  BY <1>2, <1>2a, Asks DEF FilesInv, WorkerInv, Steps, AfterDir, IsDir
<1>7. Knows(w)'
  BY <1>2, <1>2a, Asks DEF FilesInv, WorkerInv, Knows, Steps, AfterDir, IsDir
<1>8. Sends(w)'
  BY <1>2, <1>2a, Asks DEF FilesInv, WorkerInv, Sends, Steps
<1>9. Stores(w)'
  BY <1>2, <1>2a, Asks DEF FilesInv, WorkerInv, Stores, Steps, AfterDir, IsDir
<1>10. now <= now' /\ (dir => dir')
  BY DEF FilesInv, FileTypes, MkDir, At, To, Status, Ends, Disturbs, fileVars, respVars, bodyVars, ghosts
<1> QED
  BY <1>1, <1>3, <1>4, <1>5, <1>6, <1>7, <1>8, <1>9, <1>10, OneWorker DEF WorkerInv

LEMMA DispatchKeeps ==
  ASSUME FilesAssumption, FilesInv, NEW w \in Workers, Dispatch(w)
  PROVE  FilesInv'
<1> USE DEF fileVars, respVars, bodyVars, ghosts
<1>1. \A v \in Workers \ {w} : Same(v) /\ FileStays(v)
  BY DEF FilesInv, WorkerTypes, Same, FileStays, Dispatch, At, To, Status, Ends, Disturbs, fileVars, respVars, bodyVars, ghosts
<1>2. /\ pc[w] = "dispatch"
      /\ UNCHANGED <<now, name, data, dir, mtime>>
      /\ req[w].method \in {"PUT", "PUT/"} => pc'[w] = "put" /\ status'[w] = status[w]
      /\ req[w].method = "DELETE" => pc'[w] = "remove" /\ status'[w] = status[w]
      /\ req[w].method \notin {"PUT", "PUT/", "DELETE"} =>
           \/ pc'[w] = "done" /\ status'[w] = 404
           \/ pc'[w] = "done" /\ status'[w] = 304 /\ st[w].mtime # 0 /\ IsNotModified(w)
           \/ pc'[w] = "open" /\ status'[w] = status[w] /\ st[w].mtime # 0
      /\ req'[w] = req[w] /\ st'[w] = st[w] /\ fp'[w] = fp[w] /\ cl'[w] = cl[w] /\ sent'[w] = sent[w]
      /\ taken'[w] = taken[w] /\ stored'[w] = stored[w] /\ seen'[w] = seen[w] /\ excused'[w] = excused[w]
  BY DEF FilesInv, WorkerTypes, Dispatch, At, To, Status, Ends, Disturbs,
     fileVars, respVars, bodyVars, ghosts
<1>3. FileTypes'
  BY FileStaysTyped DEF Dispatch, At, To, Status, Ends, Disturbs, fileVars, respVars, bodyVars, ghosts
<1>4. WorkerTypes'
  <2>1. pc' \in [Workers -> {"idle", "dispatch", "remove", "open", "send", "put", "put_dir",
                         "mkdir", "put_open", "body", "close", "done"}]
    <3>1. \E y \in {"put", "remove", "open", "done"} : pc' = [pc EXCEPT ![w] = y]
      BY DEF Dispatch, At, To, Ends
    <3> QED
      BY <3>1, EntryTyped DEF FilesInv, WorkerTypes
  <2>2. status' \in [Workers -> Codes]
    <3>1. status' = status \/ \E y \in {404, 304} : status' = [status EXCEPT ![w] = y]
      BY DEF Dispatch, At, To, Status, Ends
    <3>2. {404, 304} \subseteq Codes
      BY DEF Codes
    <3>3. status \in [Workers -> Codes]
      BY DEF FilesInv, WorkerTypes
    <3>4. status' = status \/ \E y \in Codes : status' = [status EXCEPT ![w] = y]
      BY <3>1, <3>2
    <3> QED
      BY <3>3, <3>4, EntryTyped
  <2>3. /\ req' \in [Workers -> Asked \cup {<<>>}] /\ st' \in [Workers -> Stats]
        /\ fp' \in [Workers -> 0 .. MaxRequests + 1] /\ seen' \in [Workers -> Seen]
    BY DEF FilesInv, WorkerTypes, Dispatch, At, To, Status, Ends, Disturbs, fileVars, respVars, bodyVars, ghosts
  <2>4. /\ cl' \in [Workers -> Int] /\ sent' \in [Workers -> Seq(Nat)]
        /\ taken' \in [Workers -> Nat] /\ stored' \in [Workers -> Nat]
        /\ excused' \in [Workers -> BOOLEAN]
    BY DEF FilesInv, WorkerTypes, Dispatch, At, To, Status, Ends, Disturbs, fileVars, respVars, bodyVars, ghosts
  <2> QED
    BY <2>1, <2>2, <2>3, <2>4 DEF WorkerTypes
<1>5. CopyIsGood'
  BY CopyStays DEF Dispatch, At, To, Status, Ends, Disturbs, fileVars, respVars, bodyVars, ghosts
<1>6. Steps(w)'
  <2>1. req[w].method \in {"GET", "HEAD", "PUT", "PUT/", "DELETE"} /\ req[w] \in Asked
    BY <1>2, Asks DEF FilesAssumption
  <2>2. /\ fp[w] = 0 /\ sent[w] = <<>> /\ taken[w] = 0 /\ stored[w] <= taken[w]
        /\ taken[w] <= MaxBody /\ (req[w].method = "PUT" => taken[w] <= req[w].body)
    BY <1>2 DEF FilesInv, WorkerInv, Steps
  <2>3. /\ pc'[w] = "put" => req[w].method \in {"PUT", "PUT/"}
        /\ pc'[w] = "remove" => req[w].method = "DELETE"
        /\ pc'[w] = "open" => req[w].method \in {"GET", "HEAD"}
        /\ pc'[w] \in {"put", "remove", "open", "done"}
    BY <1>2, <2>1
  <2> QED
    BY <1>2, <2>1, <2>2, <2>3 DEF Steps
<1>7. Knows(w)'
  <2>1. ASSUME pc'[w] = "done", status'[w] = 304
        PROVE  /\ st[w].mtime # 0 /\ req[w].cached # <<>>
               /\ st[w].mtime <= req[w].cached.file.mtime \/ InLostDay(w)
    <3>1. st[w].mtime # 0 /\ IsNotModified(w) /\ req[w].cached # <<>>
      BY <1>2, <2>1 DEF IsNotModified
    <3>2. PICK m \in Nat, t \in Nat : m = st[w].mtime /\ t = req[w].cached.file.mtime
      <4>1. req[w].cached \in Copies
        BY <1>2, <3>1, Asks
      <4> QED
        BY <4>1 DEF FilesInv, WorkerTypes, Copies, Stats
    <3>3. m <= t \/ (t \in Late /\ m <= t + Day)
      <4>1. CASE st[w] = req[w].cached.file
        BY <3>2, <4>1
      <4>2. CASE m <= ParsedDate(t)
        BY <4>2 DEF ParsedDate
      <4> QED
        BY <3>1, <3>2, <4>1, <4>2 DEF IsNotModified
    <3>4. CASE m <= t
      BY <3>1, <3>2, <3>4
    <3>5. CASE ~ (m <= t) /\ t \in Late /\ m <= t + Day
      <4>1. Day \in Nat
        BY DEF FilesAssumption
      <4>2. m \in t + 1 .. t + Day
        BY <3>5, <4>1
      <4> QED
        BY <3>1, <3>2, <3>5, <4>2 DEF InLostDay
    <3> QED
      BY <3>3, <3>4, <3>5
  <2>2. InLostDay(w)' = InLostDay(w)
    BY <1>2 DEF InLostDay
  <2> QED
    BY <1>2, <2>1, <2>2, Asks DEF FilesInv, WorkerInv, Knows
<1>8. Sends(w)'
  BY <1>2, Asks DEF FilesInv, WorkerInv, Sends, Steps
<1>9. Stores(w)'
  BY <1>2, Asks DEF FilesInv, WorkerInv, Stores, Steps
<1>10. now <= now' /\ (dir => dir')
  BY DEF FilesInv, FileTypes, Dispatch, At, To, Status, Ends, Disturbs, fileVars, respVars, bodyVars, ghosts
<1> QED
  BY <1>1, <1>3, <1>4, <1>5, <1>6, <1>7, <1>8, <1>9, <1>10, OneWorker DEF WorkerInv

LEMMA RemoveKeeps ==
  ASSUME FilesAssumption, FilesInv, NEW w \in Workers, Remove(w)
  PROVE  FilesInv'
<1> USE DEF fileVars, respVars, bodyVars, ghosts
<1>1. \A v \in Workers \ {w} : Same(v) /\ FileStays(v)
  BY DEF FilesInv, WorkerTypes, Same, FileStays, Remove, At, To, Status, Ends, Disturbs, fileVars, respVars, bodyVars, ghosts
<1>2. /\ pc[w] = "remove" /\ pc'[w] = "done"
      /\ name' = 0 /\ status'[w] \in {200, 500}
      /\ UNCHANGED <<now, data, dir, mtime>>
      /\ req'[w] = req[w] /\ st'[w] = st[w] /\ fp'[w] = fp[w] /\ cl'[w] = cl[w] /\ sent'[w] = sent[w]
      /\ taken'[w] = taken[w] /\ stored'[w] = stored[w] /\ seen'[w] = seen[w] /\ excused'[w] = excused[w]
  BY DEF FilesInv, WorkerTypes, Remove, At, To, Status, Ends, Disturbs,
     fileVars, respVars, bodyVars, ghosts
<1>3. FileTypes'
  BY DEF FilesInv, FileTypes, Remove, fileVars, Disturbs, FilesAssumption
<1>4. WorkerTypes'
  <2>1. pc' \in [Workers -> {"idle", "dispatch", "remove", "open", "send", "put", "put_dir",
                         "mkdir", "put_open", "body", "close", "done"}]
    BY DEF FilesInv, WorkerTypes, Remove, At, To, Status, Ends, Disturbs, fileVars, respVars, bodyVars, ghosts
  <2>2. status' \in [Workers -> Codes]
    BY DEF FilesInv, WorkerTypes, Codes, Remove, At, To, Status, Ends, Disturbs, fileVars, respVars, bodyVars, ghosts
  <2>3. /\ req' \in [Workers -> Asked \cup {<<>>}] /\ st' \in [Workers -> Stats]
        /\ fp' \in [Workers -> 0 .. MaxRequests + 1] /\ seen' \in [Workers -> Seen]
    BY DEF FilesInv, WorkerTypes, Remove, At, To, Status, Ends, Disturbs, fileVars, respVars, bodyVars, ghosts
  <2>4. /\ cl' \in [Workers -> Int] /\ sent' \in [Workers -> Seq(Nat)]
        /\ taken' \in [Workers -> Nat] /\ stored' \in [Workers -> Nat]
        /\ excused' \in [Workers -> BOOLEAN]
    BY DEF FilesInv, WorkerTypes, Remove, At, To, Status, Ends, Disturbs, fileVars, respVars, bodyVars, ghosts
  <2> QED
    BY <2>1, <2>2, <2>3, <2>4 DEF WorkerTypes
<1>5. CopyIsGood'
  BY DEF FilesInv, CopyIsGood, Remove
<1>6. Steps(w)'
  BY <1>2, Asks DEF FilesInv, WorkerInv, Steps
<1>7. Knows(w)'
  BY <1>2, Asks DEF FilesInv, WorkerInv, Knows
<1>8. Sends(w)'
  BY <1>2, Asks DEF FilesInv, WorkerInv, Sends, Steps
<1>9. Stores(w)'
  BY <1>2, Asks DEF FilesInv, WorkerInv, Stores, Steps
<1>10. now <= now' /\ (dir => dir')
  BY DEF FilesInv, FileTypes, Remove, At, To, Status, Ends, Disturbs, fileVars, respVars, bodyVars, ghosts
<1> QED
  BY <1>1, <1>3, <1>4, <1>5, <1>6, <1>7, <1>8, <1>9, <1>10, OneWorker DEF WorkerInv

LEMMA DoneKeeps ==
  ASSUME FilesAssumption, FilesInv, NEW w \in Workers, Done(w)
  PROVE  FilesInv'
<1> USE DEF fileVars, respVars, bodyVars, ghosts
<1>1. \A v \in Workers \ {w} : Same(v) /\ FileStays(v)
  BY DEF FilesInv, WorkerTypes, Same, FileStays, Done, At, To, Status, Ends, Disturbs, fileVars, respVars, bodyVars, ghosts
<1>2. /\ pc[w] = "done" /\ pc'[w] = "idle"
      /\ UNCHANGED <<now, name, data, dir, mtime>>
      /\ req'[w] = req[w] /\ st'[w] = st[w] /\ fp'[w] = fp[w] /\ cl'[w] = cl[w] /\ sent'[w] = sent[w]
      /\ status'[w] = status[w] /\ taken'[w] = taken[w] /\ stored'[w] = stored[w] /\ seen'[w] = seen[w] /\ excused'[w] = excused[w]
  BY DEF FilesInv, WorkerTypes, Done, At, To, Status, Ends, Disturbs,
     fileVars, respVars, bodyVars, ghosts
<1>3. FileTypes'
  <2>1. cache' \in Copies \cup {<<>>}
    <3>1. st[w] \in Stats /\ sent[w] \in Seq(Nat) /\ excused[w] \in BOOLEAN
          /\ seen[w].racy \in BOOLEAN
      BY DEF FilesInv, WorkerTypes, Seen
    <3> QED
      BY <3>1 DEF FilesInv, FileTypes, Done, Copies
  <2> QED
    BY <1>2, <2>1 DEF FilesInv, FileTypes, Done
<1>4. WorkerTypes'
  <2>1. pc' \in [Workers -> {"idle", "dispatch", "remove", "open", "send", "put", "put_dir",
                         "mkdir", "put_open", "body", "close", "done"}]
    BY DEF FilesInv, WorkerTypes, Done, At, To, Status, Ends, Disturbs, fileVars, respVars, bodyVars, ghosts
  <2>2. status' \in [Workers -> Codes]
    BY DEF FilesInv, WorkerTypes, Codes, Done, At, To, Status, Ends, Disturbs, fileVars, respVars, bodyVars, ghosts
  <2>3. /\ req' \in [Workers -> Asked \cup {<<>>}] /\ st' \in [Workers -> Stats]
        /\ fp' \in [Workers -> 0 .. MaxRequests + 1] /\ seen' \in [Workers -> Seen]
    BY DEF FilesInv, WorkerTypes, Done, At, To, Status, Ends, Disturbs, fileVars, respVars, bodyVars, ghosts
  <2>4. /\ cl' \in [Workers -> Int] /\ sent' \in [Workers -> Seq(Nat)]
        /\ taken' \in [Workers -> Nat] /\ stored' \in [Workers -> Nat]
        /\ excused' \in [Workers -> BOOLEAN]
    BY DEF FilesInv, WorkerTypes, Done, At, To, Status, Ends, Disturbs, fileVars, respVars, bodyVars, ghosts
  <2> QED
    BY <2>1, <2>2, <2>3, <2>4 DEF WorkerTypes
<1>5. CopyIsGood'
  <2>1. CASE req[w].method = "GET" /\ status[w] = 200 /\ Len(sent[w]) = cl[w]
    <3>1. cache' = [file |-> st[w], content |-> sent[w], racy |-> excused[w] \/ seen[w].racy]
      BY <2>1 DEF Done
    <3> SUFFICES ASSUME ~ excused[w], ~ seen[w].racy
                 PROVE  /\ st[w].mtime < now
                        /\ (name # 0 /\ mtime[name] <= st[w].mtime) => data[name] = sent[w]
      BY <1>2, <3>1 DEF CopyIsGood
    <3>2. st[w].mtime < now
      BY <1>2 DEF FilesInv, WorkerInv, Knows
    <3>3. /\ st[w].mtime # 0 /\ name # 0 /\ data[name] = seen[w].content
          /\ cl[w] = ContentLength(w) /\ ~ IsRange(w)
          /\ From(w) + Len(sent[w]) <= Len(seen[w].content)
          /\ \A i \in 1 .. Len(sent[w]) : sent[w][i] = seen[w].content[From(w) + i]
      BY <1>2, <2>1 DEF FilesInv, WorkerInv, Sends
    <3>4. st[w].size = Len(seen[w].content)
      BY <1>2, <3>3 DEF FilesInv, WorkerInv, Knows
    <3>5. From(w) = 0 /\ ContentLength(w) = st[w].size
      <4>1. st[w].size \in Nat
        BY DEF FilesInv, WorkerTypes, Stats
      <4> QED
        BY <3>3, <4>1 DEF From, R1, IsRange, ContentLength
    <3>6. sent[w] \in Seq(Nat) /\ seen[w].content \in Seq(Nat)
      BY DEF FilesInv, WorkerTypes, Seen
    <3>7. Len(sent[w]) = Len(seen[w].content)
          /\ \A i \in 1 .. Len(sent[w]) : sent[w][i] = seen[w].content[i]
      <4>1. Len(sent[w]) \in Nat
        BY <3>6
      <4>2. \A i \in 1 .. Len(sent[w]) : From(w) + i = i
        BY <3>5, <4>1
      <4> QED
        BY <2>1, <3>3, <3>4, <3>5, <4>2
    <3>8. sent[w] = seen[w].content
      BY <3>6, <3>7, SeqEqual
    <3> QED
      BY <3>2, <3>3, <3>8
  <2>2. CASE ~ (req[w].method = "GET" /\ status[w] = 200 /\ Len(sent[w]) = cl[w])
    BY <1>2, <2>2 DEF FilesInv, CopyIsGood, Done
  <2> QED
    BY <2>1, <2>2
<1>6. Steps(w)'
  BY <1>2, Asks DEF FilesInv, WorkerInv, Steps
<1>7. Knows(w)'
  BY <1>2, Asks DEF FilesInv, WorkerInv, Knows
<1>8. Sends(w)'
  BY <1>2, Asks DEF FilesInv, WorkerInv, Sends, Steps
<1>9. Stores(w)'
  BY <1>2, Asks DEF FilesInv, WorkerInv, Stores, Steps
<1>10. now <= now' /\ (dir => dir')
  BY DEF FilesInv, FileTypes, Done, At, To, Status, Ends, Disturbs, fileVars, respVars, bodyVars, ghosts
<1> QED
  BY <1>1, <1>3, <1>4, <1>5, <1>6, <1>7, <1>8, <1>9, <1>10, OneWorker DEF WorkerInv

LEMMA OpenKeeps ==
  ASSUME FilesAssumption, FilesInv, NEW w \in Workers, Open(w)
  PROVE  FilesInv'
<1> USE DEF fileVars, respVars, bodyVars, ghosts
<1>1. \A v \in Workers \ {w} : Same(v) /\ FileStays(v)
  BY DEF FilesInv, WorkerTypes, Same, FileStays, Open, At, To, Status, Ends, Disturbs, fileVars, respVars, bodyVars, ghosts
<1>2. /\ pc[w] = "open" /\ fp'[w] = name
      /\ UNCHANGED <<now, name, data, dir, mtime>>
      /\ name = 0 => pc'[w] = "done" /\ status'[w] = 500 /\ cl'[w] = cl[w]
      /\ (name # 0 /\ IsRange(w) /\ req[w].gzipped) =>
           pc'[w] = "done" /\ status'[w] = 501 /\ cl'[w] = cl[w]
      /\ (name # 0 /\ ~ (IsRange(w) /\ req[w].gzipped)) =>
           /\ status'[w] = (IF IsRange(w) THEN 206 ELSE 200)
           /\ cl'[w] = ContentLength(w)
           /\ pc'[w] = (IF req[w].method = "HEAD" THEN "close" ELSE "send")
      /\ req'[w] = req[w] /\ st'[w] = st[w] /\ sent'[w] = sent[w] /\ taken'[w] = taken[w] /\ stored'[w] = stored[w]
      /\ seen'[w] = seen[w] /\ excused'[w] = excused[w]
  BY DEF FilesInv, WorkerTypes, Open, At, To, Status, Ends, Disturbs,
     fileVars, respVars, bodyVars, ghosts
<1>3. FileTypes'
  BY FileStaysTyped DEF Open, At, To, Status, Ends, Disturbs, fileVars, respVars, bodyVars, ghosts
<1>4. WorkerTypes'
  <2>1. pc' \in [Workers -> {"idle", "dispatch", "remove", "open", "send", "put", "put_dir",
                         "mkdir", "put_open", "body", "close", "done"}]
    <3>1. \E y \in {"send", "close", "done"} : pc' = [pc EXCEPT ![w] = y]
      BY DEF Open, At, To, Ends
    <3> QED
      BY <3>1, EntryTyped DEF FilesInv, WorkerTypes
  <2>2. status' \in [Workers -> Codes]
    <3>1. status' = status \/ \E y \in {500, 501, 200, 206} : status' = [status EXCEPT ![w] = y]
      BY DEF Open, At, To, Status, Ends
    <3>2. {500, 501, 200, 206} \subseteq Codes
      BY DEF Codes
    <3>3. status \in [Workers -> Codes]
      BY DEF FilesInv, WorkerTypes
    <3>4. status' = status \/ \E y \in Codes : status' = [status EXCEPT ![w] = y]
      BY <3>1, <3>2
    <3> QED
      BY <3>3, <3>4, EntryTyped
  <2>3. /\ req' \in [Workers -> Asked \cup {<<>>}] /\ st' \in [Workers -> Stats]
        /\ fp' \in [Workers -> 0 .. MaxRequests + 1] /\ seen' \in [Workers -> Seen]
    BY DEF FilesInv, FileTypes, WorkerTypes, Open, respVars, bodyVars, ghosts, fileVars
  <2>4. /\ cl' \in [Workers -> Int] /\ sent' \in [Workers -> Seq(Nat)]
        /\ taken' \in [Workers -> Nat] /\ stored' \in [Workers -> Nat]
        /\ excused' \in [Workers -> BOOLEAN]
    BY Asks DEF FilesInv, WorkerTypes, Open, At, respVars, bodyVars, ghosts
  <2> QED
    BY <2>1, <2>2, <2>3, <2>4 DEF WorkerTypes
<1>5. CopyIsGood'
  BY CopyStays DEF Open, At, To, Status, Ends, Disturbs, fileVars, respVars, bodyVars, ghosts
<1>6. Steps(w)'
  BY <1>2, Asks DEF FilesInv, WorkerInv, Steps, FilesAssumption
<1>7. Knows(w)'
  BY <1>2, Asks DEF FilesInv, WorkerInv, Knows
<1>8. Sends(w)'
  <2>1. ASSUME ~ excused[w] PROVE name # 0 /\ data[name] = seen[w].content /\ st[w].mtime # 0
    BY <1>2, <2>1 DEF FilesInv, WorkerInv, Sends, Steps
  <2>2. ASSUME ~ excused[w]
        PROVE  /\ sent[w] = <<>> /\ Len(sent[w]) = 0
               /\ From(w) + Len(sent[w]) <= Len(seen[w].content)
    <3>1. sent[w] = <<>>
      BY <1>2 DEF FilesInv, WorkerInv, Steps
    <3>2. st[w].size = Len(seen[w].content) /\ st[w].size \in Nat
      BY <1>2, <2>1, <2>2 DEF FilesInv, WorkerInv, Knows, WorkerTypes, Stats
    <3>3. From(w) <= st[w].size /\ From(w) \in Nat
      BY <1>2, <3>2, Asks DEF From
    <3> QED
      BY <3>1, <3>2, <3>3
  <2>3. /\ From(w)' = From(w) /\ IsRange(w)' = IsRange(w) /\ ContentLength(w)' = ContentLength(w)
    BY <1>2 DEF From, R1, IsRange, ContentLength
  <2>4. req[w].method \in {"GET", "HEAD"}
    BY <1>2 DEF FilesInv, WorkerInv, Steps
  <2> HIDE DEF fileVars, respVars, bodyVars, ghosts
  <2> SUFFICES ASSUME ~ excused[w] PROVE Sends(w)'
    BY <1>2 DEF Sends
  <2>5. /\ name' # 0 /\ data'[name'] = seen'[w].content /\ st'[w].mtime # 0
    BY <1>2, <2>1
  <2>6. CASE IsRange(w) /\ req[w].gzipped
    BY <1>2, <2>5, <2>6 DEF Sends
  <2>7. CASE ~ (IsRange(w) /\ req[w].gzipped)
    <3>1. /\ fp'[w] = name' /\ status'[w] \in {200, 206}
          /\ cl'[w] = ContentLength(w)' /\ status'[w] = (IF IsRange(w)' THEN 206 ELSE 200)
      BY <1>2, <2>3, <2>5, <2>7
    <3>2. /\ (From(w) + Len(sent[w]) <= Len(seen[w].content))'
          /\ (\A i \in 1 .. Len(sent[w]) : sent[w][i] = seen[w].content[From(w) + i])'
      BY <1>2, <2>2, <2>3
    <3>3. pc'[w] = (IF req'[w].method = "HEAD" THEN "close" ELSE "send")
      BY <1>2, <2>5, <2>7
    <3>4. pc'[w] # "done" /\ (req'[w].method = "GET" => pc'[w] # "close")
      BY <3>3
    <3> QED
      BY <2>5, <3>1, <3>2, <3>4 DEF Sends
  <2> QED
    BY <2>6, <2>7
<1>9. Stores(w)'
  BY <1>2, Asks DEF FilesInv, WorkerInv, Stores, Steps
<1>10. now <= now' /\ (dir => dir')
  BY DEF FilesInv, FileTypes, Open, At, To, Status, Ends, Disturbs, fileVars, respVars, bodyVars, ghosts
<1> QED
  BY <1>1, <1>3, <1>4, <1>5, <1>6, <1>7, <1>8, <1>9, <1>10, OneWorker DEF WorkerInv

LEMMA SendKeeps ==
  ASSUME FilesAssumption, FilesInv, NEW w \in Workers, Send(w)
  PROVE  FilesInv'
<1> USE DEF fileVars, respVars, bodyVars, ghosts
<1>1. \A v \in Workers \ {w} : Same(v) /\ FileStays(v)
  BY DEF FilesInv, WorkerTypes, Same, FileStays, Send, At, To, fileVars, respVars, bodyVars, ghosts
<1>2. /\ pc[w] = "send"
      /\ UNCHANGED <<now, name, data, dir, mtime>>
      /\ \/ /\ Len(sent[w]) < cl[w] /\ Next1(w) <= Len(data[fp[w]])
            /\ sent'[w] = Append(sent[w], data[fp[w]][Next1(w)])
            /\ pc'[w] = pc[w] /\ excused'[w] = excused[w]
         \/ /\ Len(sent[w]) >= cl[w] \/ Next1(w) > Len(data[fp[w]])
            /\ pc'[w] = "close" /\ sent'[w] = sent[w] /\ excused'[w] = excused[w]
         \/ pc'[w] = "close" /\ sent'[w] = sent[w] /\ excused'[w]
      /\ req'[w] = req[w] /\ st'[w] = st[w] /\ fp'[w] = fp[w] /\ cl'[w] = cl[w] /\ status'[w] = status[w]
      /\ taken'[w] = taken[w] /\ stored'[w] = stored[w] /\ seen'[w] = seen[w]
  BY DEF FilesInv, WorkerTypes, Send, At, To, Status, Ends, Disturbs,
     fileVars, respVars, bodyVars, ghosts
<1>2b. sent[w] \in Seq(Nat) /\ Len(sent[w]) \in Nat /\ cl[w] \in Int
  BY DEF FilesInv, WorkerTypes
<1>2c. ASSUME Len(sent[w]) < cl[w], Next1(w) <= Len(data[fp[w]])
       PROVE  data[fp[w]][Next1(w)] \in Nat
  <2>1. fp[w] \in Files
    BY <1>2, FilesAssumptionNat DEF FilesInv, WorkerInv, Steps, WorkerTypes, Files
  <2>2. data[fp[w]] \in Seq(Nat)
    BY <2>1 DEF FilesInv, FileTypes
  <2>3. From(w) \in Nat
    BY <1>2, Asks
  <2>4. Next1(w) \in 1 .. Len(data[fp[w]])
    BY <1>2b, <1>2c, <2>2, <2>3 DEF From, Next1
  <2> QED
    BY <2>2, <2>4
<1>3. FileTypes'
  BY FileStaysTyped DEF Send, At, To, Status, Ends, Disturbs, fileVars, respVars, bodyVars, ghosts
<1>4. WorkerTypes'
  <2>1. pc' \in [Workers -> {"idle", "dispatch", "remove", "open", "send", "put", "put_dir",
                         "mkdir", "put_open", "body", "close", "done"}]
    BY DEF FilesInv, WorkerTypes, Send, To
  <2>2. status' \in [Workers -> Codes]
    BY DEF FilesInv, WorkerTypes, Codes, Send, At, To, Status, Ends, Disturbs, fileVars, respVars, bodyVars, ghosts
  <2>3. /\ req' \in [Workers -> Asked \cup {<<>>}] /\ st' \in [Workers -> Stats]
        /\ fp' \in [Workers -> 0 .. MaxRequests + 1] /\ seen' \in [Workers -> Seen]
    BY DEF FilesInv, WorkerTypes, Send, At, To, Status, Ends, Disturbs, fileVars, respVars, bodyVars, ghosts
  <2>4. /\ cl' \in [Workers -> Int] /\ sent' \in [Workers -> Seq(Nat)]
        /\ taken' \in [Workers -> Nat] /\ stored' \in [Workers -> Nat]
        /\ excused' \in [Workers -> BOOLEAN]
    <3>1. sent' \in [Workers -> Seq(Nat)]
      <4>1. CASE sent' = sent
        BY <4>1 DEF FilesInv, WorkerTypes
      <4>2. CASE sent' # sent
        <5>1. /\ Len(sent[w]) < cl[w] /\ Next1(w) <= Len(data[fp[w]])
              /\ sent' = [sent EXCEPT ![w] = Append(@, data[fp[w]][Next1(w)])]
          BY <4>2 DEF Send
        <5>2. Append(sent[w], data[fp[w]][Next1(w)]) \in Seq(Nat)
          BY <1>2b, <1>2c, <5>1
        <5> QED
          BY <5>1, <5>2 DEF FilesInv, WorkerTypes
      <4> QED
        BY <4>1, <4>2
    <3>2. excused' \in [Workers -> BOOLEAN]
      BY DEF FilesInv, WorkerTypes, Send
    <3> QED
      BY <3>1, <3>2 DEF FilesInv, WorkerTypes, Send
  <2> QED
    BY <2>1, <2>2, <2>3, <2>4 DEF WorkerTypes
<1>5. CopyIsGood'
  BY CopyStays DEF Send, At, To, Status, Ends, Disturbs, fileVars, respVars, bodyVars, ghosts
<1>6. Steps(w)'
  <2>1. Len(sent'[w]) <= cl'[w] \/ sent'[w] = <<>>
    BY <1>2, <1>2b, <1>2c DEF FilesInv, WorkerInv, Steps
  <2> QED
    BY <1>2, <2>1 DEF FilesInv, WorkerInv, Steps
<1>7. Knows(w)'
  BY <1>2, Asks DEF FilesInv, WorkerInv, Knows
<1>8. Sends(w)'
  <2> SUFFICES ASSUME ~ excused[w], ~ excused'[w], req[w].method \in {"GET", "HEAD"} PROVE Sends(w)'
    BY <1>2 DEF Sends
  <2>1. /\ name # 0 /\ data[name] = seen[w].content /\ st[w].mtime # 0
        /\ fp[w] = name /\ status[w] \in {200, 206}
        /\ cl[w] = ContentLength(w) /\ status[w] = (IF IsRange(w) THEN 206 ELSE 200)
        /\ From(w) + Len(sent[w]) <= Len(seen[w].content)
        /\ \A i \in 1 .. Len(sent[w]) : sent[w][i] = seen[w].content[From(w) + i]
    BY <1>2 DEF FilesInv, WorkerInv, Sends
  <2>2. /\ From(w)' = From(w) /\ IsRange(w)' = IsRange(w) /\ ContentLength(w)' = ContentLength(w)
    BY <1>2 DEF From, R1, IsRange, ContentLength
  <2>3. From(w) \in Nat /\ Next1(w) = From(w) + Len(sent[w]) + 1 /\ Len(seen[w].content) \in Nat
    BY <1>2, Asks DEF From, Next1, FilesInv, WorkerTypes, Seen
  <2>4. /\ Len(sent'[w]) \in Nat /\ From(w) + Len(sent'[w]) <= Len(seen[w].content)
        /\ \A i \in 1 .. Len(sent'[w]) : sent'[w][i] = seen[w].content[From(w) + i]
    <3>1. CASE sent'[w] = sent[w]
      BY <1>2b, <2>1, <3>1
    <3>2. CASE sent'[w] # sent[w]
      <4>1. /\ Len(sent[w]) < cl[w] /\ Next1(w) <= Len(data[fp[w]])
            /\ sent'[w] = Append(sent[w], data[fp[w]][Next1(w)])
        BY <1>2, <3>2
      <4>2. /\ Len(sent'[w]) = Len(sent[w]) + 1
            /\ \A i \in 1 .. Len(sent[w]) : sent'[w][i] = sent[w][i]
            /\ sent'[w][Len(sent[w]) + 1] = data[fp[w]][Next1(w)]
        BY <1>2b, <1>2c, <4>1
      <4>3. sent'[w][Len(sent[w]) + 1] = seen[w].content[From(w) + (Len(sent[w]) + 1)]
        <5>1. data[fp[w]] = seen[w].content
          BY <2>1
        <5>2. Next1(w) = From(w) + (Len(sent[w]) + 1)
          BY <1>2b, <2>3
        <5> QED
          BY <4>2, <5>1, <5>2
      <4>4. From(w) + Len(sent'[w]) <= Len(seen[w].content)
        BY <1>2b, <2>1, <2>3, <4>1, <4>2
      <4>5. ASSUME NEW i \in 1 .. Len(sent'[w])
            PROVE  sent'[w][i] = seen[w].content[From(w) + i]
        <5>1. i \in 1 .. Len(sent[w]) \/ i = Len(sent[w]) + 1
          BY <1>2b, <4>2
        <5> QED
          BY <2>1, <4>2, <4>3, <5>1
      <4> QED
        BY <1>2b, <4>2, <4>4, <4>5
    <3> QED
      BY <3>1, <3>2
  <2>5. pc'[w] = "close" =>
          Len(sent'[w]) >= cl'[w] \/ From(w) + Len(sent'[w]) >= Len(seen[w].content)
    <3> SUFFICES ASSUME pc'[w] = "close", ~ (Len(sent[w]) >= cl[w])
                 PROVE  From(w) + Len(sent[w]) >= Len(seen[w].content) /\ sent'[w] = sent[w]
      BY <1>2
    <3>1. Next1(w) > Len(data[fp[w]]) /\ sent'[w] = sent[w]
      BY <1>2
    <3> QED
      BY <1>2b, <2>1, <2>3, <3>1
  <2>6. pc'[w] \in {"send", "close"}
    BY <1>2
  <2> HIDE DEF fileVars, respVars, bodyVars, ghosts
  <2>7. /\ name' # 0 /\ data'[name'] = seen'[w].content /\ st'[w].mtime # 0
        /\ fp'[w] = name' /\ status'[w] \in {200, 206}
        /\ cl'[w] = ContentLength(w)' /\ status'[w] = (IF IsRange(w)' THEN 206 ELSE 200)
    BY <1>2, <2>1, <2>2
  <2>8. /\ (From(w) + Len(sent[w]) <= Len(seen[w].content))'
        /\ (\A i \in 1 .. Len(sent[w]) : sent[w][i] = seen[w].content[From(w) + i])'
        /\ (pc[w] = "close" => Len(sent[w]) >= cl[w] \/ From(w) + Len(sent[w]) >= Len(seen[w].content))'
    BY <1>2, <2>2, <2>4, <2>5
  <2> QED
    BY <2>6, <2>7, <2>8 DEF Sends
<1>9. Stores(w)'
  BY <1>2, Asks DEF FilesInv, WorkerInv, Stores, Steps
<1>10. now <= now' /\ (dir => dir')
  BY DEF FilesInv, FileTypes, Send, At, To, Status, Ends, Disturbs, fileVars, respVars, bodyVars, ghosts
<1> QED
  BY <1>1, <1>3, <1>4, <1>5, <1>6, <1>7, <1>8, <1>9, <1>10, OneWorker DEF WorkerInv

LEMMA PutOpenKeeps ==
  ASSUME FilesAssumption, FilesInv, NEW w \in Workers, PutOpen(w)
  PROVE  FilesInv'
<1> USE DEF fileVars, respVars, bodyVars, ghosts
<1>1. \A v \in Workers \ {w} : Same(v) /\ FileStays(v)
  BY DEF FilesInv, WorkerTypes, Same, FileStays, PutOpen, At, To, Status, Disturbs, respVars, bodyVars
<1> DEFINE f == IF name = 0 THEN req[w].mark + 1 ELSE name
<1>2. /\ pc[w] = "put_open" /\ pc'[w] = "body" /\ status'[w] \in {206, status[w]} /\ dir /\ dir' = dir
      /\ name' = f /\ fp'[w] = f /\ now' = now /\ requests' = requests /\ cache' = cache
      /\ data' = [data EXCEPT ![f] = <<>>] /\ mtime' = [mtime EXCEPT ![f] = now]
      /\ req'[w] = req[w] /\ st'[w] = st[w] /\ cl'[w] = cl[w] /\ sent'[w] = sent[w] /\ taken'[w] = taken[w]
      /\ stored'[w] = stored[w] /\ seen'[w] = seen[w] /\ excused'[w] = excused[w]
  BY DEF FilesInv, WorkerInv, Steps, WorkerTypes, PutOpen, At, To, Status, Disturbs,
     respVars, bodyVars
<1>2b. f \in Files /\ f # 0 /\ req[w].mark \in 1 .. MaxRequests
  <2>1. req[w].mark \in 1 .. MaxRequests /\ MaxRequests \in Nat
    BY <1>2, Asks, FilesAssumptionNat
  <2>2. name \in 0 .. MaxRequests + 1
    BY DEF FilesInv, FileTypes
  <2> QED
    BY <2>1, <2>2 DEF Files
<1>2c. data'[f] = <<>> /\ mtime'[f] = now
  BY <1>2, <1>2b DEF FilesInv, FileTypes
<1> HIDE DEF f
<1>3. FileTypes'
  <2>1. data' \in [Files -> Seq(Nat)] /\ mtime' \in [Files -> Nat]
    BY <1>2, <1>2b DEF FilesInv, FileTypes
  <2>2. \A g \in Files : 1 <= mtime'[g] /\ mtime'[g] <= now
    BY <1>2, <1>2b DEF FilesInv, FileTypes
  <2>3. f \in 0 .. MaxRequests + 1
    BY <1>2b, FilesAssumptionNat DEF Files
  <2> QED
    BY <1>2, <2>1, <2>2, <2>3 DEF FilesInv, FileTypes
<1>4. WorkerTypes'
  <2>1. pc' \in [Workers -> {"idle", "dispatch", "remove", "open", "send", "put", "put_dir",
                         "mkdir", "put_open", "body", "close", "done"}]
    <3>1. \E y \in {"body"} : pc' = [pc EXCEPT ![w] = y]
      BY DEF PutOpen, At, To, Ends
    <3> QED
      BY <3>1, EntryTyped DEF FilesInv, WorkerTypes
  <2>2. status' \in [Workers -> Codes]
    <3>1. status' = status \/ \E y \in {206} : status' = [status EXCEPT ![w] = y]
      BY DEF PutOpen, At, To, Status, Ends
    <3>2. {206} \subseteq Codes
      BY DEF Codes
    <3>3. status \in [Workers -> Codes]
      BY DEF FilesInv, WorkerTypes
    <3>4. status' = status \/ \E y \in Codes : status' = [status EXCEPT ![w] = y]
      BY <3>1, <3>2
    <3> QED
      BY <3>3, <3>4, EntryTyped
  <2>3. /\ req' \in [Workers -> Asked \cup {<<>>}] /\ st' \in [Workers -> Stats]
        /\ fp' \in [Workers -> 0 .. MaxRequests + 1] /\ seen' \in [Workers -> Seen]
    <3>1. f \in 0 .. MaxRequests + 1
      BY <1>2b, FilesAssumptionNat DEF Files
    <3>2. fp' = [fp EXCEPT ![w] = f]
      BY DEF PutOpen, f
    <3>3. fp' \in [Workers -> 0 .. MaxRequests + 1]
      BY <3>1, <3>2 DEF FilesInv, WorkerTypes
    <3> QED
      BY <3>3 DEF FilesInv, WorkerTypes, PutOpen
  <2>4. /\ cl' \in [Workers -> Int] /\ sent' \in [Workers -> Seq(Nat)]
        /\ taken' \in [Workers -> Nat] /\ stored' \in [Workers -> Nat]
        /\ excused' \in [Workers -> BOOLEAN]
    BY DEF FilesInv, WorkerTypes, PutOpen, Disturbs, respVars, bodyVars
  <2> QED
    BY <2>1, <2>2, <2>3, <2>4 DEF WorkerTypes
<1>5. CopyIsGood'
  <2> SUFFICES ASSUME cache # <<>>, ~ cache.racy
               PROVE  /\ cache.file.mtime < now
                      /\ ~ (mtime'[f] <= cache.file.mtime)
    BY <1>2 DEF CopyIsGood
  <2>1. cache.file.mtime \in Nat /\ now \in Nat
    BY DEF FilesInv, FileTypes, Copies, Stats
  <2>2. cache.file.mtime < now
    BY DEF FilesInv, CopyIsGood
  <2> QED
    BY <1>2c, <2>1, <2>2
<1>6. Steps(w)'
  BY <1>2, <1>2b DEF FilesInv, WorkerInv, Steps
<1>7. Knows(w)'
  BY <1>2 DEF FilesInv, WorkerInv, Knows
<1>8. Sends(w)'
  BY <1>2 DEF FilesInv, WorkerInv, Steps, Sends
<1>9. Stores(w)'
  <2>1. stored[w] = 0
    BY <1>2 DEF FilesInv, WorkerInv, Steps, WorkerTypes
  <2>2. Written(w)' = <<>>
    BY <1>2, <2>1 DEF Written
  <2> QED
    BY <1>2, <1>2b, <1>2c, <2>2 DEF Stores
<1>10. now <= now' /\ (dir => dir')
  BY DEF FilesInv, FileTypes, PutOpen, At, To, Status, Ends, Disturbs, fileVars, respVars, bodyVars, ghosts
<1> QED
  BY <1>1, <1>3, <1>4, <1>5, <1>6, <1>7, <1>8, <1>9, <1>10, OneWorker DEF WorkerInv

LEMMA TakeKeeps ==
  ASSUME FilesAssumption, FilesInv, NEW w \in Workers, Take(w)
  PROVE  FilesInv'
<1> USE DEF fileVars, respVars, bodyVars, ghosts
<1>1. \A v \in Workers \ {w} : Same(v) /\ FileStays(v)
  BY DEF FilesInv, WorkerTypes, Same, FileStays, Take, At, To, Status, Ends, Disturbs, fileVars, respVars, bodyVars, ghosts
<1>2. /\ pc[w] = "body"
      /\ UNCHANGED <<now, name, data, dir, mtime>>
      /\ \/ /\ taken[w] < req[w].body /\ taken'[w] = taken[w] + 1
            /\ pc'[w] = pc[w] /\ status'[w] = status[w]
         \/ pc'[w] = "close" /\ status'[w] = 577 /\ taken'[w] = taken[w]
         \/ /\ taken[w] = req[w].body /\ taken'[w] = taken[w]
            /\ pc'[w] = "close" /\ status'[w] = status[w]
      /\ req'[w] = req[w] /\ st'[w] = st[w] /\ fp'[w] = fp[w] /\ cl'[w] = cl[w] /\ sent'[w] = sent[w]
      /\ stored'[w] = stored[w] /\ seen'[w] = seen[w] /\ excused'[w] = excused[w]
  BY DEF FilesInv, WorkerTypes, Take, At, To, Status, Ends, Disturbs,
     fileVars, respVars, bodyVars, ghosts
<1>3. FileTypes'
  BY FileStaysTyped DEF Take, At, To, Status, Ends, Disturbs, fileVars, respVars, bodyVars, ghosts
<1>4. WorkerTypes'
  <2>1. pc' \in [Workers -> {"idle", "dispatch", "remove", "open", "send", "put", "put_dir",
                         "mkdir", "put_open", "body", "close", "done"}]
    BY DEF FilesInv, WorkerTypes, Take, At, To
  <2>2. status' \in [Workers -> Codes]
    <3>1. status' = status \/ \E y \in {577} : status' = [status EXCEPT ![w] = y]
      BY DEF Take, At, To, Status, Ends
    <3>2. {577} \subseteq Codes
      BY DEF Codes
    <3>3. status \in [Workers -> Codes]
      BY DEF FilesInv, WorkerTypes
    <3>4. status' = status \/ \E y \in Codes : status' = [status EXCEPT ![w] = y]
      BY <3>1, <3>2
    <3> QED
      BY <3>3, <3>4, EntryTyped
  <2>3. /\ req' \in [Workers -> Asked \cup {<<>>}] /\ st' \in [Workers -> Stats]
        /\ fp' \in [Workers -> 0 .. MaxRequests + 1] /\ seen' \in [Workers -> Seen]
    BY DEF FilesInv, WorkerTypes, Take, At, To, Status, Ends, Disturbs, fileVars, respVars, bodyVars, ghosts
  <2>4. /\ cl' \in [Workers -> Int] /\ sent' \in [Workers -> Seq(Nat)]
        /\ taken' \in [Workers -> Nat] /\ stored' \in [Workers -> Nat]
        /\ excused' \in [Workers -> BOOLEAN]
    BY DEF FilesInv, WorkerTypes, Take, bodyVars, respVars, ghosts
  <2> QED
    BY <2>1, <2>2, <2>3, <2>4 DEF WorkerTypes
<1>5. CopyIsGood'
  BY CopyStays DEF Take, At, To, Status, Ends, Disturbs, fileVars, respVars, bodyVars, ghosts
<1>6. Steps(w)'
  <2>1. req[w].method = "PUT" /\ taken[w] <= req[w].body /\ stored[w] <= taken[w]
    BY <1>2 DEF FilesInv, WorkerInv, Steps
  <2>2. taken[w] \in Nat /\ stored[w] \in Nat /\ req[w].body \in 1 .. MaxBody /\ MaxBody \in Nat
    BY <1>2, Asks, FilesAssumptionNat DEF FilesInv, WorkerTypes
  <2>3. stored'[w] <= taken'[w] /\ taken'[w] <= req'[w].body /\ taken'[w] <= MaxBody
    BY <1>2, <2>1, <2>2
  <2> QED
    BY <1>2, <2>1, <2>3 DEF FilesInv, WorkerInv, Steps
<1>7. Knows(w)'
  BY <1>2, Asks DEF FilesInv, WorkerInv, Knows
<1>8. Sends(w)'
  BY <1>2, Asks DEF FilesInv, WorkerInv, Sends, Steps
<1>9. Stores(w)'
  <2>1. Written(w)' = Written(w)
    BY <1>2 DEF Written, R1, IsRange
  <2> QED
    BY <1>2, <2>1 DEF FilesInv, WorkerInv, Stores
<1>10. now <= now' /\ (dir => dir')
  BY DEF FilesInv, FileTypes, Take, At, To, Status, Ends, Disturbs, fileVars, respVars, bodyVars, ghosts
<1> QED
  BY <1>1, <1>3, <1>4, <1>5, <1>6, <1>7, <1>8, <1>9, <1>10, OneWorker DEF WorkerInv

LEMMA WriteKeeps ==
  ASSUME FilesAssumption, FilesInv, NEW w \in Workers, Write(w)
  PROVE  FilesInv'
<1> USE DEF fileVars, respVars, bodyVars, ghosts
<1>1. \A v \in Workers \ {w} : Same(v) /\ FileStays(v)
  BY DEF FilesInv, WorkerTypes, Same, FileStays, Write, Disturbs, respVars
<1> DEFINE f == fp[w]
           put == Put1(data[f], R1(w) + stored[w] + 1, req[w].mark)
<1>2. /\ pc[w] \in {"body", "close"} /\ pc' = pc /\ stored[w] < taken[w] /\ stored'[w] = stored[w] + 1
      /\ UNCHANGED <<now, requests, dir, name, cache>>
      /\ data' = [data EXCEPT ![f] = put] /\ mtime' = [mtime EXCEPT ![f] = now]
      /\ req'[w] = req[w] /\ st'[w] = st[w] /\ fp'[w] = fp[w] /\ cl'[w] = cl[w] /\ sent'[w] = sent[w]
      /\ status'[w] = status[w] /\ taken'[w] = taken[w] /\ seen'[w] = seen[w] /\ excused'[w] = excused[w]
  BY DEF FilesInv, WorkerTypes, Write, Disturbs, respVars
<1>2a. f \in Files /\ f # 0
  BY <1>2, FilesAssumptionNat DEF FilesInv, WorkerInv, Steps, WorkerTypes, Files
<1>2b. /\ stored[w] \in Nat /\ taken[w] \in Nat /\ R1(w) \in Nat
       /\ req[w].mark \in Nat /\ data[f] \in Seq(Nat)
  <2>1. R1(w) \in Nat /\ req[w].mark \in 1 .. MaxRequests /\ MaxRequests \in Nat
    BY <1>2, Asks, FilesAssumptionNat
  <2>2. stored[w] \in Nat /\ taken[w] \in Nat
    BY DEF FilesInv, WorkerTypes
  <2>3. data[f] \in Seq(Nat)
    BY <1>2a DEF FilesInv, FileTypes
  <2> QED
    BY <2>1, <2>2, <2>3
<1>2c. put \in Seq(Nat)
  <2>1. R1(w) + stored[w] \in Nat
    BY <1>2b
  <2> QED
    BY <1>2b, <2>1, PutTyped
<1>2d. data'[f] = put /\ mtime'[f] = now
  BY <1>2, <1>2a DEF FilesInv, FileTypes
<1>2e. req[w].method = "PUT"
  <2>1. taken[w] # 0 /\ pc[w] # "idle"
    BY <1>2, <1>2b
  <2> QED
    BY <2>1 DEF FilesInv, WorkerInv, Steps
<1> HIDE DEF f, put
<1>3. FileTypes'
  <2>1. data' \in [Files -> Seq(Nat)] /\ mtime' \in [Files -> Nat]
    BY <1>2, <1>2a, <1>2c DEF FilesInv, FileTypes
  <2>2. \A g \in Files : 1 <= mtime'[g] /\ mtime'[g] <= now
    BY <1>2, <1>2a DEF FilesInv, FileTypes
  <2> QED
    BY <1>2, <2>1, <2>2 DEF FilesInv, FileTypes
<1>4. WorkerTypes'
  <2>1. pc' \in [Workers -> {"idle", "dispatch", "remove", "open", "send", "put", "put_dir",
                         "mkdir", "put_open", "body", "close", "done"}]
    BY DEF FilesInv, WorkerTypes, Write
  <2>2. status' \in [Workers -> Codes]
    BY DEF FilesInv, WorkerTypes, Write, respVars
  <2>3. /\ req' \in [Workers -> Asked \cup {<<>>}] /\ st' \in [Workers -> Stats]
        /\ fp' \in [Workers -> 0 .. MaxRequests + 1] /\ seen' \in [Workers -> Seen]
    BY DEF FilesInv, WorkerTypes, Write
  <2>4. /\ cl' \in [Workers -> Int] /\ sent' \in [Workers -> Seq(Nat)]
        /\ taken' \in [Workers -> Nat] /\ stored' \in [Workers -> Nat]
        /\ excused' \in [Workers -> BOOLEAN]
    BY DEF FilesInv, WorkerTypes, Write, Disturbs, respVars
  <2> QED
    BY <2>1, <2>2, <2>3, <2>4 DEF WorkerTypes
<1>5. CopyIsGood'
  <2> SUFFICES ASSUME cache # <<>>, ~ cache.racy
               PROVE  /\ cache.file.mtime < now
                      /\ (name # 0 /\ mtime'[name] <= cache.file.mtime) => data'[name] = cache.content
    BY <1>2 DEF CopyIsGood
  <2>1. cache.file.mtime \in Nat /\ now \in Nat
    BY DEF FilesInv, FileTypes, Copies, Stats
  <2>2. cache.file.mtime < now
    BY DEF FilesInv, CopyIsGood
  <2>3. CASE name = f
    BY <1>2d, <2>1, <2>2, <2>3
  <2>4. CASE name # f /\ name # 0
    <3>1. name \in Files
      BY <2>4, FilesAssumptionNat DEF FilesInv, FileTypes, Files
    <3>2. data'[name] = data[name] /\ mtime'[name] = mtime[name]
      BY <1>2, <2>4, <3>1 DEF FilesInv, FileTypes
    <3> QED
      BY <2>2, <3>2 DEF FilesInv, CopyIsGood
  <2> QED
    BY <2>2, <2>3, <2>4
<1>6. Steps(w)'
  <2>1. stored'[w] <= taken'[w]
    BY <1>2, <1>2b
  <2> QED
    BY <1>2, <1>2e, <2>1 DEF FilesInv, WorkerInv, Steps
<1>7. Knows(w)'
  BY <1>2 DEF FilesInv, WorkerInv, Knows
<1>8. Sends(w)'
  BY <1>2, <1>2e DEF Sends
<1>9. Stores(w)'
  <2> SUFFICES ASSUME ~ excused[w] PROVE Stores(w)'
    BY <1>2 DEF Stores
  <2>1. f = name /\ name # 0 /\ data[name] = Written(w)
    BY <1>2, <1>2e DEF FilesInv, WorkerInv, Stores, f
  <2>2. Written(w)' = put
    <3>1. Written(w)' = [i \in 1 .. R1(w) + (stored[w] + 1) |-> IF i <= R1(w) THEN 0 ELSE req[w].mark]
      BY <1>2, <1>2b DEF Written, R1, IsRange
    <3>2. put = Put1(Written(w), R1(w) + stored[w] + 1, req[w].mark)
      BY <2>1 DEF put
    <3>3. Written(w) = IF stored[w] = 0 THEN <<>>
                       ELSE [i \in 1 .. R1(w) + stored[w] |-> IF i <= R1(w) THEN 0 ELSE req[w].mark]
      BY DEF Written
    <3> DEFINE r == R1(w)
               k == stored[w]
               mark == req[w].mark
               s == Written(w)
    <3>4. Put1(s, r + k + 1, mark) = [i \in 1 .. r + (k + 1) |-> IF i <= r THEN 0 ELSE mark]
      <4>1. r \in Nat /\ k \in Nat /\ mark \in Nat
        BY <1>2b
      <4>2. s = IF k = 0 THEN <<>> ELSE [i \in 1 .. r + k |-> IF i <= r THEN 0 ELSE mark]
        BY <3>3
      <4> HIDE DEF r, k, mark, s
      <4> QED
        BY <4>1, <4>2, PutAppends
    <3> QED
      BY <3>1, <3>2, <3>4
  <2>3. data'[name'] = Written(w)' /\ fp'[w] = name'
    BY <1>2, <1>2d, <2>1, <2>2 DEF f
  <2> HIDE DEF fileVars, respVars, bodyVars, ghosts
  <2> QED
    BY <1>2, <1>2e, <2>1, <2>3 DEF FilesInv, WorkerInv, Stores
<1>10. now <= now' /\ (dir => dir')
  BY DEF FilesInv, FileTypes, Write, At, To, Status, Ends, Disturbs, fileVars, respVars, bodyVars, ghosts
<1> QED
  BY <1>1, <1>3, <1>4, <1>5, <1>6, <1>7, <1>8, <1>9, <1>10, OneWorker DEF WorkerInv

LEMMA CloseKeeps ==
  ASSUME FilesAssumption, FilesInv, NEW w \in Workers, Close(w)
  PROVE  FilesInv'
<1> USE DEF fileVars, respVars, bodyVars, ghosts
<1>1. \A v \in Workers \ {w} : Same(v) /\ FileStays(v)
  BY DEF FilesInv, WorkerTypes, Same, FileStays, Close, At, To, Status, Ends, Disturbs, fileVars, respVars, bodyVars, ghosts
<1>2. /\ pc[w] = "close" /\ pc'[w] = "done" /\ stored[w] = taken[w] /\ fp'[w] = 0
      /\ UNCHANGED <<now, name, data, dir, mtime>>
      /\ req'[w] = req[w] /\ st'[w] = st[w] /\ cl'[w] = cl[w] /\ sent'[w] = sent[w] /\ status'[w] = status[w]
      /\ taken'[w] = taken[w] /\ stored'[w] = stored[w] /\ seen'[w] = seen[w] /\ excused'[w] = excused[w]
  BY DEF FilesInv, WorkerTypes, Close, At, To, Status, Ends, Disturbs,
     fileVars, respVars, bodyVars, ghosts
<1>3. FileTypes'
  BY FileStaysTyped DEF Close, At, To, Status, Ends, Disturbs, fileVars, respVars, bodyVars, ghosts
<1>4. WorkerTypes'
  <2>1. pc' \in [Workers -> {"idle", "dispatch", "remove", "open", "send", "put", "put_dir",
                         "mkdir", "put_open", "body", "close", "done"}]
    BY DEF FilesInv, WorkerTypes, Close, At, To, Status, Ends, Disturbs, fileVars, respVars, bodyVars, ghosts
  <2>2. status' \in [Workers -> Codes]
    BY DEF FilesInv, WorkerTypes, Codes, Close, At, To, Status, Ends, Disturbs, fileVars, respVars, bodyVars, ghosts
  <2>3. /\ req' \in [Workers -> Asked \cup {<<>>}] /\ st' \in [Workers -> Stats]
        /\ fp' \in [Workers -> 0 .. MaxRequests + 1] /\ seen' \in [Workers -> Seen]
    <3>1. fp' = [fp EXCEPT ![w] = 0] /\ 0 \in 0 .. MaxRequests + 1
      BY FilesAssumptionNat DEF Close
    <3>2. fp' \in [Workers -> 0 .. MaxRequests + 1]
      BY <3>1 DEF FilesInv, WorkerTypes
    <3> QED
      BY <3>2 DEF FilesInv, WorkerTypes, Close
  <2>4. /\ cl' \in [Workers -> Int] /\ sent' \in [Workers -> Seq(Nat)]
        /\ taken' \in [Workers -> Nat] /\ stored' \in [Workers -> Nat]
        /\ excused' \in [Workers -> BOOLEAN]
    BY DEF FilesInv, WorkerTypes, Close, At, To, Status, Ends, Disturbs, fileVars, respVars, bodyVars, ghosts
  <2> QED
    BY <2>1, <2>2, <2>3, <2>4 DEF WorkerTypes
<1>5. CopyIsGood'
  BY CopyStays DEF Close, At, To, Status, Ends, Disturbs, fileVars, respVars, bodyVars, ghosts
<1>6. Steps(w)'
  BY <1>2, Asks DEF FilesInv, WorkerInv, Steps
<1>7. Knows(w)'
  BY <1>2, Asks DEF FilesInv, WorkerInv, Knows
<1>8. Sends(w)'
  <2>1. /\ From(w)' = From(w) /\ IsRange(w)' = IsRange(w) /\ ContentLength(w)' = ContentLength(w)
    BY <1>2 DEF From, R1, IsRange, ContentLength
  <2> HIDE DEF fileVars, respVars, bodyVars, ghosts
  <2> QED
    BY <1>2, <2>1 DEF FilesInv, WorkerInv, Sends
<1>9. Stores(w)'
  <2>1. Written(w)' = Written(w)
    BY <1>2 DEF Written, R1, IsRange
  <2> QED
    BY <1>2, <2>1 DEF FilesInv, WorkerInv, Stores
<1>10. now <= now' /\ (dir => dir')
  BY DEF FilesInv, FileTypes, Close, At, To, Status, Ends, Disturbs, fileVars, respVars, bodyVars, ghosts
<1> QED
  BY <1>1, <1>3, <1>4, <1>5, <1>6, <1>7, <1>8, <1>9, <1>10, OneWorker DEF WorkerInv

LEMMA WriteFailsKeeps ==
  ASSUME FilesAssumption, FilesInv, NEW w \in Workers, WriteFails(w)
  PROVE  FilesInv'
<1> USE DEF fileVars, respVars, bodyVars, ghosts
<1>1. \A v \in Workers \ {w} : Same(v) /\ FileStays(v)
  BY DEF FilesInv, WorkerTypes, Same, FileStays, WriteFails, At, To, Status
<1>2. /\ pc[w] \in {"body", "close"} /\ pc'[w] = "close" /\ stored[w] < taken[w]
      /\ stored'[w] = taken[w] /\ status'[w] \in {577, status[w]}
      /\ UNCHANGED <<now, name, data, dir, mtime>>
      /\ req'[w] = req[w] /\ st'[w] = st[w] /\ fp'[w] = fp[w] /\ cl'[w] = cl[w]
      /\ sent'[w] = sent[w] /\ taken'[w] = taken[w] /\ seen'[w] = seen[w]
  BY DEF FilesInv, WorkerTypes, WriteFails, At, To, Status
<1>2a. excused'[w]
  BY DEF FilesInv, WorkerTypes, WriteFails
<1>2b. req[w].method = "PUT" /\ taken[w] \in Nat
  <2>1. stored[w] \in Nat /\ taken[w] \in Nat
    BY DEF FilesInv, WorkerTypes
  <2>2. taken[w] # 0 /\ pc[w] # "idle"
    BY <1>2, <2>1
  <2> QED
    BY <2>1, <2>2 DEF FilesInv, WorkerInv, Steps
<1>3. FileTypes'
  BY FileStaysTyped DEF WriteFails
<1>4. WorkerTypes'
  <2>1. pc' \in [Workers -> {"idle", "dispatch", "remove", "open", "send", "put", "put_dir",
                         "mkdir", "put_open", "body", "close", "done"}]
    BY DEF FilesInv, WorkerTypes, WriteFails, To
  <2>2. status' \in [Workers -> Codes]
    <3>1. status' = status \/ \E y \in Codes : status' = [status EXCEPT ![w] = y]
      BY DEF WriteFails, Status, Codes
    <3> QED
      BY <3>1, EntryTyped DEF FilesInv, WorkerTypes
  <2>3. /\ req' \in [Workers -> Asked \cup {<<>>}] /\ st' \in [Workers -> Stats]
        /\ fp' \in [Workers -> 0 .. MaxRequests + 1] /\ seen' \in [Workers -> Seen]
    BY DEF FilesInv, WorkerTypes, WriteFails
  <2>4. /\ cl' \in [Workers -> Int] /\ sent' \in [Workers -> Seq(Nat)]
        /\ taken' \in [Workers -> Nat] /\ stored' \in [Workers -> Nat]
    BY DEF FilesInv, WorkerTypes, WriteFails
  <2>5. excused' \in [Workers -> BOOLEAN]
    BY DEF FilesInv, WorkerTypes, WriteFails
  <2> QED
    BY <2>1, <2>2, <2>3, <2>4, <2>5 DEF WorkerTypes
<1>5. CopyIsGood'
  BY CopyStays DEF WriteFails
<1>6. Steps(w)'
  BY <1>2, <1>2b, Asks DEF FilesInv, WorkerInv, Steps
<1>7. Knows(w)'
  <2>1. status'[w] # 304
    BY <1>2 DEF FilesInv, WorkerInv, Knows
  <2> QED
    BY <1>2, <2>1 DEF FilesInv, WorkerInv, Knows
<1>8. Sends(w)' /\ Stores(w)'
  BY <1>2a DEF Sends, Stores
<1>9. now <= now' /\ (dir => dir')
  BY <1>2 DEF FilesInv, FileTypes
<1> QED
  BY <1>1, <1>3, <1>4, <1>5, <1>6, <1>7, <1>8, <1>9, OneWorker DEF WorkerInv

LEMMA CallFailsKeeps ==
  ASSUME FilesAssumption, FilesInv, NEW w \in Workers, CallFails(w)
  PROVE  FilesInv'
<1> USE DEF fileVars, respVars, bodyVars, ghosts
<1>1. \A v \in Workers \ {w} : Same(v) /\ FileStays(v)
  BY DEF FilesInv, WorkerTypes, Same, FileStays, CallFails, Ends, To, Status
<1>2. /\ pc[w] \in {"open", "put_open", "mkdir", "remove"} /\ pc'[w] = "done"
      /\ status'[w] = 500
      /\ UNCHANGED <<now, name, data, dir, mtime>>
      /\ req'[w] = req[w] /\ st'[w] = st[w] /\ fp'[w] = fp[w] /\ cl'[w] = cl[w]
      /\ sent'[w] = sent[w] /\ taken'[w] = taken[w] /\ stored'[w] = stored[w]
      /\ seen'[w] = seen[w]
  BY DEF FilesInv, WorkerTypes, CallFails, Ends, To, Status
<1>2a. excused'[w]
  BY DEF FilesInv, WorkerTypes, CallFails
<1>3. FileTypes'
  BY FileStaysTyped DEF CallFails
<1>4. WorkerTypes'
  <2>1. pc' \in [Workers -> {"idle", "dispatch", "remove", "open", "send", "put", "put_dir",
                         "mkdir", "put_open", "body", "close", "done"}]
    BY DEF FilesInv, WorkerTypes, CallFails, Ends, To
  <2>2. status' \in [Workers -> Codes]
    BY DEF FilesInv, WorkerTypes, Codes, CallFails, Ends, Status
  <2>3. /\ req' \in [Workers -> Asked \cup {<<>>}] /\ st' \in [Workers -> Stats]
        /\ fp' \in [Workers -> 0 .. MaxRequests + 1] /\ seen' \in [Workers -> Seen]
    BY DEF FilesInv, WorkerTypes, CallFails
  <2>4. /\ cl' \in [Workers -> Int] /\ sent' \in [Workers -> Seq(Nat)]
        /\ taken' \in [Workers -> Nat] /\ stored' \in [Workers -> Nat]
    BY DEF FilesInv, WorkerTypes, CallFails
  <2>5. excused' \in [Workers -> BOOLEAN]
    BY DEF FilesInv, WorkerTypes, CallFails
  <2> QED
    BY <2>1, <2>2, <2>3, <2>4, <2>5 DEF WorkerTypes
<1>5. CopyIsGood'
  BY CopyStays DEF CallFails
<1>6. Steps(w)'
  BY <1>2, Asks DEF FilesInv, WorkerInv, Steps
<1>7. Knows(w)'
  BY <1>2 DEF FilesInv, WorkerInv, Knows
<1>8. Sends(w)' /\ Stores(w)'
  BY <1>2a DEF Sends, Stores
<1>9. now <= now' /\ (dir => dir')
  BY <1>2 DEF FilesInv, FileTypes
<1> QED
  BY <1>1, <1>3, <1>4, <1>5, <1>6, <1>7, <1>8, <1>9, OneWorker DEF WorkerInv

LEMMA BeginKeeps ==
  ASSUME FilesAssumption, FilesInv, NEW w \in Workers, Begin(w)
  PROVE  FilesInv'
<1> USE DEF fileVars, respVars, bodyVars, ghosts
<1>1. \A v \in Workers \ {w} : Same(v) /\ FileStays(v)
  BY DEF FilesInv, WorkerTypes, Same, FileStays, Begin, At, To, Status, Ends, Disturbs, fileVars, respVars, bodyVars, ghosts
<1>2. PICK q \in Asked :
        /\ pc[w] = "idle" /\ pc' = [pc EXCEPT ![w] = "dispatch"] /\ requests' = requests + 1
        /\ requests < MaxRequests
        /\ req' = [req EXCEPT ![w] = q] /\ q.cached \in {<<>>, cache}
  <2>1. PICK m \in Methods, r \in Ranges, g \in Packed, b \in 1 .. MaxBody, c \in {<<>>, cache} :
          req' = [req EXCEPT ![w] = [method |-> m, range |-> r, gzipped |-> g,
                            body |-> b, cached |-> c, mark |-> requests + 1]]
    BY DEF Begin
  <2>2. c \in Copies \cup {<<>>}
    BY DEF FilesInv, FileTypes
  <2>3. requests + 1 \in 1 .. MaxRequests
    BY FilesAssumptionNat DEF Begin, FilesInv, FileTypes
  <2>4. [method |-> m, range |-> r, gzipped |-> g, body |-> b, cached |-> c, mark |-> requests + 1]
          \in Asked
    BY <2>2, <2>3 DEF Asked
  <2> QED
    BY <2>1, <2>4 DEF Begin, At, To
<1>2a. /\ pc'[w] = "dispatch" /\ req'[w] = q
       /\ UNCHANGED <<now, dir, name, data, mtime, cache>>
       /\ st'[w] = (IF name = 0 THEN [size |-> 0, mtime |-> 0]
                     ELSE [size |-> Len(data[name]), mtime |-> mtime[name]])
       /\ seen'[w] = (IF name = 0 THEN [content |-> <<>>, racy |-> FALSE]
                     ELSE [content |-> data[name], racy |-> mtime[name] = now])
       /\ excused'[w] = FALSE /\ fp'[w] = 0 /\ cl'[w] = 0 /\ sent'[w] = <<>> /\ status'[w] = 0
       /\ taken'[w] = 0 /\ stored'[w] = 0
  BY <1>2 DEF FilesInv, WorkerTypes, Begin, Status
<1>2b. name # 0 => /\ name \in Files /\ data[name] \in Seq(Nat) /\ Len(data[name]) \in Nat
                   /\ mtime[name] \in Nat /\ 1 <= mtime[name] /\ mtime[name] <= now
  <2>1. ASSUME name # 0 PROVE name \in Files
    BY <2>1, FilesAssumptionNat DEF FilesInv, FileTypes, Files
  <2> QED
    BY <2>1 DEF FilesInv, FileTypes
<1>2c. now \in Nat
  BY FilesAssumptionNat DEF FilesInv, FileTypes
<1>3. FileTypes'
  BY <1>2, <1>2a, FilesAssumptionNat DEF FilesInv, FileTypes
<1>4. WorkerTypes'
  <2>1. pc' \in [Workers -> {"idle", "dispatch", "remove", "open", "send", "put", "put_dir",
                         "mkdir", "put_open", "body", "close", "done"}]
    BY DEF FilesInv, WorkerTypes, Begin, At, To, Status, Ends, Disturbs, fileVars, respVars, bodyVars, ghosts
  <2>2. status' \in [Workers -> Codes]
    BY DEF FilesInv, WorkerTypes, Codes, Begin, At, To, Status, Ends, Disturbs, fileVars, respVars, bodyVars, ghosts
  <2>3. /\ req' \in [Workers -> Asked \cup {<<>>}] /\ st' \in [Workers -> Stats]
        /\ fp' \in [Workers -> 0 .. MaxRequests + 1] /\ seen' \in [Workers -> Seen]
    <3>1. req' \in [Workers -> Asked \cup {<<>>}]
      BY <1>2 DEF FilesInv, WorkerTypes
    <3>2. st'[w] \in Stats /\ seen'[w] \in Seen
      BY <1>2a, <1>2b DEF Stats, Seen
    <3>3. st' = [st EXCEPT ![w] = st'[w]] /\ seen' = [seen EXCEPT ![w] = seen'[w]]
      BY <1>2a DEF Begin
    <3>4. st' \in [Workers -> Stats] /\ seen' \in [Workers -> Seen]
      BY <3>2, <3>3 DEF FilesInv, WorkerTypes
    <3>5. fp' \in [Workers -> 0 .. MaxRequests + 1]
      <4>1. fp' = [fp EXCEPT ![w] = 0] /\ 0 \in 0 .. MaxRequests + 1
        BY FilesAssumptionNat DEF Begin
      <4> QED
        BY <4>1 DEF FilesInv, WorkerTypes
    <3> QED
      BY <3>1, <3>4, <3>5
  <2>4. /\ cl' \in [Workers -> Int] /\ sent' \in [Workers -> Seq(Nat)]
        /\ taken' \in [Workers -> Nat] /\ stored' \in [Workers -> Nat]
        /\ excused' \in [Workers -> BOOLEAN]
    BY DEF FilesInv, WorkerTypes, Begin, At, To, Status, Ends, Disturbs, fileVars, respVars, bodyVars, ghosts
  <2> QED
    BY <2>1, <2>2, <2>3, <2>4 DEF WorkerTypes
<1>5. CopyIsGood'
  BY CopyStays DEF Begin, At, To, Status, Ends, Disturbs, fileVars, respVars, bodyVars, ghosts
<1>6. Steps(w)'
  BY <1>2, <1>2a, FilesAssumptionNat DEF FilesInv, WorkerTypes, Steps, Asked
<1>7. Knows(w)'
  <2>1. ~ seen'[w].racy => st'[w].mtime < now
    BY <1>2a, <1>2b, <1>2c, FilesAssumptionNat DEF FilesInv, FileTypes
  <2>2. st'[w].mtime # 0 => st'[w].size = Len(seen'[w].content)
    BY <1>2a
  <2>3. ASSUME st'[w].mtime # 0, q.cached # <<>>, st'[w].mtime <= q.cached.file.mtime
        PROVE  q.cached.racy \/ q.cached.content = seen'[w].content
    <3>1. q.cached = cache /\ name # 0 /\ st'[w].mtime = mtime[name]
          /\ seen'[w].content = data[name]
      BY <1>2, <1>2a, <2>3
    <3> QED
      BY <2>3, <3>1 DEF FilesInv, CopyIsGood
  <2> QED
    BY <1>2a, <2>1, <2>2, <2>3 DEF Knows
<1>8. Sends(w)'
  BY <1>2a, <1>2b DEF Sends
<1>9. Stores(w)'
  BY <1>2a DEF Stores
<1>10. now <= now' /\ (dir => dir')
  BY DEF FilesInv, FileTypes, Begin, At, To, Status, Ends, Disturbs, fileVars, respVars, bodyVars, ghosts
<1> QED
  BY <1>1, <1>3, <1>4, <1>5, <1>6, <1>7, <1>8, <1>9, <1>10, OneWorker DEF WorkerInv

LEMMA TickKeeps ==
  ASSUME FilesAssumption, FilesInv, Tick
  PROVE  FilesInv'
<1> USE DEF fileVars, respVars, bodyVars, ghosts
<1>1. FileTypes' /\ now <= now'
  <2>1. now \in Nat /\ LastTime \in Nat /\ \A f \in Files : mtime[f] \in Nat
    BY FilesAssumptionNat DEF FilesInv, FileTypes
  <2> QED
    BY <2>1 DEF FilesInv, FileTypes, Tick
<1>2. WorkerTypes'
  BY DEF FilesInv, WorkerTypes, Tick
<1>3. CopyIsGood'
  <2> SUFFICES ASSUME cache # <<>>, ~ cache.racy
               PROVE  cache.file.mtime < now'
    BY DEF FilesInv, CopyIsGood, Tick
  <2>1. cache.file.mtime \in Nat /\ now \in Nat
    BY FilesAssumptionNat DEF FilesInv, FileTypes, Copies, Stats
  <2> QED
    BY <2>1 DEF FilesInv, CopyIsGood, Tick
<1>4. ASSUME NEW v \in Workers PROVE WorkerInv(v)'
  <2>1. Same(v) /\ FileStays(v) /\ (dir => dir')
    BY DEF Tick, Same, FileStays
  <2> QED
    BY <1>1, <2>1, Undisturbed DEF FilesInv
<1> QED
  BY <1>1, <1>2, <1>3, <1>4 DEF FilesInv

LEMMA InitHolds == ASSUME FilesAssumption, Init PROVE FilesInv
<1>1. FileTypes
  <2>1. MaxRequests \in Nat /\ LastTime \in Nat \ {0, 1} /\ Original \in Seq(Nat)
    BY DEF FilesAssumption
  <2>2. data \in [Files -> Seq(Nat)] /\ mtime \in [Files -> Nat]
        /\ \A f \in Files : mtime[f] = 1
    BY <2>1 DEF Init
  <2>3. /\ now = 2 /\ now \in 1 .. LastTime /\ requests \in 0 .. MaxRequests
        /\ dir \in BOOLEAN /\ name \in 0 .. MaxRequests + 1 /\ (name # 0 => dir)
        /\ cache = <<>>
    BY <2>1 DEF Init
  <2> QED
    BY <2>2, <2>3 DEF FileTypes
<1>2. WorkerTypes
  BY FilesAssumptionNat DEF Init, WorkerTypes, Codes, Stats, Seen
<1>3. CopyIsGood
  BY DEF Init, CopyIsGood
<1>4. ASSUME NEW w \in Workers PROVE WorkerInv(w)
  <2>1. /\ pc[w] = "idle" /\ sent[w] = <<>> /\ taken[w] = 0 /\ stored[w] = 0 /\ status[w] = 0
    BY DEF Init
  <2>2. MaxBody \in Nat
    BY FilesAssumptionNat
  <2> QED
    BY <2>1, <2>2 DEF WorkerInv, Steps, Knows, Sends, Stores
<1> QED
  BY <1>1, <1>2, <1>3, <1>4 DEF FilesInv

LEMMA StutterKeeps == ASSUME FilesInv, UNCHANGED vars PROVE FilesInv'
<1> USE DEF vars, fileVars, respVars, bodyVars, ghosts
<1>1. FileTypes' /\ WorkerTypes' /\ CopyIsGood' /\ now <= now' /\ (dir => dir')
  BY DEF FilesInv, FileTypes, WorkerTypes, CopyIsGood
<1>2. \A v \in Workers : Same(v) /\ FileStays(v)
  BY DEF Same, FileStays
<1> QED
  BY <1>1, <1>2, Undisturbed DEF FilesInv

LEMMA NextKeeps == ASSUME FilesAssumption, FilesInv, [Next]_vars PROVE FilesInv'
<1>1. CASE UNCHANGED vars
  BY <1>1, StutterKeeps
<1>2. CASE Tick
  BY <1>2, TickKeeps
<1>3. ASSUME NEW w \in Workers,
             \/ Begin(w) \/ Dispatch(w) \/ Remove(w) \/ Done(w) \/ Open(w) \/ Send(w)
             \/ Put(w) \/ PutDir(w) \/ MkDir(w) \/ PutOpen(w) \/ Take(w) \/ Write(w) \/ Close(w)
             \/ WriteFails(w) \/ CallFails(w)
      PROVE  FilesInv'
  BY <1>3, BeginKeeps, DispatchKeeps, RemoveKeeps, DoneKeeps, OpenKeeps, SendKeeps, PutKeeps,
     PutDirKeeps, MkDirKeeps, PutOpenKeeps, TakeKeeps, WriteKeeps, CloseKeeps,
     WriteFailsKeeps, CallFailsKeeps
<1> QED
  BY <1>1, <1>2, <1>3 DEF Next

LEMMA FilesInvariant == ASSUME FilesAssumption PROVE Spec => []FilesInv
<1>1. Init => FilesInv
  BY InitHolds
<1>2. FilesInv /\ [Next]_vars => FilesInv'
  BY NextKeeps
<1> QED
  BY <1>1, <1>2, PTL DEF Spec

-----------------------------------------------------------------------------
(* The theorems.                                                           *)

\* The types follow from what is known of each worker.
LEMMA TypesHold == ASSUME FilesAssumption, FilesInv PROVE TypeOK
<1>1. ASSUME NEW w \in Workers
      PROVE  /\ fp[w] \in 0 .. MaxRequests + 1 /\ (pc[w] \in {"send", "body"} => fp[w] # 0)
             /\ status[w] \in {0, 200, 201, 206, 304, 404, 500, 501, 577}
             /\ stored[w] <= taken[w] /\ taken[w] <= MaxBody
             /\ Len(sent[w]) <= cl[w] \/ sent[w] = <<>>
  BY DEF FilesInv, WorkerTypes, WorkerInv, Steps, Codes
<1> QED
  BY <1>1 DEF FilesInv, FileTypes, TypeOK

(***************************************************************************)
(* The variables keep their types, the name is that of a file in a         *)
(* directory that is there, and no file is from the future.                *)
(***************************************************************************)
THEOREM TypeCorrect == ASSUME FilesAssumption PROVE Spec => []TypeOK
<1>1. FilesInv => TypeOK
  BY TypesHold
<1> QED
  BY <1>1, FilesInvariant, PTL

\* A request that is over has closed its file.
LEMMA ClosedHolds == ASSUME FilesAssumption, FilesInv PROVE FilesAreClosed
BY DEF FilesInv, WorkerInv, Steps, FilesAreClosed, At

(***************************************************************************)
(* Whatever becomes of a request, the file it opened is closed when it is  *)
(* over, but for a range of a gzipped file (mongoose.c 2884-2887, 2920,    *)
(* 3483, 3497).                                                            *)
(***************************************************************************)
THEOREM FilesClosed == ASSUME FilesAssumption PROVE Spec => []FilesAreClosed
<1>1. FilesInv => FilesAreClosed
  BY ClosedHolds
<1> QED
  BY <1>1, FilesInvariant, PTL

\* A part of a sequence by its entries.
LEMMA PieceOf ==
  ASSUME NEW s \in Seq(Nat), NEW r \in Nat, NEW n \in Nat, r + n <= Len(s)
  PROVE  /\ SubSeq(s, r + 1, r + n) \in Seq(Nat) /\ Len(SubSeq(s, r + 1, r + n)) = n
         /\ \A i \in 1 .. n : SubSeq(s, r + 1, r + n)[i] = s[r + i]
<1> DEFINE first == r + 1
           last == r + n
<1>1. first \in Int /\ last \in Int /\ last - first + 1 = n
      /\ (first <= last <=> n # 0)
  OBVIOUS
<1>2. \A i \in first .. last : s[i] \in Nat
  OBVIOUS
<1>3. \A i \in 1 .. n : first + i - 1 = r + i
  OBVIOUS
<1> HIDE DEF first, last
<1>4. /\ SubSeq(s, first, last) \in Seq(Nat)
      /\ Len(SubSeq(s, first, last)) = IF first <= last THEN last - first + 1 ELSE 0
      /\ \A i \in 1 .. last - first + 1 : SubSeq(s, first, last)[i] = s[first + i - 1]
  <2>1. \A i \in first .. last : s[i] \in Nat
    BY <1>2
  <2> QED
    BY <1>1, <2>1, SubSeqProperties, SMTT(30)
<1>5. Len(SubSeq(s, first, last)) = n
  BY <1>1, <1>4
<1>6. \A i \in 1 .. n : SubSeq(s, first, last)[i] = s[r + i]
  BY <1>1, <1>3, <1>4
<1> QED
  BY <1>4, <1>5, <1>6 DEF first, last

\* What was sent is what stat saw and the range asks for.
LEMMA SentHolds == ASSUME FilesAssumption, FilesInv PROVE SentAsAnnounced
<1> SUFFICES ASSUME NEW w \in Workers, ~ excused[w]
             PROVE  /\ Served(w) /\ Satisfiable(w) =>
                         /\ sent[w] = SubSeq(seen[w].content, R1(w) + 1, R1(w) + cl[w])
                         /\ Len(req[w].range) = 2 => cl[w] = req[w].range[2] - R1(w) + 1
                    /\ At(w, "done") /\ req[w].method \in {"GET", "HEAD"} => status[w] # 500
  BY DEF SentAsAnnounced
<1>1. At(w, "done") /\ req[w].method \in {"GET", "HEAD"} => status[w] # 500
  BY DEF FilesInv, WorkerInv, Sends, At
<1>2. ASSUME Served(w), Satisfiable(w)
      PROVE  /\ sent[w] = SubSeq(seen[w].content, R1(w) + 1, R1(w) + cl[w])
             /\ Len(req[w].range) = 2 => cl[w] = req[w].range[2] - R1(w) + 1
  <2> DEFINE r == req[w].range
             size == st[w].size
             s == seen[w].content
  <2>1. /\ pc[w] = "done" /\ req[w].method = "GET" /\ status[w] \in {200, 206}
    BY <1>2 DEF Served, At
  <2>2. /\ cl[w] = ContentLength(w)
        /\ From(w) + Len(sent[w]) <= Len(s)
        /\ \A i \in 1 .. Len(sent[w]) : sent[w][i] = s[From(w) + i]
        /\ Len(sent[w]) >= cl[w] \/ From(w) + Len(sent[w]) >= Len(s)
        /\ st[w].mtime # 0
    BY <2>1 DEF FilesInv, WorkerInv, Sends
  <2>3. size = Len(s) /\ size \in Nat /\ s \in Seq(Nat) /\ sent[w] \in Seq(Nat)
        /\ Len(sent[w]) \in Nat
    BY <2>1, <2>2 DEF FilesInv, WorkerInv, Knows, WorkerTypes, Stats, Seen
  <2>4. r \in Seq(Nat) /\ Len(r) \in Nat /\ Len(r) <= 2 /\ R1(w) \in Nat
        /\ (Len(r) # 0 => r[1] = R1(w)) /\ (Len(r) = 2 => r[2] \in Nat)
        /\ (Len(r) = 0 => R1(w) = 0)
    BY <2>1, Asks DEF R1, IsRange
  <2>5. /\ R1(w) <= size /\ cl[w] \in Nat /\ R1(w) + cl[w] <= size
        /\ Len(r) = 2 => cl[w] = r[2] - R1(w) + 1
    <3>1. CASE Len(r) = 2
      <4>1. r[1] <= r[2] /\ r[2] < size
        BY <1>2, <3>1 DEF Satisfiable
      <4>2. cl[w] = r[2] - r[1] + 1
        <5>1. cl[w] = (IF r[2] > size THEN size ELSE r[2]) - r[1] + 1
          BY <2>2, <3>1 DEF ContentLength
        <5> HIDE DEF r, size
        <5> QED
          BY <2>3, <2>4, <3>1, <4>1, <5>1
      <4>3. R1(w) = r[1] /\ R1(w) \in Nat /\ r[2] \in Nat /\ size \in Nat
        BY <2>3, <2>4, <3>1
      <4>4. /\ R1(w) <= size /\ cl[w] \in Nat /\ R1(w) + cl[w] <= size
            /\ cl[w] = r[2] - R1(w) + 1
        <5> HIDE DEF r, size
        <5> QED
          BY <4>1, <4>2, <4>3
      <4> QED
        BY <4>4
    <3>2. CASE Len(r) = 1
      <4>1. r[1] <= size
        BY <1>2, <3>2 DEF Satisfiable
      <4>2. cl[w] = size - r[1]
        BY <2>2, <3>2 DEF ContentLength
      <4>3. R1(w) = r[1] /\ R1(w) \in Nat /\ size \in Nat /\ Len(r) # 2
        BY <2>3, <2>4, <3>2
      <4> HIDE DEF r, size
      <4> QED
        BY <4>1, <4>2, <4>3
    <3>3. CASE Len(r) = 0
      <4>1. cl[w] = size
        BY <2>2, <3>3 DEF ContentLength
      <4>2. R1(w) = 0 /\ size \in Nat /\ Len(r) # 2
        BY <2>3, <2>4, <3>3
      <4>3. R1(w) <= size /\ cl[w] \in Nat /\ R1(w) + cl[w] <= size
        <5> HIDE DEF r, size
        <5> QED
          BY <4>1, <4>2
      <4> QED
        BY <4>2, <4>3, Zenon
    <3>4. Len(r) = 0 \/ Len(r) = 1 \/ Len(r) = 2
      <4>1. Len(r) \in Nat /\ Len(r) <= 2
        BY <2>4, Zenon
      <4>2. \A n \in Nat : n <= 2 => n = 0 \/ n = 1 \/ n = 2
        OBVIOUS
      <4> QED
        BY <4>1, <4>2, Zenon
    <3> QED
      BY <3>1, <3>2, <3>3, <3>4, Zenon
  <2>6. From(w) = R1(w)
    BY <2>3, <2>4, <2>5 DEF From
  <2>7. Len(sent[w]) = cl[w]
    <3>1. Len(sent[w]) <= cl[w] \/ sent[w] = <<>>
      BY DEF FilesInv, WorkerInv, Steps
    <3>2. Len(sent[w]) <= cl[w]
      BY <2>3, <2>5, <3>1
    <3>3. Len(sent[w]) >= cl[w] \/ R1(w) + Len(sent[w]) >= size
      BY <2>2, <2>3, <2>6
    <3>4. Len(sent[w]) \in Nat /\ cl[w] \in Nat /\ R1(w) \in Nat /\ size \in Nat
          /\ R1(w) + cl[w] <= size
      BY <2>3, <2>4, <2>5
    <3> HIDE DEF s, size
    <3> QED
      BY <3>2, <3>3, <3>4
  <2>8. sent[w] = SubSeq(s, R1(w) + 1, R1(w) + cl[w])
    <3> DEFINE t == SubSeq(s, R1(w) + 1, R1(w) + cl[w])
    <3> HIDE DEF s, size
    <3>1. t \in Seq(Nat) /\ Len(t) = cl[w] /\ \A i \in 1 .. cl[w] : t[i] = s[R1(w) + i]
      <4>1. s \in Seq(Nat) /\ R1(w) \in Nat /\ cl[w] \in Nat /\ R1(w) + cl[w] <= Len(s)
        BY <2>3, <2>4, <2>5
      <4> QED
        BY <4>1, PieceOf DEF t
    <3>2. \A i \in 1 .. Len(sent[w]) : sent[w][i] = t[i]
      BY <2>2, <2>6, <2>7, <3>1
    <3> HIDE DEF t
    <3>3. sent[w] = t
      BY <2>3, <2>7, <3>1, <3>2, SeqEqual
    <3> QED
      BY <3>3 DEF t
  <2> QED
    BY <2>5, <2>8
<1> QED
  BY <1>1, <1>2

(***************************************************************************)
(* A file that no other worker changed between stat and the last read is   *)
(* sent as its headers announced it, from any offset and of any length, in *)
(* one piece or in a thousand, unless fopen or fread fails or the client   *)
(* leaves (mongoose.c 2856-2919, 2788-2818).                               *)
(***************************************************************************)
THEOREM SentIsAnnounced == ASSUME FilesAssumption PROVE Spec => []SentAsAnnounced
<1>1. FilesInv => SentAsAnnounced
  BY SentHolds
<1> QED
  BY <1>1, FilesInvariant, PTL

\* The copy of a client that is told 304 is what stat saw.
LEMMA NotModifiedHolds == ASSUME FilesAssumption, FilesInv PROVE NotModifiedIsTrue
BY DEF FilesInv, WorkerInv, Knows, NotModifiedIsTrue, At

(***************************************************************************)
(* 304 is the truth: the copy it saves a client from loading again, if it  *)
(* was made in a later second than the file, is what stat saw of the file, *)
(* whoever has put or removed it before and since; but for the day that    *)
(* parse_date_string adds to a copy's date in January and February of a    *)
(* leap year (mongoose.c 3055-3063, 4301, 1895-1898).                      *)
(***************************************************************************)
THEOREM NotModifiedTrue == ASSUME FilesAssumption PROVE Spec => []NotModifiedIsTrue
<1>1. FilesInv => NotModifiedIsTrue
  BY NotModifiedHolds
<1> QED
  BY <1>1, FilesInvariant, PTL

\* A body that was taken is in the file.
LEMMA StoredHolds == ASSUME FilesAssumption, FilesInv PROVE PutIsStored
<1> SUFFICES ASSUME NEW w \in Workers, pc[w] = "done", req[w].method = "PUT",
                    status[w] \in {200, 201, 206}, ~ excused[w]
             PROVE  /\ name # 0
                    /\ data[name] = [i \in 1 .. R1(w) + req[w].body |->
                                       IF i <= R1(w) THEN 0 ELSE req[w].mark]
  BY DEF PutIsStored, At
<1>1. name # 0 /\ data[name] = Written(w) /\ stored[w] = req[w].body
  BY DEF FilesInv, WorkerInv, Stores
<1>2. stored[w] # 0
  BY <1>1, Asks
<1> QED
  BY <1>1, <1>2 DEF Written

(***************************************************************************)
(* A PUT that is answered as a success has left the file with its body,    *)
(* from where its range begins, if nobody else changed the file and the    *)
(* disk was not full: a write that fails is seen by the next piece of the  *)
(* body only, and fclose's failure by nobody (mongoose.c 3088-3107,        *)
(* 3475-3497).                                                             *)
(***************************************************************************)
THEOREM PutStored == ASSUME FilesAssumption PROVE Spec => []PutIsStored
<1>1. FilesInv => PutIsStored
  BY StoredHolds
<1> QED
  BY <1>1, FilesInvariant, PTL

=============================================================================
