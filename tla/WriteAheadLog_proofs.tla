------------------------- MODULE WriteAheadLog_proofs -------------------------
(***************************************************************************)
(* Proofs about the write-ahead log, for callers that rotate and prune     *)
(* with care and writes that are never torn: the log keeps its order and   *)
(* what an fsync covered.                                                  *)
(*                                                                         *)
(* The inductive invariant is about the pair of directory and writer, so   *)
(* that one lemma per half of append (rotate, write) can be composed.      *)
(***************************************************************************)
EXTENDS WriteAheadLog, TLAPS

Careful == ~TornWrites /\ ~AnyRotate /\ ~AnyPrune

Records == [sequence : Nat, operation : Operations, size : Sizes]

Segment == [entries : SUBSET Records, synced : SUBSET Records, torn : {{}}]

(* The directory: typed, nothing torn, segments in order and below the     *)
(* names that follow, and all but the last one synced.                     *)
GoodFiles(fs) ==
    /\ fs = [s \in DOMAIN fs |-> fs[s]]
    /\ DOMAIN fs \subseteq Nat
    /\ \A s \in DOMAIN fs :
         fs[s] \in Segment /\ fs[s].synced \subseteq fs[s].entries
    /\ \A s, t \in DOMAIN fs : s < t =>
         /\ fs[s].synced = fs[s].entries
         /\ \A e \in fs[s].entries : e.sequence < t
         /\ \A e \in fs[s].entries, f \in fs[t].entries : e.sequence < f.sequence

(* An open writer: at the last segment, its next number not below the      *)
(* segment's name and above every entry.                                   *)
GoodWriter(fs, w) ==
    /\ w \in [open : {TRUE}, start : Nat, next : Nat]
    /\ w.start \in DOMAIN fs /\ \A t \in DOMAIN fs : t <= w.start
    /\ w.start <= w.next
    /\ \A s \in DOMAIN fs : \A e \in fs[s].entries : e.sequence < w.next

OnDisk(fs, e) == \E s \in DOMAIN fs : e \in fs[s].entries

OnStable(fs, e) == \E s \in DOMAIN fs : e \in fs[s].synced

(* The promises: what is durable is synced, what is acknowledged is there. *)
Promises(fs, a, d, p) ==
    /\ \A e \in d : e \in Records /\ (e.sequence > p => OnStable(fs, e))
    /\ \A e \in a : e \in Records /\ (e.sequence > p => OnDisk(fs, e))

LogInv ==
    /\ GoodFiles(files)
    /\ writer.open \in BOOLEAN
    /\ writer.open => GoodWriter(files, writer)
    /\ Promises(files, acked, durable, pruned)
    /\ pruned \in Nat
-----------------------------------------------------------------------------
(* Syncing a segment keeps the directory's shape and loses nothing.        *)
LEMMA SyncGood ==
    ASSUME NEW fs, NEW s \in DOMAIN fs, GoodFiles(fs)
    PROVE  /\ GoodFiles(SyncFile(fs, s))
           /\ DOMAIN SyncFile(fs, s) = DOMAIN fs
           /\ \A t \in DOMAIN fs : SyncFile(fs, s)[t].entries = fs[t].entries
           /\ \A t \in DOMAIN fs : fs[t].synced \subseteq SyncFile(fs, s)[t].synced
           /\ SyncFile(fs, s)[s].synced = fs[s].entries
<1> DEFINE gs == SyncFile(fs, s)
<1>1. DOMAIN gs = DOMAIN fs /\ gs = [t \in DOMAIN gs |-> gs[t]]
  BY DEF SyncFile
<1>2. fs[s] \in Segment /\ fs[s].synced \subseteq fs[s].entries
  BY DEF GoodFiles
<1>3. gs[s] \in Segment /\ gs[s].entries = fs[s].entries /\ gs[s].synced = fs[s].entries
  BY <1>2 DEF SyncFile, Segment
<1>4. \A t \in DOMAIN fs : t # s => gs[t] = fs[t]
  BY DEF SyncFile
<1> HIDE DEF gs
<1>5. \A t \in DOMAIN fs :
        /\ gs[t] \in Segment /\ gs[t].synced \subseteq gs[t].entries
        /\ gs[t].entries = fs[t].entries /\ fs[t].synced \subseteq gs[t].synced
  BY <1>2, <1>3, <1>4 DEF GoodFiles
<1>6. \A u, t \in DOMAIN fs : u < t =>
         /\ gs[u].synced = gs[u].entries
         /\ \A e \in gs[u].entries : e.sequence < t
         /\ \A e \in gs[u].entries, f \in gs[t].entries : e.sequence < f.sequence
  BY <1>3, <1>4, <1>5 DEF GoodFiles
<1>7. GoodFiles(gs)
  BY <1>1, <1>5, <1>6 DEF GoodFiles
<1> QED BY <1>1, <1>3, <1>5, <1>7 DEF gs

(* rotate, when the new name is a new one.                                 *)
LEMMA RotateGood ==
    ASSUME NEW fs, NEW w, GoodFiles(fs), GoodWriter(fs, w), w.next # w.start
    PROVE  LET r == Rotated(fs, w)
           IN  /\ GoodFiles(r.files)
               /\ GoodWriter(r.files, r.writer)
               /\ r.writer.next = w.next
               /\ DOMAIN fs \subseteq DOMAIN r.files
               /\ \A t \in DOMAIN fs : r.files[t].entries = fs[t].entries
               /\ \A t \in DOMAIN fs : r.files[t].synced = fs[t].entries
               /\ \A t \in DOMAIN r.files : t \notin DOMAIN fs => r.files[t].entries = {}
<1> DEFINE g == SyncFile(fs, w.start)
           h == Create(g, w.next)
           v == [w EXCEPT !.start = w.next]
<1>0. w \in [open : {TRUE}, start : Nat, next : Nat] /\ w.start \in DOMAIN fs
  BY DEF GoodWriter
<1>1. /\ GoodFiles(g) /\ DOMAIN g = DOMAIN fs
      /\ \A t \in DOMAIN fs : g[t].entries = fs[t].entries
      /\ \A t \in DOMAIN fs : fs[t].synced \subseteq g[t].synced
      /\ g[w.start].synced = fs[w.start].entries
  BY <1>0, SyncGood
<1>2. \A t \in DOMAIN fs : t \in Nat /\ t <= w.start /\ t < w.next
  BY <1>0 DEF GoodWriter, GoodFiles
<1>4. Rotated(fs, w).files = h /\ Rotated(fs, w).writer = v
  BY DEF Rotated
<1>5. v \in [open : {TRUE}, start : Nat, next : Nat] /\ v.start = w.next /\ v.next = w.next
  BY <1>0
<1> HIDE DEF g
<1>3. \A t \in DOMAIN fs : g[t].synced = g[t].entries
  <2>1. g[w.start].synced = g[w.start].entries
    BY <1>0, <1>1
  <2>2. \A t \in DOMAIN fs : t # w.start => t < w.start
    BY <1>0, <1>2
  <2>3. \A t \in DOMAIN fs : t # w.start => g[t].synced = g[t].entries
    BY <1>0, <1>1, <2>2 DEF GoodFiles
  <2> QED BY <2>1, <2>3
<1>6. DOMAIN h = DOMAIN fs \cup {w.next} /\ h = [t \in DOMAIN h |-> h[t]]
  BY <1>1 DEF Create
<1>7. h[w.next] = NewFile
  BY DEF Create
<1>8. \A t \in DOMAIN fs : h[t] = g[t]
  BY <1>1, <1>2 DEF Create
<1> HIDE DEF h, v
<1>9. h[w.next] \in Segment /\ h[w.next].entries = {} /\ h[w.next].synced = {}
  BY <1>7 DEF NewFile, Segment
<1>10. \A t \in DOMAIN fs : h[t].entries = fs[t].entries /\ h[t].synced = fs[t].entries
  BY <1>1, <1>3, <1>8
<1>11. GoodFiles(h)
  <2>1. DOMAIN h \subseteq Nat
    BY <1>0, <1>2, <1>6
  <2>2. \A s \in DOMAIN h : h[s] \in Segment /\ h[s].synced \subseteq h[s].entries
    <3>1. \A s \in DOMAIN fs : h[s] \in Segment /\ h[s].synced \subseteq h[s].entries
      BY <1>1, <1>8 DEF GoodFiles
    <3> QED BY <1>6, <1>9, <3>1
  <2>3. ASSUME NEW s \in DOMAIN h, NEW t \in DOMAIN h, s < t
        PROVE  /\ h[s].synced = h[s].entries
               /\ \A e \in h[s].entries : e.sequence < t
               /\ \A e \in h[s].entries, f \in h[t].entries : e.sequence < f.sequence
    <3>0. s \in DOMAIN fs
      BY <1>0, <1>2, <1>6, <2>3
    <3>1. CASE t = w.next
      BY <1>9, <1>10, <3>0, <3>1 DEF GoodWriter
    <3>2. CASE t # w.next
      BY <1>1, <1>3, <1>6, <1>8, <2>3, <3>0, <3>2 DEF GoodFiles
    <3> QED BY <3>1, <3>2
  <2> QED BY <1>6, <2>1, <2>2, <2>3 DEF GoodFiles
<1>12. GoodWriter(h, v)
  <2>1. \A t \in DOMAIN h : t <= w.next
    BY <1>0, <1>2, <1>6
  <2>2. \A s \in DOMAIN h : \A e \in h[s].entries : e.sequence < w.next
    BY <1>6, <1>9, <1>10 DEF GoodWriter
  <2> QED BY <1>0, <1>5, <1>6, <2>1, <2>2 DEF GoodWriter
<1> QED BY <1>4, <1>5, <1>6, <1>9, <1>10, <1>11, <1>12

(* Writing an entry that is newer than all others.                         *)
LEMMA WriteGood ==
    ASSUME NEW p, NEW e \in Records,
           GoodFiles(p.files), GoodWriter(p.files, p.writer),
           \A s \in DOMAIN p.files : \A f \in p.files[s].entries : f.sequence < e.sequence,
           e.sequence < p.writer.next
    PROVE  LET w == Written(p, e)
           IN  /\ GoodFiles(w.files)
               /\ GoodWriter(w.files, w.writer)
               /\ DOMAIN w.files = DOMAIN p.files
               /\ \A t \in DOMAIN p.files : p.files[t].entries \subseteq w.files[t].entries
               /\ \A t \in DOMAIN p.files : p.files[t].synced = w.files[t].synced
               /\ e \in w.files[w.writer.start].entries
<1> DEFINE fs == p.files
           w == p.writer
           g == [fs EXCEPT ![w.start].entries = @ \cup {e}]
<1>1. Written(p, e).files = g /\ Written(p, e).writer = w
  BY DEF Written
<1>2. GoodFiles(fs) /\ GoodWriter(fs, w) /\ e.sequence < w.next
  OBVIOUS
<1>3. \A s \in DOMAIN fs : \A f \in fs[s].entries : f.sequence < e.sequence
  OBVIOUS
<1> HIDE DEF fs, w
<1>4. /\ w \in [open : {TRUE}, start : Nat, next : Nat]
      /\ w.start \in DOMAIN fs /\ (\A t \in DOMAIN fs : t <= w.start) /\ DOMAIN fs \subseteq Nat
  BY <1>2 DEF GoodWriter, GoodFiles
<1>5. DOMAIN g = DOMAIN fs /\ g = [t \in DOMAIN g |-> g[t]]
  OBVIOUS
<1>6. fs[w.start] \in Segment /\ fs[w.start].synced \subseteq fs[w.start].entries
  BY <1>2, <1>4 DEF GoodFiles
<1>7. /\ g[w.start] \in Segment
      /\ g[w.start].entries = fs[w.start].entries \cup {e}
      /\ g[w.start].synced = fs[w.start].synced
  BY <1>4, <1>6 DEF Segment
<1>8. \A t \in DOMAIN fs : t # w.start => g[t] = fs[t]
  OBVIOUS
<1> HIDE DEF g
<1>9. GoodFiles(g)
  <2>1. \A s \in DOMAIN g : g[s] \in Segment /\ g[s].synced \subseteq g[s].entries
    BY <1>2, <1>5, <1>6, <1>7, <1>8 DEF GoodFiles
  <2>2. ASSUME NEW s \in DOMAIN g, NEW t \in DOMAIN g, s < t
        PROVE  /\ g[s].synced = g[s].entries
               /\ \A d \in g[s].entries : d.sequence < t
               /\ \A d \in g[s].entries, f \in g[t].entries : d.sequence < f.sequence
    <3>1. s \in DOMAIN fs /\ t \in DOMAIN fs /\ s # w.start
      BY <1>4, <1>5, <2>2
    <3>2. /\ fs[s].synced = fs[s].entries
          /\ \A d \in fs[s].entries : d.sequence < t
          /\ \A d \in fs[s].entries, f \in fs[t].entries : d.sequence < f.sequence
      BY <1>2, <2>2, <3>1 DEF GoodFiles
    <3>3. g[s] = fs[s] /\ g[t].entries \subseteq fs[t].entries \cup {e}
      BY <1>7, <1>8, <3>1
    <3> QED BY <1>3, <3>1, <3>2, <3>3
  <2> QED BY <1>4, <1>5, <2>1, <2>2 DEF GoodFiles
<1>10. GoodWriter(g, w)
  <2>1. \A s \in DOMAIN g : \A f \in g[s].entries : f.sequence < w.next
    BY <1>2, <1>5, <1>7, <1>8 DEF GoodWriter
  <2> QED BY <1>2, <1>4, <1>5, <2>1 DEF GoodWriter
<1>11. \A t \in DOMAIN fs : fs[t].entries \subseteq g[t].entries /\ fs[t].synced = g[t].synced
  BY <1>7, <1>8
<1> QED BY <1>1, <1>5, <1>7, <1>9, <1>10, <1>11 DEF fs, w

-----------------------------------------------------------------------------
(* Promises survive when files grow ...                                    *)
LEMMA PromisesGrow ==
    ASSUME NEW fs, NEW gs, NEW a, NEW d, NEW p, Promises(fs, a, d, p),
           \A t \in DOMAIN fs : /\ t \in DOMAIN gs
                                /\ fs[t].entries \subseteq gs[t].entries
                                /\ fs[t].synced \subseteq gs[t].synced
    PROVE  Promises(gs, a, d, p)
<1>1. \A e : OnDisk(fs, e) => OnDisk(gs, e)
  BY DEF OnDisk
<1>2. \A e : OnStable(fs, e) => OnStable(gs, e)
  BY DEF OnStable
<1> QED BY <1>1, <1>2 DEF Promises

(* ... and syncing the last segment makes everything acknowledged durable, *)
(* because the segments before it are synced already.                      *)
LEMMA PromisesSync ==
    ASSUME NEW fs, NEW c \in DOMAIN fs, GoodFiles(fs), \A t \in DOMAIN fs : t <= c,
           NEW a, NEW d, NEW p, Promises(fs, a, d, p)
    PROVE  Promises(SyncFile(fs, c), a, d \cup a, p)
<1> DEFINE gs == SyncFile(fs, c)
<1>1. /\ DOMAIN gs = DOMAIN fs
      /\ \A t \in DOMAIN fs : gs[t].entries = fs[t].entries
      /\ \A t \in DOMAIN fs : fs[t].synced \subseteq gs[t].synced
      /\ gs[c].synced = fs[c].entries
  BY SyncGood
<1> HIDE DEF gs
<1>2. \A t \in DOMAIN fs : t # c => fs[t].synced = fs[t].entries
  <2>1. \A t \in DOMAIN fs : t \in Nat /\ t <= c
    BY DEF GoodFiles
  <2>2. \A t \in DOMAIN fs : t # c => t < c
    BY <2>1
  <2> QED BY <2>2 DEF GoodFiles
<1>3. \A t \in DOMAIN fs : fs[t].entries \subseteq gs[t].synced
  BY <1>1, <1>2
<1>4. \A e : OnDisk(fs, e) => OnStable(gs, e)
  BY <1>1, <1>3 DEF OnDisk, OnStable
<1>5. Promises(gs, a, d, p)
  BY <1>1, PromisesGrow
<1>6. \A e \in a : e \in Records /\ (e.sequence > p => OnStable(gs, e))
  BY <1>4 DEF Promises
<1>7. Promises(gs, a, d \cup a, p)
  BY <1>5, <1>6 DEF Promises
<1> QED BY <1>7 DEF gs

(* The first half of append: a number is taken and perhaps a segment added.*)
LEMMA PlacedGood ==
    ASSUME LogInv, writer.open, NEW size
    PROVE  LET p == Placed(size)
           IN  /\ GoodFiles(files) /\ GoodWriter(files, Taken)
               /\ GoodFiles(p.files) /\ GoodWriter(p.files, p.writer)
               /\ p.writer.next = writer.next + 1
               /\ writer.next \in Nat
               /\ \A t \in DOMAIN p.files : \A f \in p.files[t].entries :
                    f.sequence < writer.next
               /\ \A t \in DOMAIN files :
                    /\ t \in DOMAIN p.files
                    /\ files[t].entries \subseteq p.files[t].entries
                    /\ files[t].synced \subseteq p.files[t].synced
               /\ Promises(p.files, acked, Secured(size), pruned)
<1>1. /\ GoodFiles(files) /\ GoodWriter(files, writer)
      /\ Promises(files, acked, durable, pruned)
  BY DEF LogInv
<1>2. writer \in [open : {TRUE}, start : Nat, next : Nat] /\ writer.start <= writer.next
  BY <1>1 DEF GoodWriter
<1>3. /\ Taken \in [open : {TRUE}, start : Nat, next : Nat]
      /\ Taken.start = writer.start /\ Taken.next = writer.next + 1
  <2> DEFINE n == writer.next + 1
             v == [writer EXCEPT !.next = n]
  <2>1. n \in Nat /\ Taken = v
    BY <1>2 DEF Taken
  <2> HIDE DEF n
  <2>2. v \in [open : {TRUE}, start : Nat, next : Nat] /\ v.start = writer.start /\ v.next = n
    BY <1>2, <2>1
  <2> QED BY <2>1, <2>2 DEF n
<1>4. \A s \in DOMAIN files : \A f \in files[s].entries :
        f.sequence \in Nat /\ f.sequence < writer.next
  BY <1>1 DEF GoodWriter, GoodFiles, Segment, Records
<1>5. GoodWriter(files, Taken)
  <2>1. Taken.start \in DOMAIN files /\ \A t \in DOMAIN files : t <= Taken.start
    BY <1>1, <1>3 DEF GoodWriter
  <2>2. Taken.start <= Taken.next
    BY <1>2, <1>3
  <2>3. \A s \in DOMAIN files : \A f \in files[s].entries : f.sequence < Taken.next
    BY <1>2, <1>3, <1>4
  <2> QED BY <1>3, <2>1, <2>2, <2>3 DEF GoodWriter
<1>6. Taken.next # Taken.start
  BY <1>2, <1>3
<1>7. CASE Full(size)
  <2>0. Placed(size) = Rotated(files, Taken) /\ Secured(size) = durable \cup acked
    BY <1>7 DEF Placed, Secured
  <2> DEFINE r == Rotated(files, Taken)
  <2>1. /\ GoodFiles(r.files)
        /\ GoodWriter(r.files, r.writer)
        /\ r.writer.next = Taken.next
        /\ DOMAIN files \subseteq DOMAIN r.files
        /\ \A t \in DOMAIN files : r.files[t].entries = files[t].entries
        /\ \A t \in DOMAIN files : r.files[t].synced = files[t].entries
        /\ \A t \in DOMAIN r.files : t \notin DOMAIN files => r.files[t].entries = {}
    BY <1>1, <1>5, <1>6, RotateGood
  <2> HIDE DEF r
  <2>2. \A t \in DOMAIN files : files[t].synced \subseteq files[t].entries
    BY <1>1 DEF GoodFiles
  <2>3. \A t \in DOMAIN r.files : \A f \in r.files[t].entries : f.sequence < writer.next
    BY <1>4, <2>1
  <2>4. Promises(r.files, acked, durable \cup acked, pruned)
    <3>1. Promises(r.files, acked, durable, pruned)
      BY <1>1, <2>1, <2>2, PromisesGrow
    <3>2. \A d : OnDisk(files, d) => OnStable(r.files, d)
      BY <2>1 DEF OnDisk, OnStable
    <3> QED BY <1>1, <3>1, <3>2 DEF Promises
  <2> QED BY <1>1, <1>2, <1>3, <1>5, <2>0, <2>1, <2>2, <2>3, <2>4 DEF r
<1>8. CASE ~Full(size)
  <2>1. /\ Placed(size) = [files |-> files, writer |-> Taken, size |-> file_size]
        /\ Secured(size) = durable
    BY <1>8 DEF Placed, Secured
  <2> QED BY <1>1, <1>2, <1>3, <1>4, <1>5, <2>1
<1> QED BY <1>7, <1>8

(* append up to the write.                                                 *)
LEMMA WrittenGood ==
    ASSUME LogInv, writer.open, NEW op \in Operations, NEW size \in Sizes
    PROVE  LET w == Written(Placed(size), NewEntry(op, size))
               c == w.writer.start
               e == NewEntry(op, size)
           IN  /\ GoodFiles(w.files) /\ GoodWriter(w.files, w.writer)
               /\ e \in Records /\ OnDisk(w.files, e)
               /\ Promises(w.files, acked \cup {e}, Secured(size), pruned)
               /\ GoodFiles(SyncFile(w.files, c)) /\ GoodWriter(SyncFile(w.files, c), w.writer)
               /\ Promises(SyncFile(w.files, c), acked \cup {e},
                           durable \cup (acked \cup {e}), pruned)
<1> DEFINE p == Placed(size)
           e == NewEntry(op, size)
           w == Written(p, e)
           c == w.writer.start
           g == SyncFile(w.files, c)
<1>1. /\ GoodFiles(p.files) /\ GoodWriter(p.files, p.writer)
      /\ p.writer.next = writer.next + 1
      /\ writer.next \in Nat
      /\ \A t \in DOMAIN p.files : \A f \in p.files[t].entries : f.sequence < writer.next
      /\ \A t \in DOMAIN files :
           /\ t \in DOMAIN p.files
           /\ files[t].entries \subseteq p.files[t].entries
           /\ files[t].synced \subseteq p.files[t].synced
      /\ Promises(p.files, acked, Secured(size), pruned)
  BY PlacedGood
<1>2. e \in Records /\ e.sequence = writer.next
  BY <1>1 DEF NewEntry, Records
<1> HIDE DEF p, e
<1>3. /\ GoodFiles(w.files) /\ GoodWriter(w.files, w.writer)
      /\ DOMAIN w.files = DOMAIN p.files
      /\ \A t \in DOMAIN p.files : p.files[t].entries \subseteq w.files[t].entries
      /\ \A t \in DOMAIN p.files : p.files[t].synced = w.files[t].synced
      /\ e \in w.files[c].entries
  <2>1. e.sequence < p.writer.next
    BY <1>1, <1>2
  <2>2. \A s \in DOMAIN p.files : \A f \in p.files[s].entries : f.sequence < e.sequence
    BY <1>1, <1>2
  <2> QED BY <1>1, <1>2, <2>1, <2>2, WriteGood
<1> HIDE DEF w
<1>4. c \in DOMAIN w.files /\ \A t \in DOMAIN w.files : t <= c
  BY <1>3 DEF GoodWriter
<1>5. OnDisk(w.files, e)
  BY <1>3, <1>4 DEF OnDisk
<1>6. Promises(w.files, acked, Secured(size), pruned)
  BY <1>1, <1>3, PromisesGrow
<1>7. Promises(w.files, acked \cup {e}, Secured(size), pruned)
  BY <1>2, <1>5, <1>6 DEF Promises
<1>8. Promises(g, acked \cup {e}, durable \cup (acked \cup {e}), pruned)
  <2>1. Promises(g, acked \cup {e}, Secured(size) \cup (acked \cup {e}), pruned)
    BY <1>3, <1>4, <1>7, PromisesSync
  <2>2. durable \subseteq Secured(size)
    BY DEF Secured
  <2> QED BY <2>1, <2>2 DEF Promises
<1>9. /\ GoodFiles(g) /\ DOMAIN g = DOMAIN w.files
      /\ \A t \in DOMAIN w.files : g[t].entries = w.files[t].entries
  BY <1>3, <1>4, SyncGood
<1> HIDE DEF g
<1>10. GoodWriter(g, w.writer)
  BY <1>3, <1>9 DEF GoodWriter
<1> QED BY <1>2, <1>3, <1>5, <1>7, <1>8, <1>9, <1>10 DEF p, e, w, g
-----------------------------------------------------------------------------
(* open on an empty directory.                                             *)
LEMMA OpenFreshStep ==
    ASSUME LogInv, OpenFresh
    PROVE  LogInv'
<1> DEFINE g == files'
           w == writer'
<1>1. g = Create(files, 0) /\ DOMAIN files = {}
  BY DEF OpenFresh
<1>2. DOMAIN g = {0} /\ g[0] = NewFile /\ g = [t \in DOMAIN g |-> g[t]]
  BY <1>1 DEF Create
<1>3. w = [open |-> TRUE, start |-> 0, next |-> 1]
  BY DEF OpenFresh
<1>4. w \in [open : {TRUE}, start : Nat, next : Nat] /\ w.start = 0 /\ w.next = 1
  BY <1>3
<1> HIDE DEF g, w
<1>5. g[0] \in Segment /\ g[0].entries = {} /\ g[0].synced = {}
  BY <1>2 DEF NewFile, Segment
<1>6. GoodFiles(g)
  BY <1>2, <1>5 DEF GoodFiles
<1>7. GoodWriter(g, w)
  <2>1. w.start \in DOMAIN g /\ (\A t \in DOMAIN g : t <= w.start) /\ w.start <= w.next
    BY <1>2, <1>4
  <2>2. \A t \in DOMAIN g : \A e \in g[t].entries : e.sequence < w.next
    BY <1>2, <1>5
  <2> QED BY <1>4, <2>1, <2>2 DEF GoodWriter
<1>8. Promises(g, acked, durable, pruned)
  <2>1. Promises(files, acked, durable, pruned)
    BY DEF LogInv
  <2> QED BY <1>1, <2>1, PromisesGrow
<1>9. acked' = acked /\ durable' = durable /\ pruned' = pruned /\ pruned \in Nat
  BY DEF OpenFresh, LogInv
<1>10. writer'.open = TRUE
  BY <1>3 DEF w
<1> QED BY <1>6, <1>7, <1>8, <1>9, <1>10 DEF LogInv, g, w

(* open on existing segments: the last one bounds the numbers of all.      *)
LEMMA OpenExistingStep ==
    ASSUME LogInv, OpenExisting
    PROVE  LogInv'
<1>1. PICK s \in LastSegments : \E n \in ScanLastSequence(s) :
         writer' = [open |-> TRUE, start |-> s, next |-> n]
  BY DEF OpenExisting
<1>2. PICK n \in ScanLastSequence(s) : writer' = [open |-> TRUE, start |-> s, next |-> n]
  BY <1>1
<1>3. GoodFiles(files) /\ s \in DOMAIN files /\ s \in Nat /\ \A t \in DOMAIN files : t <= s
  BY DEF LogInv, LastSegments, GoodFiles
<1>4. files[s].torn = {} /\ \A e \in files[s].entries : e.sequence \in Nat
  BY <1>3 DEF GoodFiles, Segment, Records
<1>5. Readable(files[s]) = files[s].entries
  BY <1>4 DEF Readable
<1> DEFINE seen == {s} \cup {e.sequence : e \in files[s].entries}
<1>6. n \in {m + 1 : m \in {x \in seen : \A y \in seen : y <= x}}
  BY <1>5 DEF ScanLastSequence
<1>7. PICK m \in seen : n = m + 1 /\ \A y \in seen : y <= m
  BY <1>6
<1>8. m \in Nat /\ n \in Nat /\ s < n
  BY <1>3, <1>4, <1>7
<1>9. \A e \in files[s].entries : e.sequence < n
  BY <1>4, <1>7, <1>8
<1>10. \A t \in DOMAIN files : \A e \in files[t].entries : e.sequence \in Nat
  BY <1>3 DEF GoodFiles, Segment, Records
<1>11. \A t \in DOMAIN files : t # s => t < s
  BY <1>3 DEF GoodFiles
<1>12. \A t \in DOMAIN files : t # s => \A e \in files[t].entries : e.sequence < s
  BY <1>3, <1>11 DEF GoodFiles
<1>13. \A t \in DOMAIN files : \A e \in files[t].entries : e.sequence < n
  BY <1>3, <1>8, <1>9, <1>10, <1>12
<1> DEFINE w == writer'
<1>14. w \in [open : {TRUE}, start : Nat, next : Nat] /\ w.start = s /\ w.next = n
  BY <1>2, <1>3, <1>8
<1>15. w.open = TRUE
  BY <1>2
<1> HIDE DEF w
<1>16. GoodWriter(files, w)
  <2>1. w.start \in DOMAIN files /\ \A t \in DOMAIN files : t <= w.start
    BY <1>3, <1>14
  <2>2. w.start <= w.next
    BY <1>3, <1>8, <1>14
  <2>3. \A t \in DOMAIN files : \A e \in files[t].entries : e.sequence < w.next
    BY <1>13, <1>14
  <2> QED BY <1>14, <2>1, <2>2, <2>3 DEF GoodWriter
<1>17. /\ files' = files /\ acked' = acked /\ durable' = durable /\ pruned' = pruned
       /\ Promises(files, acked, durable, pruned) /\ pruned \in Nat
  BY DEF OpenExisting, LogInv
<1> QED BY <1>3, <1>15, <1>16, <1>17 DEF LogInv, w

(* append that succeeds.                                                   *)
LEMMA AppendStep ==
    ASSUME LogInv, NEW op \in Operations, NEW size \in Sizes, Append(op, size)
    PROVE  LogInv'
<1> DEFINE e == NewEntry(op, size)
           w == Written(Placed(size), e)
           c == w.writer.start
<1>1. /\ writer.open /\ writer' = w.writer /\ pruned' = pruned
      /\ acked' = acked \cup {e}
  BY DEF Append
<1>2. \/ files' = w.files /\ durable' = Secured(size)
      \/ files' = SyncFile(w.files, c) /\ durable' = durable \cup (acked \cup {e})
  BY DEF Append
<1>3. /\ GoodFiles(w.files) /\ GoodWriter(w.files, w.writer)
      /\ Promises(w.files, acked \cup {e}, Secured(size), pruned)
      /\ GoodFiles(SyncFile(w.files, c)) /\ GoodWriter(SyncFile(w.files, c), w.writer)
      /\ Promises(SyncFile(w.files, c), acked \cup {e},
                  durable \cup (acked \cup {e}), pruned)
  BY <1>1, WrittenGood
<1> HIDE DEF w, c, e
<1>4. w.writer.open = TRUE
  BY <1>3 DEF GoodWriter
<1>5. pruned \in Nat
  BY DEF LogInv
<1> QED BY <1>1, <1>2, <1>3, <1>4, <1>5 DEF LogInv

(* append that fails, wherever it stops.                                   *)
LEMMA AppendFailsStep ==
    ASSUME LogInv, ~TornWrites, NEW op \in Operations, NEW size \in Sizes,
           AppendFails(op, size)
    PROVE  LogInv'
<1> DEFINE e == NewEntry(op, size)
           p == Placed(size)
           w == Written(p, e)
<1>1. /\ writer.open /\ pruned' = pruned /\ acked' = acked
      /\ Promises(files, acked, durable, pruned) /\ pruned \in Nat
  BY DEF AppendFails, LogInv
<1>2. /\ GoodFiles(files) /\ GoodWriter(files, Taken)
      /\ GoodFiles(p.files) /\ GoodWriter(p.files, p.writer)
      /\ \A t \in DOMAIN files : /\ t \in DOMAIN p.files
                                 /\ files[t].entries \subseteq p.files[t].entries
                                 /\ files[t].synced \subseteq p.files[t].synced
      /\ Promises(p.files, acked, Secured(size), pruned)
  BY <1>1, PlacedGood
<1>3. /\ GoodFiles(w.files) /\ GoodWriter(w.files, w.writer)
      /\ Promises(w.files, acked \cup {e}, Secured(size), pruned)
  BY <1>1, WrittenGood
<1>4. \/ writer' = Taken /\ files' = files /\ durable' = durable
      \/ /\ writer' = Taken /\ files' = SyncFile(files, writer.start)
         /\ durable' = durable \cup acked
      \/ /\ writer' = p.writer /\ durable' = Secured(size)
         /\ files' = [p.files EXCEPT ![p.writer.start].torn = @ \cup {}]
      \/ writer' = w.writer /\ files' = w.files /\ durable' = Secured(size)
  BY DEF AppendFails, Secured
<1> HIDE DEF w, p, e
<1>5. CASE writer' = Taken /\ files' = files /\ durable' = durable
  <2>1. Taken.open = TRUE
    BY <1>2 DEF GoodWriter
  <2> QED BY <1>1, <1>2, <1>5, <2>1 DEF LogInv
<1>8. CASE /\ writer' = Taken /\ files' = SyncFile(files, writer.start)
           /\ durable' = durable \cup acked
  <2> DEFINE c == Taken.start
             g == SyncFile(files, c)
  <2>1. c \in DOMAIN files /\ (\A t \in DOMAIN files : t <= c) /\ Taken.open = TRUE
    BY <1>2 DEF GoodWriter
  <2>2. writer.start = c
    BY DEF Taken
  <2>3. /\ GoodFiles(g) /\ DOMAIN g = DOMAIN files
        /\ \A t \in DOMAIN files : g[t].entries = files[t].entries
    BY <1>2, <2>1, SyncGood
  <2>4. Promises(g, acked, durable \cup acked, pruned)
    BY <1>1, <1>2, <2>1, PromisesSync
  <2> HIDE DEF c, g
  <2>5. GoodWriter(g, Taken)
    BY <1>2, <2>3 DEF GoodWriter
  <2>6. files' = g
    BY <1>8, <2>2 DEF g
  <2> QED BY <1>1, <1>8, <2>1, <2>3, <2>4, <2>5, <2>6 DEF LogInv
<1>6. CASE /\ writer' = p.writer /\ durable' = Secured(size)
           /\ files' = [p.files EXCEPT ![p.writer.start].torn = @ \cup {}]
  <2> DEFINE fs == p.files
             c == p.writer.start
  <2>1. c \in DOMAIN fs /\ fs[c] \in Segment /\ fs = [t \in DOMAIN fs |-> fs[t]]
    BY <1>2 DEF GoodWriter, GoodFiles
  <2>2. [fs EXCEPT ![c].torn = @ \cup {}] = fs
    <3> HIDE DEF fs, c
    <3>1. [fs[c] EXCEPT !.torn = @ \cup {}] = fs[c]
      BY <2>1 DEF Segment
    <3> QED BY <2>1, <3>1
  <2>3. Promises(fs, acked, Secured(size), pruned)
    BY <1>2
  <2>4. p.writer.open = TRUE
    BY <1>2 DEF GoodWriter
  <2> QED BY <1>1, <1>2, <1>6, <2>2, <2>3, <2>4 DEF LogInv
<1>7. CASE writer' = w.writer /\ files' = w.files /\ durable' = Secured(size)
  <2>1. w.writer.open = TRUE
    BY <1>3 DEF GoodWriter
  <2>2. Promises(w.files, acked, Secured(size), pruned)
    BY <1>3 DEF Promises
  <2> QED BY <1>1, <1>3, <1>7, <2>1, <2>2 DEF LogInv
<1> QED BY <1>4, <1>5, <1>6, <1>7, <1>8

(* sync.                                                                   *)
LEMMA SyncStep ==
    ASSUME LogInv, Sync
    PROVE  LogInv'
<1> DEFINE c == writer.start
           g == SyncFile(files, c)
<1>1. /\ writer.open /\ writer' = writer /\ pruned' = pruned /\ acked' = acked
      /\ files' = g /\ durable' = durable \cup acked
  BY DEF Sync
<1>2. /\ GoodFiles(files) /\ GoodWriter(files, writer) /\ pruned \in Nat
      /\ Promises(files, acked, durable, pruned) /\ writer.open \in BOOLEAN
  BY <1>1 DEF LogInv
<1>3. c \in DOMAIN files /\ \A t \in DOMAIN files : t <= c
  BY <1>2 DEF GoodWriter
<1>4. /\ GoodFiles(g) /\ DOMAIN g = DOMAIN files
      /\ \A t \in DOMAIN files : g[t].entries = files[t].entries
  BY <1>2, <1>3, SyncGood
<1>5. Promises(g, acked, durable \cup acked, pruned)
  BY <1>2, <1>3, PromisesSync
<1> HIDE DEF g, c
<1>6. GoodWriter(g, writer)
  BY <1>2, <1>4 DEF GoodWriter
<1> QED BY <1>1, <1>2, <1>4, <1>5, <1>6 DEF LogInv

(* rotate from outside: everything acknowledged becomes durable.           *)
LEMMA RotateStep ==
    ASSUME LogInv, ~AnyRotate, Rotate
    PROVE  LogInv'
<1> DEFINE r == Rotated(files, writer)
<1>1. /\ writer.open /\ writer.next # writer.start
      /\ writer' = r.writer /\ files' = r.files
      /\ pruned' = pruned /\ acked' = acked /\ durable' = durable \cup acked
  BY DEF Rotate
<1>2. /\ GoodFiles(files) /\ GoodWriter(files, writer) /\ pruned \in Nat
      /\ Promises(files, acked, durable, pruned)
  BY <1>1 DEF LogInv
<1>3. /\ GoodFiles(r.files) /\ GoodWriter(r.files, r.writer)
      /\ DOMAIN files \subseteq DOMAIN r.files
      /\ \A t \in DOMAIN files : r.files[t].entries = files[t].entries
      /\ \A t \in DOMAIN files : r.files[t].synced = files[t].entries
  BY <1>1, <1>2, RotateGood
<1> HIDE DEF r
<1>4. \A t \in DOMAIN files : files[t].synced \subseteq files[t].entries
  BY <1>2 DEF GoodFiles
<1>5. Promises(r.files, acked, durable, pruned)
  BY <1>2, <1>3, <1>4, PromisesGrow
<1>6. \A d : OnDisk(files, d) => OnStable(r.files, d)
  BY <1>3 DEF OnDisk, OnStable
<1>7. Promises(r.files, acked, durable \cup acked, pruned)
  BY <1>2, <1>5, <1>6 DEF Promises
<1>8. r.writer.open = TRUE
  BY <1>3 DEF GoodWriter
<1> QED BY <1>1, <1>2, <1>3, <1>7, <1>8 DEF LogInv

(* prune_segments_before at a checkpoint that ends the files it removes.   *)
LEMMA PruneStep ==
    ASSUME LogInv, ~AnyPrune, NEW c \in Nat, Prune(c)
    PROVE  LogInv'
<1>0. PICK removed \in SUBSET Prunable(c) :
        files' = [s \in DOMAIN files \ removed |-> files[s]]
  BY DEF Prune
<1> DEFINE g == files'
           keep == DOMAIN files \ removed
<1>1. /\ g = [s \in keep |-> files[s]]
      /\ pruned' = IF Prunable(c) # {} /\ c > pruned THEN c ELSE pruned
      /\ writer' = writer /\ acked' = acked /\ durable' = durable
      /\ EndsBefore(c)
  BY <1>0 DEF Prune
<1>2. /\ DOMAIN g = keep /\ g = [s \in DOMAIN g |-> g[s]]
      /\ \A s \in keep : s \in DOMAIN files /\ g[s] = files[s]
  BY <1>1
<1>3. /\ GoodFiles(files) /\ pruned \in Nat /\ writer.open \in BOOLEAN
      /\ writer.open => GoodWriter(files, writer)
      /\ Promises(files, acked, durable, pruned)
  BY DEF LogInv
<1>4. \A s \in DOMAIN files : s \in Nat
  BY <1>3 DEF GoodFiles
<1>5. pruned' \in Nat /\ pruned <= pruned' /\ (Prunable(c) # {} => c <= pruned')
  BY <1>1, <1>3
<1> DEFINE q == pruned'
<1> HIDE DEF g, q
<1>6. GoodFiles(g)
  <2>1. DOMAIN g \subseteq Nat
    BY <1>2, <1>4
  <2>2. \A s \in DOMAIN g : g[s] \in Segment /\ g[s].synced \subseteq g[s].entries
    BY <1>2, <1>3 DEF GoodFiles
  <2>3. \A s, t \in DOMAIN g : s < t =>
          /\ g[s].synced = g[s].entries
          /\ \A e \in g[s].entries : e.sequence < t
          /\ \A e \in g[s].entries, f \in g[t].entries : e.sequence < f.sequence
    BY <1>2, <1>3 DEF GoodFiles
  <2> QED BY <1>2, <2>1, <2>2, <2>3 DEF GoodFiles
<1>7. ASSUME writer.open PROVE GoodWriter(g, writer)
  <2>1. GoodWriter(files, writer)
    BY <1>3, <1>7
  <2>2. /\ writer.start \in DOMAIN files
        /\ \A t \in DOMAIN files : t <= writer.start
    BY <2>1 DEF GoodWriter
  <2>3. writer.start \notin Prunable(c)
    BY <1>4, <2>2 DEF Prunable
  <2>4. writer.start \in DOMAIN g
    BY <1>0, <1>2, <2>2, <2>3
  <2> QED BY <1>2, <2>1, <2>4 DEF GoodWriter
<1>8. ASSUME NEW s \in DOMAIN files, NEW e \in files[s].entries, e.sequence > q
      PROVE  s \in keep
  <2>1. e.sequence \in Nat
    BY <1>3 DEF GoodFiles, Segment, Records
  <2>2. s \in Prunable(c) => e.sequence <= c /\ c <= q
    BY <1>1, <1>5 DEF EndsBefore, q
  <2>3. q \in Nat
    BY <1>5 DEF q
  <2> QED BY <1>0, <1>8, <2>1, <2>2, <2>3
<1>9. Promises(g, acked, durable, q)
  <2>1. \A s \in DOMAIN files : files[s].synced \subseteq files[s].entries
    BY <1>3 DEF GoodFiles
  <2>2. ASSUME NEW e \in Records, e.sequence > q
        PROVE  /\ OnStable(files, e) => OnStable(g, e)
               /\ OnDisk(files, e) => OnDisk(g, e)
    BY <1>2, <1>8, <2>1, <2>2 DEF OnStable, OnDisk
  <2>3. \A e \in Records : e.sequence > q => e.sequence > pruned
    BY <1>3, <1>5 DEF q, Records
  <2> QED BY <1>3, <2>2, <2>3 DEF Promises
<1> QED BY <1>1, <1>3, <1>5, <1>6, <1>7, <1>9 DEF LogInv, g, q

(* A crash keeps what was synced.                                          *)
LEMMA CrashStep ==
    ASSUME LogInv, ~TornWrites, Crash
    PROVE  LogInv'
<1> DEFINE g == files'
<1>1. PICK n \in 0 .. MaxSequence, tear \in BOOLEAN :
        g = [s \in DOMAIN files |->
               [files[s] EXCEPT !.entries = Remains(files[s], n),
                                !.torn = IF tear THEN @ \cup Tears(files[s], n) ELSE @]]
  BY DEF Crash
<1>2. /\ GoodFiles(files) /\ pruned \in Nat /\ Promises(files, acked, durable, pruned)
  BY DEF LogInv
<1>3. DOMAIN g = DOMAIN files /\ g = [s \in DOMAIN g |-> g[s]]
  BY <1>1
<1>4. ASSUME NEW s \in DOMAIN files
      PROVE  /\ g[s] \in Segment
             /\ g[s].synced = files[s].synced
             /\ g[s].synced \subseteq g[s].entries
             /\ g[s].entries \subseteq files[s].entries
  <2>1. files[s] \in Segment /\ files[s].synced \subseteq files[s].entries
    BY <1>2 DEF GoodFiles
  <2>2. Tears(files[s], n) = {}
    BY DEF Tears
  <2> DEFINE r == Remains(files[s], n)
  <2>3. r \subseteq files[s].entries /\ files[s].synced \subseteq r
    BY <2>1 DEF Remains
  <2>4. r \in SUBSET Records
    BY <2>1, <2>3 DEF Segment
  <2> DEFINE u == IF tear THEN files[s].torn \cup Tears(files[s], n) ELSE files[s].torn
  <2>5. u \in {{}}
    BY <2>1, <2>2 DEF Segment
  <2>6. g[s] = [files[s] EXCEPT !.entries = r, !.torn = u]
    BY <1>1
  <2> HIDE DEF g, r, u
  <2>7. g[s] \in Segment /\ g[s].synced = files[s].synced /\ g[s].entries = r
    BY <2>1, <2>4, <2>5, <2>6 DEF Segment
  <2> QED BY <2>3, <2>7
<1> HIDE DEF g
<1>5. GoodFiles(g)
  <2>1. DOMAIN g \subseteq Nat
    BY <1>2, <1>3 DEF GoodFiles
  <2>2. ASSUME NEW s \in DOMAIN g, NEW t \in DOMAIN g, s < t
        PROVE  /\ g[s].synced = g[s].entries
               /\ \A e \in g[s].entries : e.sequence < t
               /\ \A e \in g[s].entries, f \in g[t].entries : e.sequence < f.sequence
    <3>1. /\ files[s].synced = files[s].entries
          /\ \A e \in files[s].entries : e.sequence < t
          /\ \A e \in files[s].entries, f \in files[t].entries : e.sequence < f.sequence
      BY <1>2, <1>3, <2>2 DEF GoodFiles
    <3>2. g[s].synced = files[s].synced /\ g[s].synced \subseteq g[s].entries
      BY <1>3, <1>4
    <3>3. g[s].entries \subseteq files[s].entries /\ g[t].entries \subseteq files[t].entries
      BY <1>3, <1>4
    <3> QED BY <3>1, <3>2, <3>3
  <2> QED BY <1>3, <1>4, <2>1, <2>2 DEF GoodFiles
<1>6. \A e : OnStable(files, e) => OnStable(g, e)
  BY <1>3, <1>4 DEF OnStable
<1>7. Promises(g, {}, durable, pruned)
  BY <1>2, <1>6 DEF Promises
<1>8. writer'.open = FALSE
  BY DEF Crash, Closed
<1>9. acked' = {} /\ durable' = durable /\ pruned' = pruned
  BY DEF Crash
<1> QED BY <1>2, <1>5, <1>7, <1>8, <1>9 DEF LogInv, g
-----------------------------------------------------------------------------
(* The empty directory satisfies the invariant.                            *)
LEMMA LogInvInit ==
    ASSUME Init
    PROVE  LogInv
<1>1. GoodFiles(files)
  BY DEF Init, GoodFiles
<1>2. writer.open = FALSE
  BY DEF Init, Closed
<1>3. Promises(files, acked, durable, pruned) /\ pruned \in Nat
  BY DEF Init, Promises
<1> QED BY <1>1, <1>2, <1>3 DEF LogInv

(* One case per operation of the log.                                      *)
LEMMA LogInvStep ==
    ASSUME Careful, LogInv, [Next]_vars
    PROVE  LogInv'
<1> USE DEF Careful
<1>1. CASE OpenFresh
  BY <1>1, OpenFreshStep
<1>2. CASE OpenExisting
  BY <1>2, OpenExistingStep
<1>3. ASSUME NEW op \in Operations, NEW size \in Sizes, Append(op, size)
      PROVE  LogInv'
  BY <1>3, AppendStep
<1>4. ASSUME NEW op \in Operations, NEW size \in Sizes, AppendFails(op, size)
      PROVE  LogInv'
  BY <1>4, AppendFailsStep
<1>5. CASE Sync
  BY <1>5, SyncStep
<1>6. CASE Rotate
  BY <1>6, RotateStep
<1>7. ASSUME NEW c \in UNION {Checkpoints(files[s]) : s \in DOMAIN files}, Prune(c)
      PROVE  LogInv'
  <2>1. PICK s \in DOMAIN files : c \in Checkpoints(files[s])
    OBVIOUS
  <2>2. files[s] \in Segment
    BY DEF LogInv, GoodFiles
  <2>3. c \in Nat
    BY <2>1, <2>2 DEF Checkpoints, Readable, Segment, Records
  <2> QED BY <1>7, <2>3, PruneStep
<1>8. CASE Crash
  BY <1>8, CrashStep
<1>9. CASE UNCHANGED vars
  BY <1>9 DEF LogInv, vars
<1> QED BY <1>1, <1>2, <1>3, <1>4, <1>5, <1>6, <1>7, <1>8, <1>9 DEF Next

(* The inductive invariant holds of every reachable state of the log whose *)
(* writes are whole and whose callers rotate and prune with care.          *)
THEOREM LogInvariant == Careful => (Spec => []LogInv)
<1> SUFFICES ASSUME Careful PROVE Spec => []LogInv
  OBVIOUS
<1>1. Init => LogInv
  BY LogInvInit
<1>2. LogInv /\ [Next]_vars => LogInv'
  BY LogInvStep
<1> QED BY <1>1, <1>2, PTL DEF Spec

(* Whatever the sizes, the rotation limit, the sync mode and the crashes:  *)
(* an entry that an fsync covered is replayed, or was pruned by a          *)
(* checkpoint at or after it (append, sync, rotate, open, prune).          *)
THEOREM SyncedEntriesKept == Careful => (Spec => []DurableKept)
<1>1. LogInv => DurableKept
  <2> SUFFICES ASSUME LogInv, NEW e \in durable, e.sequence > pruned
               PROVE  e \in Replayed
    BY DEF DurableKept
  <2>1. PICK s \in DOMAIN files : e \in files[s].synced
    BY DEF LogInv, Promises, OnStable
  <2>2. files[s] \in Segment /\ e \in files[s].entries
    BY <2>1 DEF LogInv, GoodFiles
  <2>3. e \in Readable(files[s])
    BY <2>2 DEF Readable, Segment
  <2> QED BY <2>1, <2>3 DEF Replayed
<1> QED BY <1>1, LogInvariant, PTL

(* scan_last_sequence reads one segment and still never reuses a number    *)
(* that an entry on disk has.                                              *)
THEOREM SequencesFresh == Careful => (Spec => []NextAboveLog)
<1>1. LogInv => NextAboveLog
  BY DEF LogInv, NextAboveLog, GoodWriter
<1> QED BY <1>1, LogInvariant, PTL

(* The order of the segments' names is the order of their entries.         *)
THEOREM SegmentsOrdered == Careful => (Spec => []SegmentOrder)
<1>1. LogInv => SegmentOrder
  BY DEF LogInv, SegmentOrder, GoodFiles
<1> QED BY <1>1, LogInvariant, PTL

(* find_last_checkpoint, which stops at the first segment from the end     *)
(* that has a checkpoint, returns the last checkpoint of the log.          *)
THEOREM LastCheckpointFound == Careful => (Spec => []LastCheckpointIsLast)
<1>1. LogInv => LastCheckpointIsLast
  <2> SUFFICES ASSUME LogInv, NEW c \in FindLastCheckpoint,
                      NEW e \in Replayed, e.operation = "checkpoint"
               PROVE  e.sequence <= c
    BY DEF LastCheckpointIsLast
  <2>1. PICK s \in DOMAIN files :
          /\ c \in Checkpoints(files[s])
          /\ \A d \in Checkpoints(files[s]) : d <= c
          /\ \A t \in DOMAIN files : t > s => Checkpoints(files[t]) = {}
    BY DEF FindLastCheckpoint
  <2>2. PICK t \in DOMAIN files : e \in Readable(files[t])
    BY DEF Replayed
  <2>3. e.sequence \in Checkpoints(files[t])
    BY <2>2 DEF Checkpoints
  <2>4. s \in Nat /\ t \in Nat /\ ~(t > s)
    BY <2>1, <2>3 DEF LogInv, GoodFiles
  <2>5. CASE t = s
    BY <2>1, <2>3, <2>5
  <2>6. CASE t < s
    <3>1. PICK f \in Readable(files[s]) : c = f.sequence
      BY <2>1 DEF Checkpoints
    <3>2. e \in files[t].entries /\ f \in files[s].entries
      BY <2>2 DEF Readable
    <3>3. e.sequence < f.sequence
      BY <2>6, <3>2 DEF LogInv, GoodFiles
    <3>4. e \in Records /\ f \in Records
      BY <3>2 DEF LogInv, GoodFiles, Segment
    <3>5. e.sequence \in Nat /\ f.sequence \in Nat
      BY <3>4 DEF Records
    <3> QED BY <3>1, <3>3, <3>5
  <2> QED BY <2>4, <2>5, <2>6
<1> QED BY <1>1, LogInvariant, PTL
=============================================================================
