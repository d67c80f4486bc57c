------------------------- MODULE FileExplorerProofs --------------------------
(****************************************************************************)
(* The tree of the file explorer follows its directory, its index follows   *)
(* the tree, and a session is sent every change, for any files, directory   *)
(* contents, callers, sessions and number of steps.                         *)
(*                                                                          *)
(* The tree is a sequence that the synchronizers take nodes out of and put  *)
(* nodes into; what they leave is counted: Times(t, p) is how often p is in *)
(* the tree t.  While the directory is only changed from outside, a path is *)
(* in the tree once for its being seen and once for every deletion of it    *)
(* that is due (Counted).  While it is changed by operations, the watcher   *)
(* reports what the operation has already put into the tree, or takes its   *)
(* two halves for a move; then a path is in the tree at most once, and of a *)
(* path that will be noticed and one of its kind that is missed exactly one *)
(* is in it (Echo).  Both start from a tree that matches the directory when *)
(* the watcher is ready for the indexer (StartInv).                         *)
(*                                                                          *)
(* The index is behind the tree by the changes in the indexer's queue.  The *)
(* invariant is of the index as it will be when it has caught up (Caught):  *)
(* that one agrees with the tree after every change (AgreeInv), so it does  *)
(* when the queue is empty.                                                 *)
(****************************************************************************)
EXTENDS FileExplorer, FiniteSetTheorems, SequenceTheorems, WellFoundedInduction, TLAPS

(* types of what the explorer keeps                                         *)
Nodes == [path : Paths, id : Paths, loaded : BOOLEAN]
Changes == [type : {"add", "delete", "move"}, id : Paths, path : Paths]
Messages == [no : Nat, change : Changes]
Batches == Seq(Messages) \ {<< >>}
Calls ==
  [op : {"add", "modify", "remove"}, path : Paths, to : Paths, done : BOOLEAN]
    \cup [op : {"move"}, path : Files, to : Files, done : BOOLEAN] \cup {Idle}
Rebuilds == [scan : Seq(Nodes), disk : SUBSET Paths, tree : Seq(Nodes)] \cup {None}
Stages == {"shallow", "scanning", "starting", "watching", "unwatched"}
Sockets == {"none", "waiting", "left", "open", "orphan", "broken", "closed"}

TreeTypeOK ==
  /\ disk \subseteq Paths /\ seen \subseteq Paths
  /\ tree \in Seq(Nodes) /\ scan \in Seq(Nodes) /\ rebuild \in Rebuilds
  /\ stage \in Stages /\ watch \in {"off", "starting", "on"}
  /\ pending \in Seq(Watched)
  /\ call \in [Callers -> Calls]
  /\ source \in {"outside", "caller"}
  /\ blur \subseteq {"early", "mixed", "inside", "reused", "swallowed", "crossed", "rebuilt"}

ServingTypeOK ==
  /\ waiting \subseteq Subscribers /\ subscribers \subseteq Subscribers
  /\ inbox \in [Subscribers -> Seq(Messages)]
  /\ outbox \in [Sessions -> Seq(Batches)]
  /\ socket \in [Sessions -> Sockets]
  /\ announced \in Nat /\ heard \in [Subscribers -> Nat]

ExplorerTypeOK == TreeTypeOK /\ ServingTypeOK /\ spent \in 0 .. Budget

(****************************************************************************)
(* Sessions                                                                 *)
(****************************************************************************)
(* a session whose subscription has not begun, or was refused, has nothing  *)
(* in its queues; who waits for the watcher has such a session              *)
QuietInv ==
  \A s \in Sessions :
    /\ socket[s] \in {"none", "waiting", "left"} =>
         s \notin subscribers /\ inbox[s] = <<>> /\ outbox[s] = <<>>
    /\ s \in waiting => socket[s] \in {"waiting", "left"}

HeardInv == QuietInv /\ EveryChangeIsHeard

(****************************************************************************)
(* The tree                                                                 *)
(****************************************************************************)
(* how often a path is in a tree, and how many deletions of it are pending  *)
Times(t, p) == Cardinality(Positions(t, p))
Due(q, p) == Cardinality({i \in DOMAIN q : q[i] = p})
One(yes) == IF yes THEN 1 ELSE 0

Matches(t, here) == \A p \in Watched : Times(t, p) = One(p \in here)
Shallow(t, here) == \A p \in Watched : Times(t, p) = One(p \in here /\ Up(p) = Root)

(* what is in a directory is there with it; the indexer subscribes when the *)
(* tree is built, and waits for the watcher until then                      *)
Closed(here) == \A p \in here : Up(p) \in here \cup {Root}
ClosedInv ==
  /\ Closed(disk) /\ Closed(seen)
  /\ rebuild # None => Closed(rebuild.disk) /\ Shallow(rebuild.scan, rebuild.disk)
  /\ Indexer \in subscribers => stage = "watching"
  /\ Indexer \in waiting => stage = "starting"

Promised == blur \cap {"early", "mixed", "swallowed", "rebuilt"} = {}
Running == stage = "watching" /\ watch = "on"
Still == \A u \in Callers : call[u] = Idle

(* before the watcher is ready for the indexer nothing has changed          *)
StartInv ==
  ~Running /\ Promised =>
    /\ Still /\ pending = << >>
    /\ watch = "on" => seen = disk
    /\ stage = "scanning" => Shallow(scan, disk)
    /\ stage \in {"starting", "watching", "unwatched"} => Matches(tree, disk)

(* while the directory is only changed from outside, the tree has a path    *)
(* once for its being seen and once for every deletion of it that is due;   *)
(* what is in a directory is not seen, and its deletion not due, after that *)
(* of the directory                                                         *)
Counted == \A p \in Watched : Times(tree, p) = One(p \in seen) + Due(pending, p)
Sorted ==
  \A i \in DOMAIN pending : pending[i] = Dir =>
    Dir \notin seen /\ \A j \in DOMAIN pending : i < j => pending[j] # Dir /\ Up(pending[j]) = Root
OutsideInv == Running /\ Promised /\ source = "outside" => Still /\ Counted /\ Sorted

(* While it is changed by an operation the tree has a path at most once: it *)
(* has what was seen and is there, it has nothing else that is not there    *)
(* but what the watcher will miss or has missed, and of a path that will be *)
(* noticed and one of its kind that is missed it has one.                   *)
Pending == {pending[i] : i \in DOMAIN pending}
Present == {p \in Watched : Times(tree, p) # 0}
Missed == (seen \ disk) \cup Pending
Distinct ==
  /\ \A i, j \in DOMAIN pending : i # j => pending[i] # pending[j]
  /\ Pending \cap (disk \cup seen) = {}
Single == \A p \in Watched : Times(tree, p) \in {0, 1}
Echo ==
  /\ (Watched \cap disk) \ Present \subseteq disk \ seen
  /\ Present \ disk \subseteq Missed
  /\ \A p \in Watched \cap (disk \ seen), x \in Watched \cap Missed :
       SameKind(x, p) => (x \in Present <=> p \notin Present)
  /\ Dir \in Missed => disk \subseteq seen
EchoInv == Distinct /\ Single /\ Echo

(* an operation before its change is made, and after                        *)
Intended(c) ==
  /\ disk = seen /\ pending = << >> /\ Matches(tree, disk)
  /\ c.op = "move" => c.path \in disk /\ c.to \notin disk
Performed(c) ==
  /\ c.op = "add" => c.path \in disk /\ Missed = {}
  /\ c.op = "remove" => c.path \notin disk /\ disk \subseteq seen
  /\ c.op = "move" => /\ c.path \notin disk /\ c.to \in disk /\ c.to \notin seen /\ c.to \notin Present
                      /\ disk \ seen \subseteq {c.to} /\ Missed \subseteq {c.path}
Working ==
  /\ \A u, v \in Callers : call[u] # Idle /\ call[v] # Idle => u = v
  /\ \A u \in Callers : call[u] # Idle => IF call[u].done THEN Performed(call[u]) ELSE Intended(call[u])
CallerInv == Running /\ Promised /\ source = "caller" => EchoInv /\ Working

TreeInv == ClosedInv /\ StartInv /\ OutsideInv /\ CallerInv

(****************************************************************************)
(* Counting positions                                                       *)
(****************************************************************************)
LEMMA PositionsFinite ==
  ASSUME NEW n \in Nat, NEW S \in SUBSET (1 .. n)
  PROVE  IsFiniteSet(S) /\ Cardinality(S) \in 0 .. n
<1>1. IsFiniteSet(1 .. n) /\ Cardinality(1 .. n) = n
  BY FS_Interval
<1>2. IsFiniteSet(S) /\ Cardinality(S) <= n
  BY <1>1, FS_Subset
<1> QED
  BY <1>2, FS_CardinalityType

(* The positions of a concatenation are those of the first sequence and,    *)
(* behind them, those of the second.                                        *)
Shifted(m, S) == {m + j : j \in S}

LEMMA ShiftedPositions ==
  ASSUME NEW m \in Nat, NEW n \in Nat, NEW A \in SUBSET (1 .. m), NEW B \in SUBSET (1 .. n)
  PROVE  Cardinality(A \cup Shifted(m, B)) = Cardinality(A) + Cardinality(B)
<1> DEFINE moved == Shifted(m, B)
           f == [j \in B |-> m + j]
<1>1. IsFiniteSet(A) /\ IsFiniteSet(B) /\ Cardinality(A) \in Nat /\ Cardinality(B) \in Nat
  BY PositionsFinite
<1>2. f \in Bijection(B, moved)
  BY DEF Bijection, Injection, Surjection, IsInjective, Shifted
<1>3. IsFiniteSet(moved) /\ Cardinality(moved) = Cardinality(B)
  BY <1>1, <1>2, FS_Bijection DEF ExistsBijection
<1>4. A \cap moved = {}
  BY DEF Shifted
<1>5. Cardinality(A \cap moved) = 0
  BY <1>4, FS_EmptySet
<1> HIDE DEF moved
<1>6. Cardinality(A \cup moved) = Cardinality(A) + Cardinality(moved) - Cardinality(A \cap moved)
  BY <1>1, <1>3, FS_Union
<1>7. Cardinality(A \cup moved) = Cardinality(A) + Cardinality(B)
  BY <1>1, <1>3, <1>5, <1>6
<1> QED
  BY <1>7 DEF moved

(* Every number below the size of a set of positions is the rank of one.    *)
LEMMA Ranks ==
  ASSUME NEW m \in Nat, NEW S \in SUBSET (1 .. m), NEW n \in 1 .. Cardinality(S)
  PROVE  \E i \in S : Cardinality({j \in S : j < i}) = n - 1
<1> DEFINE rank(i) == Cardinality({j \in S : j < i})
           size == Cardinality(S)
           f == [i \in S |-> rank(i)]
<1>1. IsFiniteSet(S) /\ size \in Nat
  BY PositionsFinite
<1>2. ASSUME NEW i \in S
      PROVE  rank(i) \in 0 .. (size - 1)
  <2>1. {j \in S : j < i} \in SUBSET S /\ {j \in S : j < i} # S
    OBVIOUS
  <2>2. IsFiniteSet({j \in S : j < i}) /\ rank(i) <= size /\ rank(i) # size
    BY <1>1, <2>1, FS_Subset
  <2>3. rank(i) \in Nat
    BY <2>2, FS_CardinalityType
  <2> HIDE DEF rank, size
  <2> QED
    BY <1>1, <2>2, <2>3
<1>3. ASSUME NEW i \in S, NEW k \in S, i < k
      PROVE  rank(i) < rank(k)
  <2> DEFINE low == {j \in S : j < i}
             high == {j \in S : j < k}
  <2>0. i \in Int /\ k \in Int /\ S \subseteq Int
    OBVIOUS
  <2> HIDE DEF rank, size, f
  <2>1. i < k
    BY <1>3
  <2>4. \A j \in low : j \in high
    BY <2>0, <2>1
  <2>5. low \in SUBSET high
    BY <2>4
  <2>6. i \in high /\ i \notin low
    BY <2>0, <2>1
  <2>2. IsFiniteSet(high)
    BY <1>1, FS_Subset
  <2>3. rank(i) <= rank(k) /\ rank(i) # rank(k)
    BY <2>5, <2>6, <2>2, FS_Subset DEF rank
  <2>7. rank(i) \in Int /\ rank(k) \in Int
    BY <1>2
  <2> QED
    BY <2>3, <2>7
<1>4. ASSUME NEW i \in S, NEW k \in S, rank(i) = rank(k)
      PROVE  i = k
  <2>1. rank(i) \in Int
    BY <1>2
  <2> HIDE DEF rank
  <2> QED
    BY <1>3, <1>4, <2>1
<1>5. f \in Injection(S, 0 .. (size - 1))
  <2>1. f \in [S -> 0 .. (size - 1)]
    BY <1>2
  <2>2. ASSUME NEW i \in S, NEW k \in S, f[i] = f[k]
        PROVE  i = k
    BY <1>4, <2>2
  <2> HIDE DEF f
  <2>3. DOMAIN f = S
    BY <2>1
  <2> QED
    BY <2>1, <2>2, <2>3 DEF Injection, IsInjective
<1>6. IsFiniteSet(0 .. (size - 1)) /\ Cardinality(0 .. (size - 1)) = size
  <2> HIDE DEF size
  <2> QED
    BY <1>1, FS_Interval
<1>7. f \in Surjection(S, 0 .. (size - 1))
  BY <1>5, <1>6, FS_Injection
<1>8. n - 1 \in 0 .. (size - 1)
  BY <1>1
<1>9. PICK i \in S : f[i] = n - 1
  BY <1>7, <1>8 DEF Surjection
<1> QED
  BY <1>9

(****************************************************************************)
(* What the operators on trees leave, counted                               *)
(****************************************************************************)
(* How often a value is in a sequence: in a concatenation, in one that      *)
(* loses a member, in a queue that loses its first or gains a last.         *)
LEMMA DueType ==
  ASSUME NEW X, NEW q \in Seq(X), NEW p
  PROVE  Due(q, p) \in 0 .. Len(q)
BY PositionsFinite DEF Due

LEMMA DueConcat ==
  ASSUME NEW X, NEW q \in Seq(X), NEW r \in Seq(X), NEW p
  PROVE  Due(q \o r, p) = Due(q, p) + Due(r, p)
<1> DEFINE A == {i \in DOMAIN q : q[i] = p}
           B == {i \in DOMAIN r : r[i] = p}
           C == {i \in DOMAIN (q \o r) : (q \o r)[i] = p}
           moved == Shifted(Len(q), B)
<1>1. Len(q) \in Nat /\ Len(r) \in Nat /\ A \in SUBSET (1 .. Len(q)) /\ B \in SUBSET (1 .. Len(r))
  OBVIOUS
<1>2. ASSUME NEW i \in C
      PROVE  i \in A \cup moved
  <2>1. i \in 1 .. (Len(q) + Len(r)) /\ (q \o r)[i] = p
    OBVIOUS
  <2>2. CASE i <= Len(q)
    BY <2>1, <2>2
  <2>3. CASE ~(i <= Len(q))
    <3>1. i - Len(q) \in B
      BY <2>1, <2>3
    <3>2. i = Len(q) + (i - Len(q))
      BY <2>1
    <3> QED
      BY <3>1, <3>2 DEF Shifted
  <2> QED
    BY <2>2, <2>3
<1>3. ASSUME NEW i \in A
      PROVE  i \in C
  OBVIOUS
<1>4. ASSUME NEW j \in B
      PROVE  Len(q) + j \in C
  OBVIOUS
<1>5. C = A \cup moved
  BY <1>2, <1>3, <1>4 DEF Shifted
<1>6. Cardinality(A \cup moved) = Cardinality(A) + Cardinality(B)
  <2> HIDE DEF A, B
  <2> QED
    BY <1>1, ShiftedPositions
<1>7. Due(q, p) = Cardinality(A) /\ Due(r, p) = Cardinality(B) /\ Due(q \o r, p) = Cardinality(C)
  BY DEF Due
<1> HIDE DEF A, B, C, moved
<1> QED
  BY <1>5, <1>6, <1>7

LEMMA DueOne ==
  ASSUME NEW v, NEW p
  PROVE  Due(<<v>>, p) = One(v = p) /\ Due(<<>>, p) = 0
<1>1. {i \in DOMAIN <<v>> : <<v>>[i] = p} = IF v = p THEN {1} ELSE {}
  OBVIOUS
<1>2. {i \in DOMAIN << >> : << >>[i] = p} = {}
  OBVIOUS
<1> QED
  BY <1>1, <1>2, FS_EmptySet, FS_Singleton DEF Due, One

LEMMA DueRemoved ==
  ASSUME NEW X, NEW q \in Seq(X), NEW i \in DOMAIN q, NEW p
  PROVE  /\ RemoveAt(q, i) \in Seq(X)
         /\ Len(RemoveAt(q, i)) = Len(q) - 1
         /\ \A j \in 1 .. (Len(q) - 1) : RemoveAt(q, i)[j] = q[IF j < i THEN j ELSE j + 1]
         /\ Due(q, p) = Due(RemoveAt(q, i), p) + One(q[i] = p)
<1> DEFINE low == SubSeq(q, 1, i - 1)
           high == SubSeq(q, i + 1, Len(q))
<1>1. Len(q) \in Nat /\ i \in 1 .. Len(q)
  OBVIOUS
<1>2. /\ low \in Seq(X) /\ Len(low) = i - 1
      /\ \A j \in 1 .. (i - 1) : low[j] = q[j]
  BY <1>1, SubSeqProperties
<1>3. /\ high \in Seq(X) /\ Len(high) = Len(q) - i
      /\ \A j \in 1 .. (Len(q) - i) : high[j] = q[j + i]
  BY <1>1, SubSeqProperties
<1>4. <<q[i]>> \in Seq(X)
  OBVIOUS
<1> HIDE DEF low, high
<1>5. (low \o <<q[i]>>) \in Seq(X) /\ Len(low \o <<q[i]>>) = i
  BY <1>1, <1>2, <1>4
<1>6. q = (low \o <<q[i]>>) \o high
  <2> DEFINE r == (low \o <<q[i]>>) \o high
  <2>1. r \in Seq(X) /\ Len(r) = Len(q)
    BY <1>1, <1>3, <1>5
  <2>2. ASSUME NEW j \in 1 .. Len(q)
        PROVE  r[j] = q[j]
    <3>0. r[j] = IF j <= i THEN (low \o <<q[i]>>)[j] ELSE high[j - i]
      BY <1>1, <1>3, <1>5, ConcatProperties
    <3>4. j <= i => (low \o <<q[i]>>)[j] = IF j <= i - 1 THEN low[j] ELSE <<q[i]>>[j - (i - 1)]
      BY <1>1, <1>2, <1>4, ConcatProperties
    <3> HIDE DEF r
    <3>1. CASE j < i
      BY <1>1, <1>2, <3>0, <3>4, <3>1
    <3>2. CASE j = i
      <4>1. j <= i /\ ~(j <= i - 1) /\ j - (i - 1) = 1
        BY <1>1, <3>2
      <4>2. r[j] = <<q[i]>>[1]
        BY <3>0, <3>4, <4>1
      <4> QED
        BY <3>2, <4>2
    <3>3. CASE j > i
      <4>1. j - i \in 1 .. (Len(q) - i) /\ (j - i) + i = j
        BY <1>1, <3>3
      <4> QED
        BY <1>1, <1>3, <3>0, <3>3, <4>1
    <3> QED
      BY <1>1, <3>1, <3>2, <3>3
  <2> HIDE DEF r
  <2>3. r = q
    BY <2>1, <2>2, SeqEqual
  <2> QED
    BY <2>3 DEF r
<1>7. RemoveAt(q, i) = low \o high
  BY DEF RemoveAt, low, high
<1>8. Due(q, p) = Due(low, p) + One(q[i] = p) + Due(high, p)
  <2>1. Due(low \o <<q[i]>>, p) = Due(low, p) + Due(<<q[i]>>, p)
    BY <1>2, <1>4, DueConcat
  <2>2. Due((low \o <<q[i]>>) \o high, p) = Due(low \o <<q[i]>>, p) + Due(high, p)
    BY <1>3, <1>5, DueConcat
  <2>3. Due(<<q[i]>>, p) = One(q[i] = p)
    BY DueOne
  <2>4. Due(q, p) = Due((low \o <<q[i]>>) \o high, p)
    BY <1>6
  <2> QED
    BY <2>1, <2>2, <2>3, <2>4
<1>9. Due(low \o high, p) = Due(low, p) + Due(high, p)
  BY <1>2, <1>3, DueConcat
<1>10. Due(low, p) \in Nat /\ Due(high, p) \in Nat /\ One(q[i] = p) \in Nat
  <2>1. Len(low) \in Nat /\ Len(high) \in Nat
    BY <1>2, <1>3
  <2> QED
    BY <1>2, <1>3, <2>1, DueType DEF One
<1>11. Due(q, p) = Due(RemoveAt(q, i), p) + One(q[i] = p)
  BY <1>7, <1>8, <1>9, <1>10
<1>12. low \o high \in Seq(X) /\ Len(low \o high) = Len(q) - 1
  BY <1>1, <1>2, <1>3
<1>13. ASSUME NEW j \in 1 .. (Len(q) - 1)
       PROVE  (low \o high)[j] = q[IF j < i THEN j ELSE j + 1]
  <2>1. CASE j < i
    BY <1>1, <1>2, <1>3, <2>1
  <2>2. CASE ~(j < i)
    <3>1. j - (i - 1) \in 1 .. (Len(q) - i) /\ (j - (i - 1)) + i = j + 1
      BY <1>1, <2>2
    <3>2. (low \o high)[j] = high[j - (i - 1)]
      BY <1>1, <1>2, <1>3, <2>2, ConcatProperties
    <3> QED
      BY <1>3, <2>2, <3>1, <3>2
  <2> QED
    BY <2>1, <2>2
<1> QED
  BY <1>7, <1>11, <1>12, <1>13

LEMMA DueTail ==
  ASSUME NEW X, NEW q \in Seq(X), q # <<>>, NEW p
  PROVE  /\ Tail(q) \in Seq(X) /\ Len(Tail(q)) = Len(q) - 1 /\ Head(q) \in X
         /\ \A j \in 1 .. (Len(q) - 1) : Tail(q)[j] = q[j + 1]
         /\ Due(q, p) = Due(Tail(q), p) + One(Head(q) = p)
<1>1. <<Head(q)>> \in Seq(X) /\ Tail(q) \in Seq(X) /\ q = <<Head(q)>> \o Tail(q)
  OBVIOUS
<1>2. Due(q, p) = Due(<<Head(q)>>, p) + Due(Tail(q), p)
  BY <1>1, DueConcat
<1>3. Due(Tail(q), p) \in Nat
  <2>1. Due(Tail(q), p) \in 0 .. Len(Tail(q))
    BY <1>1, DueType
  <2>2. Len(Tail(q)) \in Nat
    BY <1>1
  <2> QED
    BY <2>1, <2>2
<1>4. One(Head(q) = p) \in Nat
  BY DEF One
<1>5. Due(q, p) = Due(Tail(q), p) + One(Head(q) = p)
  BY <1>2, <1>3, <1>4, DueOne
<1> QED
  BY <1>1, <1>5

LEMMA DueAppended ==
  ASSUME NEW X, NEW q \in Seq(X), NEW v \in X, NEW p
  PROVE  Due(Append(q, v), p) = Due(q, p) + One(v = p)
<1>1. <<v>> \in Seq(X) /\ Append(q, v) = q \o <<v>>
  OBVIOUS
<1>2. Due(q \o <<v>>, p) = Due(q, p) + Due(<<v>>, p)
  BY <1>1, DueConcat
<1> QED
  BY <1>1, <1>2, DueOne

(* A value is not in a sequence if and only if it is there no time.         *)
LEMMA DueNone ==
  ASSUME NEW X, NEW q \in Seq(X), NEW p
  PROVE  Due(q, p) = 0 <=> \A i \in DOMAIN q : q[i] # p
<1> DEFINE P == {i \in DOMAIN q : q[i] = p}
<1>1. P \in SUBSET (1 .. Len(q)) /\ Len(q) \in Nat
  OBVIOUS
<1>2. IsFiniteSet(P)
  BY <1>1, PositionsFinite
<1>3. Cardinality(P) = 0 <=> P = {}
  BY <1>2, FS_EmptySet
<1> QED
  BY <1>3 DEF Due

(* The same for the nodes of a tree by their paths                          *)
PathsOf(t) == [i \in DOMAIN t |-> t[i].path]

LEMMA TimesAreDue ==
  ASSUME NEW t \in Seq(Nodes), NEW p
  PROVE  PathsOf(t) \in Seq(Paths) /\ Len(PathsOf(t)) = Len(t) /\ Times(t, p) = Due(PathsOf(t), p)
<1>1. Len(t) \in Nat /\ DOMAIN t = 1 .. Len(t)
  OBVIOUS
<1>2. ASSUME NEW i \in 1 .. Len(t)
      PROVE  t[i].path \in Paths
  <2>1. t[i] \in Nodes
    BY <1>1
  <2> QED
    BY <2>1 DEF Nodes
<1>3. PathsOf(t) \in Seq(Paths) /\ Len(PathsOf(t)) = Len(t) /\ DOMAIN PathsOf(t) = DOMAIN t
  BY <1>1, <1>2 DEF PathsOf
<1>4. Positions(t, p) = {i \in DOMAIN PathsOf(t) : PathsOf(t)[i] = p}
  BY <1>3 DEF Positions, PathsOf
<1> QED
  BY <1>3, <1>4 DEF Times, Due

LEMMA TimesType ==
  ASSUME NEW t \in Seq(Nodes), NEW p
  PROVE  /\ Times(t, p) \in Nat
         /\ Times(t, p) = 0 <=> ~Has(t, p)
<1>1. Len(t) \in Nat /\ DOMAIN t = 1 .. Len(t)
  OBVIOUS
<1>2. Times(t, p) \in Nat
  BY <1>1, PositionsFinite DEF Times, Positions
<1>3. IsFiniteSet(Positions(t, p))
  BY <1>1, PositionsFinite DEF Positions
<1>4. Times(t, p) = 0 <=> Positions(t, p) = {}
  BY <1>3, FS_EmptySet DEF Times
<1> QED
  BY <1>2, <1>4 DEF Positions, Has

LEMMA TimesConcat ==
  ASSUME NEW t \in Seq(Nodes), NEW r \in Seq(Nodes), NEW p
  PROVE  t \o r \in Seq(Nodes) /\ Times(t \o r, p) = Times(t, p) + Times(r, p)
<1>1. /\ t \o r \in Seq(Nodes) /\ Len(t \o r) = Len(t) + Len(r)
      /\ Len(t) \in Nat /\ Len(r) \in Nat
  BY ConcatProperties
<1>2. /\ PathsOf(t) \in Seq(Paths) /\ PathsOf(r) \in Seq(Paths) /\ PathsOf(t \o r) \in Seq(Paths)
      /\ Len(PathsOf(t)) = Len(t) /\ Len(PathsOf(r)) = Len(r) /\ Len(PathsOf(t \o r)) = Len(t \o r)
  BY <1>1, TimesAreDue
<1>3. /\ PathsOf(t) \o PathsOf(r) \in Seq(Paths)
      /\ Len(PathsOf(t) \o PathsOf(r)) = Len(t) + Len(r)
  <2>1. Len(PathsOf(t) \o PathsOf(r)) = Len(PathsOf(t)) + Len(PathsOf(r))
    BY <1>2, ConcatProperties
  <2>2. PathsOf(t) \o PathsOf(r) \in Seq(Paths)
    BY <1>2, ConcatProperties
  <2> QED
    BY <1>2, <2>1, <2>2
<1>4. ASSUME NEW i \in 1 .. (Len(t) + Len(r))
      PROVE  PathsOf(t \o r)[i] = (PathsOf(t) \o PathsOf(r))[i]
  <2>1. (PathsOf(t) \o PathsOf(r))[i]
          = IF i <= Len(t) THEN PathsOf(t)[i] ELSE PathsOf(r)[i - Len(t)]
    BY <1>1, <1>2, ConcatProperties
  <2>2. (t \o r)[i] = IF i <= Len(t) THEN t[i] ELSE r[i - Len(t)]
    BY <1>1, ConcatProperties
  <2>3. PathsOf(t \o r)[i] = (t \o r)[i].path
    BY <1>1 DEF PathsOf
  <2>4. CASE i <= Len(t)
    <3>1. i \in DOMAIN t
      BY <1>1, <2>4
    <3>2. PathsOf(t)[i] = t[i].path
      BY <3>1 DEF PathsOf
    <3> QED
      BY <2>1, <2>2, <2>3, <2>4, <3>2
  <2>5. CASE ~(i <= Len(t))
    <3>1. i - Len(t) \in DOMAIN r
      BY <1>1, <2>5
    <3>2. PathsOf(r)[i - Len(t)] = r[i - Len(t)].path
      BY <3>1 DEF PathsOf
    <3> QED
      BY <2>1, <2>2, <2>3, <2>5, <3>2
  <2> QED
    BY <2>4, <2>5
<1>5. PathsOf(t \o r) = PathsOf(t) \o PathsOf(r)
  BY <1>1, <1>2, <1>3, <1>4, SeqEqual
<1>6. Due(PathsOf(t) \o PathsOf(r), p) = Due(PathsOf(t), p) + Due(PathsOf(r), p)
  BY <1>2, DueConcat
<1> QED
  BY <1>1, <1>5, <1>6, TimesAreDue

LEMMA TimesOne ==
  ASSUME NEW n \in Nodes, NEW p
  PROVE  /\ <<n>> \in Seq(Nodes) /\ Times(<<n>>, p) = One(n.path = p)
         /\ << >> \in Seq(Nodes) /\ Times(<< >>, p) = 0
<1>1. Positions(<<n>>, p) = IF n.path = p THEN {1} ELSE {}
  BY DEF Positions
<1>2. Positions(<< >>, p) = {}
  BY DEF Positions
<1>3. <<n>> \in Seq(Nodes) /\ << >> \in Seq(Nodes)
  OBVIOUS
<1>4. Cardinality({1}) = 1 /\ Cardinality({}) = 0
  BY FS_EmptySet, FS_Singleton
<1>5. Times(<<n>>, p) = IF n.path = p THEN Cardinality({1}) ELSE Cardinality({})
  BY <1>1 DEF Times
<1>6. Times(<< >>, p) = Cardinality({})
  BY <1>2 DEF Times
<1> QED
  BY <1>3, <1>4, <1>5, <1>6 DEF One

(* What is kept of a tree is kept as often as it was at those positions.    *)
LEMMA KeptTimes ==
  ASSUME NEW t \in Seq(Nodes), NEW S \in SUBSET DOMAIN t, NEW p
  PROVE  Kept(t, S) \in Seq(Nodes) /\ Times(Kept(t, S), p) = Cardinality(Positions(t, p) \cap S)
<1> DEFINE size == Cardinality(S)
           rank(i) == Cardinality({j \in S : j < i})
           at(n) == CHOOSE i \in S : rank(i) = n - 1
           kept == Kept(t, S)
           A == Positions(kept, p)
           B == Positions(t, p) \cap S
           f == [n \in A |-> at(n)]
<1>1. Len(t) \in Nat /\ DOMAIN t = 1 .. Len(t) /\ S \in SUBSET (1 .. Len(t)) /\ S \subseteq Int
  OBVIOUS
<1>2. IsFiniteSet(S) /\ size \in Nat
  BY <1>1, PositionsFinite
<1>3. ASSUME NEW n \in 1 .. size
      PROVE  at(n) \in S /\ rank(at(n)) = n - 1
  <2>1. \E i \in S : rank(i) = n - 1
    BY <1>1, Ranks
  <2> HIDE DEF rank
  <2> QED
    BY <2>1
<1>4. kept = [n \in 1 .. size |-> t[at(n)]]
  BY DEF Kept
<1> HIDE DEF size, at, kept
<1>5. ASSUME NEW n \in 1 .. size
      PROVE  kept[n] = t[at(n)] /\ kept[n] \in Nodes
  <2>1. kept[n] = t[at(n)]
    BY <1>4
  <2>2. at(n) \in 1 .. Len(t)
    BY <1>1, <1>3
  <2>3. t[at(n)] \in Nodes
    BY <2>2
  <2> QED
    BY <2>1, <2>3
<1>6. kept \in Seq(Nodes) /\ DOMAIN kept = 1 .. size
  BY <1>2, <1>4, <1>5
<1>7. ASSUME NEW i \in S
      PROVE  rank(i) + 1 \in 1 .. size /\ at(rank(i) + 1) = i
  <2> DEFINE low(k) == {j \in S : j < k}
  <2>1. i \notin low(i) /\ low(i) \in SUBSET S /\ i \in Int
    BY <1>1
  <2>2. rank(i) <= size /\ rank(i) # size /\ rank(i) \in Nat
    BY <1>2, <2>1, FS_Subset, FS_CardinalityType DEF size
  <2>3. rank(i) + 1 \in 1 .. size /\ (rank(i) + 1) - 1 = rank(i)
    <3> HIDE DEF rank
    <3> QED
      BY <1>2, <2>2
  <2>4. at(rank(i) + 1) \in S /\ rank(at(rank(i) + 1)) = rank(i)
    <3> HIDE DEF rank
    <3> QED
      BY <1>3, <2>3
  <2>5. ASSUME NEW k \in S, rank(k) = rank(i)
        PROVE  k = i
    <3>1. ASSUME NEW a \in S, NEW b \in S, a < b, rank(a) = rank(b)
          PROVE  FALSE
      <4>1. a \in Int /\ b \in Int
        BY <1>1
      <4>2. \A j \in low(a) : j \in low(b)
        BY <1>1, <3>1, <4>1
      <4>3. low(a) \in SUBSET low(b) /\ a \in low(b) /\ a \notin low(a)
        BY <3>1, <4>1, <4>2
      <4>4. low(b) \in SUBSET S
        OBVIOUS
      <4>5. IsFiniteSet(low(b))
        BY <1>2, <4>4, FS_Subset
      <4> HIDE DEF low
      <4>6. Cardinality(low(a)) # Cardinality(low(b))
        BY <4>3, <4>5, FS_Subset
      <4> QED
        BY <3>1, <4>6 DEF low
    <3>2. k \in Int /\ i \in Int
      BY <1>1
    <3> HIDE DEF rank
    <3> QED
      BY <2>5, <3>1, <3>2
  <2> QED
    BY <2>3, <2>4, <2>5
<1>8. ASSUME NEW n \in A
      PROVE  n \in 1 .. size /\ at(n) \in B
  <2>1. n \in 1 .. size /\ kept[n].path = p
    BY <1>6 DEF Positions
  <2> QED
    BY <1>1, <1>3, <1>5, <2>1 DEF Positions
<1>9. ASSUME NEW i \in B
      PROVE  rank(i) + 1 \in A /\ at(rank(i) + 1) = i
  <2>1. i \in S /\ t[i].path = p
    BY DEF Positions
  <2> HIDE DEF rank
  <2>2. rank(i) + 1 \in 1 .. size /\ at(rank(i) + 1) = i
    BY <1>7, <2>1
  <2> QED
    BY <1>5, <1>6, <2>1, <2>2 DEF Positions
<1>10. f \in Bijection(A, B)
  <2> HIDE DEF A, B
  <2>1. f \in [A -> B]
    BY <1>8
  <2>2. ASSUME NEW x \in A, NEW y \in A, f[x] = f[y]
        PROVE  x = y
    <3>1. at(x) = at(y) /\ x \in 1 .. size /\ y \in 1 .. size
      BY <1>8, <2>2
    <3>2. x - 1 = y - 1
      <4> HIDE DEF rank
      <4> QED
        BY <1>3, <3>1
    <3> QED
      BY <3>1, <3>2
  <2>3. ASSUME NEW i \in B
        PROVE  \E x \in A : f[x] = i
    <3> HIDE DEF rank
    <3> QED
      BY <1>9
  <2> HIDE DEF f
  <2>4. DOMAIN f = A
    BY <2>1
  <2> QED
    BY <2>1, <2>2, <2>3, <2>4 DEF Bijection, Injection, Surjection, IsInjective
<1>11. IsFiniteSet(A)
  BY <1>2, <1>6, PositionsFinite DEF Positions
<1>12. Cardinality(A) = Cardinality(B)
  <2> HIDE DEF A, B, f
  <2> QED
    BY <1>10, <1>11, FS_Bijection DEF ExistsBijection
<1> QED
  BY <1>6, <1>12 DEF Times, kept

(* A node that is in the tree is found.                                     *)
LEMMA FindsNode ==
  ASSUME NEW t \in Seq(Nodes), NEW p, Has(t, p)
  PROVE  Find(t, p) \in DOMAIN t /\ t[Find(t, p)].path = p
<1>1. Len(t) \in Nat /\ DOMAIN t = 1 .. Len(t) /\ Positions(t, p) \in SUBSET (1 .. Len(t))
  BY DEF Positions
<1>2. IsFiniteSet(Positions(t, p)) /\ Cardinality(Positions(t, p)) \in Nat \ {0}
  <2>1. IsFiniteSet(Positions(t, p)) /\ Cardinality(Positions(t, p)) \in Nat
    BY <1>1, PositionsFinite
  <2>2. Positions(t, p) # {}
    BY DEF Has, Positions
  <2> QED
    BY <2>1, <2>2, FS_EmptySet
<1>3. PICK i \in Positions(t, p) : Cardinality({j \in Positions(t, p) : j < i}) = 1 - 1
  <2>1. 1 \in 1 .. Cardinality(Positions(t, p))
    BY <1>2
  <2> QED
    BY <1>1, <2>1, Ranks
<1>4. {j \in Positions(t, p) : j < i} = {}
  <2> DEFINE low == {j \in Positions(t, p) : j < i}
  <2>1. low \in SUBSET Positions(t, p)
    OBVIOUS
  <2>2. IsFiniteSet(low)
    BY <1>2, <2>1, FS_Subset
  <2>3. Cardinality(low) = 0
    BY <1>3
  <2> HIDE DEF low
  <2>4. low = {}
    BY <2>2, <2>3, FS_EmptySet
  <2> QED
    BY <2>4 DEF low
<1>5. i \in DOMAIN t /\ t[i].path = p
  BY DEF Positions
<1>6. ASSUME NEW j \in 1 .. (i - 1)
      PROVE  t[j].path # p
  <2>1. j \in DOMAIN t /\ j < i
    BY <1>1, <1>5
  <2> QED
    BY <1>4, <2>1 DEF Positions
<1> QED
  BY <1>5, <1>6 DEF Find

(* A detached node is gone, and with a directory what was in it.            *)
LEMMA UpType ==
  /\ Dir \in Paths /\ Root \notin Paths /\ Up(Dir) = Root
  /\ \A p \in Paths : Up(p) \in {Root, Dir} /\ (Up(p) = Dir => p \in Files)
BY FileExplorerAssumption DEF Paths, Up

LEMMA DetachedTimes ==
  ASSUME NEW t \in Seq(Nodes), NEW i \in DOMAIN t, NEW p \in Paths
  PROVE  /\ Detached(t, i) \in Seq(Nodes)
         /\ Times(Detached(t, i), p) =
              IF p = t[i].path THEN Times(t, p) - 1
              ELSE IF t[i].path = Dir /\ Up(p) = Dir THEN 0 ELSE Times(t, p)
<1> DEFINE gone == {i} \cup (IF t[i].path = Dir THEN Children(t) ELSE {})
           S == DOMAIN t \ gone
<1>1. Len(t) \in Nat /\ DOMAIN t = 1 .. Len(t)
  OBVIOUS
<1>2. IsFiniteSet(Positions(t, p))
  BY <1>1, PositionsFinite DEF Positions
<1>3. Kept(t, S) \in Seq(Nodes) /\ Times(Kept(t, S), p) = Cardinality(Positions(t, p) \cap S)
  <2>1. S \in SUBSET DOMAIN t
    OBVIOUS
  <2> HIDE DEF S
  <2> QED
    BY <2>1, KeptTimes
<1>4. Detached(t, i) = Kept(t, S)
  BY DEF Detached
<1>5. CASE p = t[i].path
  <2>1. \A j \in Positions(t, p) : j \in Children(t) => p # Dir
    BY UpType DEF Positions, Children
  <2>2. Positions(t, p) \cap S = Positions(t, p) \ {i} /\ i \in Positions(t, p)
    BY <1>5, <2>1 DEF Positions
  <2>3. Cardinality(Positions(t, p) \ {i}) = Cardinality(Positions(t, p)) - 1
    BY <1>2, <2>2, FS_RemoveElement
  <2> QED
    BY <1>3, <1>4, <1>5, <2>2, <2>3 DEF Times
<1>6. CASE p # t[i].path /\ t[i].path = Dir /\ Up(p) = Dir
  <2>1. Positions(t, p) \cap S = {}
    BY <1>6 DEF Positions, Children
  <2> QED
    BY <1>3, <1>4, <1>6, <2>1, FS_EmptySet
<1>7. CASE p # t[i].path /\ ~(t[i].path = Dir /\ Up(p) = Dir)
  <2>1. Positions(t, p) \cap S = Positions(t, p)
    BY <1>7 DEF Positions, Children
  <2> QED
    BY <1>3, <1>4, <1>7, <2>1 DEF Times
<1> QED
  BY <1>3, <1>4, <1>5, <1>6, <1>7

LEMMA ChildrenTimes ==
  ASSUME NEW t \in Seq(Nodes), NEW p \in Paths
  PROVE  /\ Kept(t, Children(t)) \in Seq(Nodes)
         /\ Times(Kept(t, Children(t)), p) = IF Up(p) = Dir THEN Times(t, p) ELSE 0
<1>1. Children(t) \in SUBSET DOMAIN t
  BY DEF Children
<1>2. /\ Kept(t, Children(t)) \in Seq(Nodes)
      /\ Times(Kept(t, Children(t)), p) = Cardinality(Positions(t, p) \cap Children(t))
  BY <1>1, KeptTimes
<1>3. CASE Up(p) = Dir
  <2>1. Positions(t, p) \cap Children(t) = Positions(t, p)
    BY <1>3 DEF Positions, Children
  <2> QED
    BY <1>2, <1>3, <2>1 DEF Times
<1>4. CASE Up(p) # Dir
  <2>1. Positions(t, p) \cap Children(t) = {}
    BY <1>4 DEF Positions, Children
  <2> QED
    BY <1>2, <1>4, <2>1, FS_EmptySet
<1> QED
  BY <1>3, <1>4

(* What a directory holds is listed, each path once.                        *)
LEMMA EntriesTimes ==
  ASSUME NEW p, NEW q \in Paths
  PROVE  /\ Entries(p) \in Seq(Nodes)
         /\ Times(Entries(p), q) = One(q \in disk \ GitIgnored /\ Up(q) = p)
<1> DEFINE S == (Below(p) \cap disk) \ GitIgnored
           here == SetToSeq(S)
           size == Cardinality(S)
<1>1. S \in SUBSET Paths /\ IsFiniteSet(Paths)
  <2>1. IsFiniteSet(Files \cup {Dir})
    BY FileExplorerAssumption, FS_AddElement
  <2> QED
    BY <2>1 DEF Paths, Below
<1>2. IsFiniteSet(S)
  BY <1>1, FS_Subset
<1>3. size \in Nat /\ ExistsBijection(1 .. size, S)
  BY <1>2, FS_CardinalityType
<1> HIDE DEF S, size
<1>4. here \in [1 .. size -> S] /\ IsInjective(here)
  <2>1. \E f \in [1 .. size -> S] : IsInjective(f)
    BY <1>3 DEF ExistsBijection, Bijection, Injection
  <2> QED
    BY <2>1 DEF SetToSeq, size
<1> HIDE DEF here
<1>5. IsFiniteSet(1 .. size) /\ Cardinality(1 .. size) = size
  BY <1>3, FS_Interval
<1>6. here \in Surjection(1 .. size, S)
  <2>1. here \in Injection(1 .. size, S)
    BY <1>4 DEF Injection
  <2>2. Cardinality(1 .. size) = Cardinality(S)
    BY <1>5 DEF size
  <2> QED
    BY <1>2, <2>1, <2>2, FS_Injection
<1>7. DOMAIN here = 1 .. size
  BY <1>4
<1>8. Entries(p) = [i \in 1 .. size |-> Node(here[i])]
  BY <1>7 DEF Entries, here, S
<1>9. ASSUME NEW i \in 1 .. size
      PROVE  Node(here[i]) \in Nodes /\ Node(here[i]).path = here[i]
  <2>1. here[i] \in Paths
    BY <1>1, <1>4
  <2> QED
    BY <2>1 DEF Node, Nodes
<1>10. Entries(p) \in Seq(Nodes)
  BY <1>3, <1>8, <1>9
<1>11. Positions(Entries(p), q) = {i \in 1 .. size : here[i] = q}
  BY <1>8, <1>9 DEF Positions
<1>12. CASE q \in S
  <2>1. PICK i \in 1 .. size : here[i] = q
    BY <1>6, <1>12 DEF Surjection
  <2>2. {j \in 1 .. size : here[j] = q} = {i}
    BY <1>4, <1>7, <2>1 DEF IsInjective
  <2> QED
    BY <1>11, <2>2, <1>12, FS_Singleton, <1>10 DEF Times, One, S, Below
<1>13. CASE q \notin S
  <2>1. {j \in 1 .. size : here[j] = q} = {}
    BY <1>4, <1>13
  <2> QED
    BY <1>11, <2>1, <1>13, FS_EmptySet, <1>10 DEF Times, One, S, Below
<1> QED
  BY <1>12, <1>13

(* What a synchronizer leaves of a tree, and that what it tells are changes *)
SyncTypeOK(s) == s.tree \in Seq(Nodes) /\ s.changes \in Seq(Changes)

LEMMA NodeType ==
  ASSUME NEW p \in Paths
  PROVE  Node(p) \in Nodes /\ Node(p).path = p
BY DEF Node, Nodes

LEMMA AddTimes ==
  ASSUME NEW t \in Seq(Nodes), NEW p \in Paths
  PROVE  /\ SyncTypeOK(AddSync(t, p))
         /\ \A x \in Paths : Times(AddSync(t, p).tree, x) =
              IF Has(t, p) THEN Times(t, x)
              ELSE Times(t, x) + One(x = p) + One(x = Up(p) /\ ~Has(t, x))
<1> DEFINE added == MissingDirectories(t, p) \o <<Node(p)>>
           told == [i \in DOMAIN added |-> Change("add", added[i].id, added[i].path)]
<1>1. /\ MissingDirectories(t, p) \in Seq(Nodes) /\ <<Node(p)>> \in Seq(Nodes)
      /\ \A x \in Paths : Times(MissingDirectories(t, p), x) = One(x = Up(p) /\ ~Has(t, x))
  <2>1. CASE Up(p) = Root \/ Has(t, Up(p))
    <3>1. MissingDirectories(t, p) = << >>
      BY <2>1 DEF MissingDirectories
    <3>2. \A x \in Paths : ~(x = Up(p) /\ ~Has(t, x))
      BY <2>1, UpType
    <3> QED
      BY <3>1, <3>2, NodeType, TimesOne DEF One
  <2>2. CASE ~(Up(p) = Root \/ Has(t, Up(p)))
    <3>1. MissingDirectories(t, p) = <<Node(Up(p))>> /\ Up(p) \in Paths
      BY <2>2, UpType DEF MissingDirectories
    <3>2. Node(Up(p)) \in Nodes /\ Node(Up(p)).path = Up(p)
      BY <3>1, NodeType
    <3>3. \A x \in Paths : Times(<<Node(Up(p))>>, x) = One(Up(p) = x)
      BY <3>2, TimesOne
    <3>4. \A x \in Paths : One(Up(p) = x) = One(x = Up(p) /\ ~Has(t, x))
      BY <2>2 DEF One
    <3>5. <<Node(Up(p))>> \in Seq(Nodes) /\ <<Node(p)>> \in Seq(Nodes)
      BY <3>2, NodeType
    <3> QED
      BY <3>1, <3>3, <3>4, <3>5
  <2> QED
    BY <2>1, <2>2
<1>2. \A x \in Paths : Times(<<Node(p)>>, x) = One(x = p)
  <2>1. \A x \in Paths : Times(<<Node(p)>>, x) = One(p = x)
    BY NodeType, TimesOne
  <2> QED
    BY <2>1 DEF One
<1>3. added \in Seq(Nodes)
  BY <1>1, TimesConcat
<1>4. ASSUME NEW x \in Paths
      PROVE  Times(added, x) = One(x = Up(p) /\ ~Has(t, x)) + One(x = p)
  <2>1. Times(added, x) = Times(MissingDirectories(t, p), x) + Times(<<Node(p)>>, x)
    BY <1>1, TimesConcat
  <2>2. /\ Times(MissingDirectories(t, p), x) = One(x = Up(p) /\ ~Has(t, x))
        /\ Times(<<Node(p)>>, x) = One(x = p)
    BY <1>1, <1>2
  <2> HIDE DEF added
  <2> QED
    BY <2>1, <2>2
<1> HIDE DEF added
<1>5. t \o added \in Seq(Nodes)
  BY <1>3, TimesConcat
<1>6. ASSUME NEW x \in Paths
      PROVE  Times(t \o added, x) = Times(t, x) + One(x = p) + One(x = Up(p) /\ ~Has(t, x))
  <2>1. Times(t \o added, x) = Times(t, x) + Times(added, x)
    BY <1>3, TimesConcat
  <2>2. Times(t, x) \in Nat /\ One(x = p) \in Nat /\ One(x = Up(p) /\ ~Has(t, x)) \in Nat
    BY TimesType DEF One
  <2> QED
    BY <1>4, <2>1, <2>2
<1>7. told \in Seq(Changes)
  <2>1. Len(added) \in Nat /\ DOMAIN added = 1 .. Len(added)
    BY <1>3
  <2>2. ASSUME NEW i \in 1 .. Len(added)
        PROVE  Change("add", added[i].id, added[i].path) \in Changes
    <3>1. added[i] \in Nodes
      BY <1>3
    <3> QED
      BY <3>1 DEF Nodes, Change, Changes
  <2> QED
    BY <2>1, <2>2
<1>8. AddSync(t, p) = IF Has(t, p) THEN Sync(t, << >>) ELSE Sync(t \o added, told)
  BY DEF AddSync, added
<1> HIDE DEF told
<1>9. SyncTypeOK(AddSync(t, p))
  <2>1. << >> \in Seq(Changes)
    OBVIOUS
  <2> QED
    BY <1>5, <1>7, <1>8, <2>1 DEF SyncTypeOK, Sync
<1>10. AddSync(t, p).tree = IF Has(t, p) THEN t ELSE t \o added
  BY <1>8 DEF Sync
<1> QED
  BY <1>6, <1>9, <1>10

LEMMA RemoveTimes ==
  ASSUME NEW t \in Seq(Nodes), NEW p \in Paths
  PROVE  /\ SyncTypeOK(RemoveSync(t, p))
         /\ \A x \in Paths : Times(RemoveSync(t, p).tree, x) =
              IF ~Has(t, p) THEN Times(t, x)
              ELSE IF x = p THEN Times(t, x) - 1
              ELSE IF p = Dir /\ Up(x) = Dir THEN 0 ELSE Times(t, x)
<1>1. CASE Has(t, p)
  <2> DEFINE i == Find(t, p)
  <2>1. i \in DOMAIN t /\ t[i].path = p
    BY <1>1, FindsNode
  <2>2. t[i] \in Nodes
    BY <2>1
  <2>3. RemoveSync(t, p) = Sync(Detached(t, i), <<Change("delete", t[i].id, p)>>)
    BY <1>1 DEF RemoveSync
  <2> HIDE DEF i
  <2>4. Detached(t, i) \in Seq(Nodes)
    BY <2>1, DetachedTimes
  <2>5. <<Change("delete", t[i].id, p)>> \in Seq(Changes)
    BY <2>2 DEF Change, Changes, Nodes
  <2>6. SyncTypeOK(RemoveSync(t, p)) /\ RemoveSync(t, p).tree = Detached(t, i)
    BY <2>3, <2>4, <2>5 DEF SyncTypeOK, Sync
  <2> QED
    BY <1>1, <2>1, <2>6, DetachedTimes
<1>2. CASE ~Has(t, p)
  <2>1. RemoveSync(t, p) = Sync(t, <<Change("delete", p, p)>>)
    BY <1>2 DEF RemoveSync
  <2>2. <<Change("delete", p, p)>> \in Seq(Changes)
    BY DEF Change, Changes
  <2> QED
    BY <1>2, <2>1, <2>2 DEF SyncTypeOK, Sync
<1> QED
  BY <1>1, <1>2

(* A move leaves the tree as it was but for the path that was moved and the *)
(* one it moved to, if its parent is there to take it.                      *)
LEMMA MoveTimes ==
  ASSUME NEW t \in Seq(Nodes), NEW p \in Paths, NEW q \in Paths, SameKind(p, q)
  PROVE  /\ SyncTypeOK(MoveSync(t, p, q))
         /\ \A x \in Paths : Times(MoveSync(t, p, q).tree, x) =
              IF ~Has(t, p) THEN Times(t, x)
              ELSE IF Up(q) = Dir /\ ~Has(t, Dir) THEN Times(t, x) - One(x = p)
              ELSE Times(t, x) - One(x = p) + One(x = q)
<1>1. CASE ~Has(t, p)
  <2>1. MoveSync(t, p, q) = Sync(t, << >>) /\ << >> \in Seq(Changes)
    BY <1>1 DEF MoveSync
  <2> QED
    BY <1>1, <2>1 DEF SyncTypeOK, Sync
<1>2. CASE Has(t, p)
  <2> DEFINE i == Find(t, p)
             rest == Detached(t, i)
             below == IF p = Dir THEN Kept(t, Children(t)) ELSE << >>
             moved == <<[t[i] EXCEPT !.path = q]>>
             told == <<Change("move", t[i].id, q)>>
  <2>1. i \in DOMAIN t /\ t[i].path = p /\ t[i] \in Nodes
    BY <1>2, FindsNode
  <2>2. /\ rest \in Seq(Nodes)
        /\ \A x \in Paths : Times(rest, x) = IF x = p THEN Times(t, x) - 1
                                             ELSE IF p = Dir /\ Up(x) = Dir THEN 0 ELSE Times(t, x)
    BY <2>1, DetachedTimes
  <2>3. /\ below \in Seq(Nodes)
        /\ \A x \in Paths : Times(below, x) = IF p = Dir /\ Up(x) = Dir THEN Times(t, x) ELSE 0
    BY <2>1, ChildrenTimes, TimesOne
  <2>4. moved \in Seq(Nodes) /\ \A x \in Paths : Times(moved, x) = One(q = x)
    <3>1. [t[i] EXCEPT !.path = q] \in Nodes /\ [t[i] EXCEPT !.path = q].path = q
      BY <2>1 DEF Nodes
    <3> DEFINE n == [t[i] EXCEPT !.path = q]
    <3>3. n \in Nodes /\ n.path = q
      BY <3>1
    <3> HIDE DEF n
    <3>2. <<n>> \in Seq(Nodes) /\ \A x \in Paths : Times(<<n>>, x) = One(q = x)
      BY <3>3, TimesOne
    <3> QED
      BY <3>2 DEF n
  <2>5. told \in Seq(Changes) /\ << >> \in Seq(Changes)
    BY <2>1 DEF Change, Changes, Nodes
  <2>6. MoveSync(t, p, q) = IF Up(q) # Root /\ ~Has(rest, Up(q)) THEN Sync(rest, << >>)
                            ELSE Sync(rest \o moved \o below, told)
    BY <1>2 DEF MoveSync
  <2> HIDE DEF i, rest, below, moved, told
  <2>7. /\ rest \o moved \o below \in Seq(Nodes)
        /\ \A x \in Paths : Times(rest \o moved \o below, x)
                              = Times(rest, x) + Times(moved, x) + Times(below, x)
    <3>1. rest \o moved \in Seq(Nodes) /\ \A x \in Paths : Times(rest \o moved, x) = Times(rest, x) + Times(moved, x)
      BY <2>2, <2>4, TimesConcat
    <3>2. /\ (rest \o moved) \o below \in Seq(Nodes)
          /\ \A x \in Paths : Times((rest \o moved) \o below, x) = Times(rest \o moved, x) + Times(below, x)
      BY <2>3, <3>1, TimesConcat
    <3> QED
      BY <3>1, <3>2
  <2>8. SyncTypeOK(MoveSync(t, p, q))
    BY <2>2, <2>5, <2>6, <2>7 DEF SyncTypeOK, Sync
  <2>9. Up(q) # Root /\ ~Has(rest, Up(q)) <=> Up(q) = Dir /\ ~Has(t, Dir)
    <3>1. Up(q) # Root <=> Up(q) = Dir
      BY UpType
    <3>2. ASSUME Up(q) = Dir
          PROVE  Has(rest, Dir) <=> Has(t, Dir)
      <4>1. p # Dir
        BY <3>2, UpType DEF SameKind
      <4>2. Times(rest, Dir) = Times(t, Dir)
        BY <2>2, <4>1, UpType
      <4> QED
        BY <2>2, <4>2, TimesType
    <3> QED
      BY <3>1, <3>2
  <2>10. ASSUME NEW x \in Paths
         PROVE  Times(MoveSync(t, p, q).tree, x) =
                  IF Up(q) = Dir /\ ~Has(t, Dir) THEN Times(t, x) - One(x = p)
                  ELSE Times(t, x) - One(x = p) + One(x = q)
    <3>1. CASE Up(q) = Dir /\ ~Has(t, Dir)
      <4>1. MoveSync(t, p, q).tree = rest
        BY <2>6, <2>9, <3>1 DEF Sync
      <4>2. p # Dir
        BY <3>1, UpType DEF SameKind
      <4>3. Times(t, x) \in Nat
        BY TimesType
      <4> QED
        BY <2>2, <3>1, <4>1, <4>2, <4>3 DEF One
    <3>2. CASE ~(Up(q) = Dir /\ ~Has(t, Dir))
      <4>1. MoveSync(t, p, q).tree = rest \o moved \o below
        BY <2>6, <2>9, <3>2 DEF Sync
      <4>2. Times(MoveSync(t, p, q).tree, x) = Times(rest, x) + Times(moved, x) + Times(below, x)
        BY <2>7, <4>1
      <4>3. Times(t, x) \in Nat /\ (p = Dir /\ x = p => Up(x) # Dir)
        BY TimesType, UpType
      <4>4. Times(moved, x) = One(x = q)
        BY <2>4 DEF One
      <4>5. Times(rest, x) + Times(below, x) = Times(t, x) - One(x = p)
        BY <2>2, <2>3, <4>3 DEF One
      <4>6. Times(rest, x) \in Int /\ Times(below, x) \in Int /\ One(x = p) \in Int /\ One(x = q) \in Int
        BY <2>2, <2>3, <4>3 DEF One
      <4> QED
        BY <3>2, <4>2, <4>3, <4>4, <4>5, <4>6
    <3> QED
      BY <3>1, <3>2
  <2> QED
    BY <1>2, <2>8, <2>10
<1> QED
  BY <1>1, <1>2

(****************************************************************************)
(* Types                                                                    *)
(****************************************************************************)
LEMMA FullType ==
  ASSUME NEW t \in Seq(Nodes)
  PROVE  /\ Full(t) \in Seq(Nodes)
         /\ \A x \in Paths : Times(Full(t), x) =
              IF Has(t, Dir) /\ Dir \in disk
              THEN Times(t, x) + One(x \in disk \ GitIgnored /\ Up(x) = Dir) ELSE Times(t, x)
<1>1. CASE ~Has(t, Dir) \/ Dir \notin disk
  BY <1>1 DEF Full
<1>2. CASE Has(t, Dir) /\ Dir \in disk
  <2> DEFINE r == [i \in DOMAIN t |-> [t[i] EXCEPT !.loaded = TRUE]]
  <2>1. Len(t) \in Nat /\ DOMAIN t = 1 .. Len(t)
    OBVIOUS
  <2>2. ASSUME NEW i \in 1 .. Len(t)
        PROVE  [t[i] EXCEPT !.loaded = TRUE] \in Nodes /\ [t[i] EXCEPT !.loaded = TRUE].path = t[i].path
    <3>1. t[i] \in Nodes
      BY <2>1
    <3> QED
      BY <3>1 DEF Nodes
  <2>3. r \in Seq(Nodes) /\ DOMAIN r = DOMAIN t
    BY <2>1, <2>2
  <2>4. \A i \in DOMAIN t : r[i].path = t[i].path
    BY <2>1, <2>2
  <2>5. Full(t) = r \o Entries(Dir)
    BY <1>2 DEF Full
  <2> HIDE DEF r
  <2>6. \A x : Times(r, x) = Times(t, x)
    <3>1. \A x : Positions(r, x) = Positions(t, x)
      BY <2>3, <2>4 DEF Positions
    <3> QED
      BY <3>1 DEF Times
  <2>7. Entries(Dir) \in Seq(Nodes)
    BY EntriesTimes, UpType
  <2>8. Full(t) \in Seq(Nodes) /\ \A x \in Paths : Times(Full(t), x) = Times(t, x) + Times(Entries(Dir), x)
    BY <2>3, <2>5, <2>6, <2>7, TimesConcat
  <2> QED
    BY <1>2, <2>8, EntriesTimes
<1> QED
  BY <1>1, <1>2

LEMMA InitialTypes == Init => ExplorerTypeOK
<1> SUFFICES ASSUME Init
             PROVE  ExplorerTypeOK
  OBVIOUS
<1>1. Entries(Root) \in Seq(Nodes)
  BY EntriesTimes, UpType
<1>2. disk \subseteq Paths
  BY FileExplorerAssumption DEF Init
<1>3. TreeTypeOK
  <2>1. << >> \in Seq(Nodes) /\ << >> \in Seq(Watched)
    OBVIOUS
  <2>2. call \in [Callers -> Calls]
    BY DEF Init, Calls
  <2> QED
    BY <1>1, <1>2, <2>1, <2>2 DEF Init, TreeTypeOK, Rebuilds, Stages
<1>4. ServingTypeOK
  BY DEF Init, ServingTypeOK, Sockets
<1>5. spent \in 0 .. Budget
  BY FileExplorerAssumption DEF Init
<1> QED
  BY <1>3, <1>4, <1>5 DEF ExplorerTypeOK

(* What is spent stays in the budget.                                       *)
LEMMA SpendType ==
  ASSUME ExplorerTypeOK, NEW n \in Nat, Spend(n)
  PROVE  spent' \in 0 .. Budget
BY FileExplorerAssumption DEF ExplorerTypeOK, Spend

LEMMA AnnounceType ==
  ASSUME ServingTypeOK, NEW changes \in Seq(Changes), Announce(changes)
  PROVE  inbox' \in [Subscribers -> Seq(Messages)] /\ announced' \in Nat /\ subscribers' = subscribers
<1> DEFINE numbered == [i \in DOMAIN changes |-> [no |-> announced + i, change |-> changes[i]]]
<1>1. Len(changes) \in Nat /\ DOMAIN changes = 1 .. Len(changes) /\ announced \in Nat
  BY DEF ServingTypeOK
<1>2. ASSUME NEW i \in 1 .. Len(changes)
      PROVE  [no |-> announced + i, change |-> changes[i]] \in Messages
  BY <1>1 DEF Messages
<1>3. numbered \in Seq(Messages)
  BY <1>1, <1>2
<1> HIDE DEF numbered
<1>4. CASE subscribers = {}
  BY <1>4 DEF Announce, events, ServingTypeOK
<1>5. CASE subscribers # {}
  <2>1. /\ inbox' = [s \in Subscribers |-> IF s \in subscribers THEN inbox[s] \o numbered ELSE inbox[s]]
        /\ announced' = announced + Len(changes) /\ subscribers' = subscribers
    BY <1>5 DEF Announce, numbered
  <2>2. ASSUME NEW s \in Subscribers
        PROVE  inbox[s] \in Seq(Messages) /\ inbox[s] \o numbered \in Seq(Messages)
    <3>1. inbox[s] \in Seq(Messages)
      BY DEF ServingTypeOK
    <3> QED
      BY <1>3, <3>1
  <2> QED
    BY <1>1, <2>1, <2>2
<1> QED
  BY <1>4, <1>5

(* Where what is kept for the sessions does not change                      *)
LEMMA ServingTypeKept ==
  ASSUME ServingTypeOK, UNCHANGED <<waiting, events, serving>>
  PROVE  ServingTypeOK'
BY DEF ServingTypeOK, events, serving

LEMMA CallType ==
  ASSUME TreeTypeOK, NEW u \in Callers, call[u] # Idle
  PROVE  /\ call[u].op \in {"add", "modify", "remove", "move"}
         /\ call[u].path \in Paths /\ call[u].to \in Paths /\ call[u].done \in BOOLEAN
         /\ call[u].op = "move" => call[u].path \in Files /\ call[u].to \in Files
<1>1. call[u] \in Calls
  BY DEF TreeTypeOK
<1> QED
  BY <1>1 DEF Calls, Paths

Blurs == {"early", "mixed", "inside", "reused", "swallowed", "crossed", "rebuilt"}

LEMMA CallerTypes ==
  ASSUME ExplorerTypeOK, NEW u \in Callers,
         \/ \E p \in Paths : Add(u, p) \/ Delete(u, p)
         \/ \E f \in Files : Write(u, f)
         \/ \E f, g \in Files : Rename(u, f, g) \/ Move(u, f, g)
         \/ Perform(u) \/ PerformFails(u) \/ Answer(u)
  PROVE  ExplorerTypeOK'
<1> USE DEF ExplorerTypeOK
<1>0. Files \subseteq Paths /\ Early \subseteq Blurs
  BY DEF Paths, Early, Blurs
<1>1. ASSUME NEW op \in {"add", "modify", "remove", "move"}, NEW p \in Paths, NEW q \in Paths,
             op = "move" => p \in Files /\ q \in Files, Begin(u, op, p, q)
      PROVE  ExplorerTypeOK'
  <2>1. call' \in [Callers -> Calls]
    <3>1. [op |-> op, path |-> p, to |-> q, done |-> FALSE] \in Calls
      BY <1>1 DEF Calls
    <3> QED
      BY <1>1, <3>1 DEF Begin, TreeTypeOK
  <2>2. source' \in {"outside", "caller"} /\ blur' \subseteq Blurs
    BY <1>0, <1>1 DEF Begin, Called, TreeTypeOK, Blurs
  <2>3. TreeTypeOK'
    BY <1>1, <2>1, <2>2 DEF Begin, TreeTypeOK, building, Blurs
  <2>4. ServingTypeOK'
    BY <1>1, ServingTypeKept DEF Begin, building
  <2>5. spent' \in 0 .. Budget
    BY <1>1, SpendType DEF Begin
  <2> QED
    BY <2>3, <2>4, <2>5
<1>2. ASSUME Perform(u) \/ PerformFails(u) \/ Answer(u)
      PROVE  ExplorerTypeOK'
  <2>1. call[u] # Idle
    BY <1>2 DEF Perform, PerformFails, Answer
  <2>2. /\ call[u].op \in {"add", "modify", "remove", "move"}
        /\ call[u].path \in Paths /\ call[u].to \in Paths /\ call[u].done \in BOOLEAN
        /\ call[u].op = "move" => call[u].path \in Files /\ call[u].to \in Files
    BY <2>1, CallType
  <2>3. call' \in [Callers -> Calls]
    <3>1. Idle \in Calls /\ [call[u] EXCEPT !.done = TRUE] \in Calls
      <4>1. call[u] \in Calls
        BY DEF TreeTypeOK
      <4> QED
        BY <2>1, <4>1 DEF Calls
    <3>2. \/ call' = [call EXCEPT ![u] = Idle]
          \/ call' = [call EXCEPT ![u] = [call[u] EXCEPT !.done = TRUE]]
      BY <1>2 DEF Perform, PerformFails, Answer, TreeTypeOK
    <3> QED
      BY <3>1, <3>2 DEF TreeTypeOK
  <2>4. disk' \subseteq Paths
    <3>1. Up(call[u].path) \in Paths \cup {Root}
      BY <2>2, UpType
    <3>2. AfterChange(call[u]) \subseteq Paths
      BY <2>2, <3>1 DEF AfterChange, TreeTypeOK
    <3> QED
      BY <1>2, <3>1, <3>2 DEF Perform, PerformFails, Answer, TreeTypeOK
  <2>5. tree' \in Seq(Nodes)
    <3>1. CASE Answer(u)
      <4>0. tree \in Seq(Nodes)
        BY DEF TreeTypeOK
      <4>1. SyncTypeOK(AddSync(tree, call[u].path)) /\ SyncTypeOK(RemoveSync(tree, call[u].path))
        BY <2>2, <4>0, AddTimes, RemoveTimes
      <4>2. call[u].op = "move" => SyncTypeOK(MoveSync(tree, call[u].path, call[u].to))
        <5>1. call[u].op = "move" => SameKind(call[u].path, call[u].to)
          BY <2>2, FileExplorerAssumption DEF SameKind
        <5> QED
          BY <2>2, <4>0, <5>1, MoveTimes
      <4>3. SyncTypeOK(SyncOf(call[u]))
        BY <2>2, <4>0, <4>1, <4>2 DEF SyncOf, SyncTypeOK, Sync
      <4> QED
        BY <3>1, <4>3 DEF Answer, Apply, SyncTypeOK
    <3> QED
      BY <1>2, <3>1 DEF Perform, PerformFails, TreeTypeOK
  <2>6. blur' \subseteq Blurs
    BY <1>0, <1>2 DEF Perform, PerformFails, Answer, TreeTypeOK, Blurs, Reused
  <2>7. TreeTypeOK'
    BY <1>2, <2>3, <2>4, <2>5, <2>6 DEF Perform, PerformFails, Answer, TreeTypeOK, building, Blurs
  <2>8. ServingTypeOK'
    BY <1>2, ServingTypeKept DEF Perform, PerformFails, Answer, building
  <2>9. spent' \in 0 .. Budget
    BY <1>2, SpendType DEF Perform, PerformFails, Answer
  <2> QED
    BY <2>7, <2>8, <2>9
<1> QED
  BY <1>0, <1>1, <1>2 DEF Add, Delete, Write, Rename, Move

LEMMA EnvironmentTypes ==
  ASSUME ExplorerTypeOK, Environment
  PROVE  ExplorerTypeOK'
<1> USE DEF ExplorerTypeOK
<1>1. ASSUME NEW here \in SUBSET Paths, Outside(here)
      PROVE  ExplorerTypeOK'
  <2>1. source' \in {"outside", "caller"} /\ blur' \subseteq Blurs
    BY <1>1 DEF Outside, ChangedOutside, TreeTypeOK, Blurs, Early
  <2>2. TreeTypeOK'
    BY <1>1, <2>1 DEF Outside, TreeTypeOK, building, Blurs
  <2>3. ServingTypeOK'
    BY <1>1, ServingTypeKept DEF Outside, building
  <2>4. spent' \in 0 .. Budget
    BY <1>1, SpendType DEF Outside
  <2> QED
    BY <2>2, <2>3, <2>4
<1>2. disk \subseteq Paths /\ Files \subseteq Paths
  BY DEF TreeTypeOK, Paths
<1>3. \A p \in Paths : disk \cup {p} \in SUBSET Paths /\ disk \ {p} \in SUBSET Paths
  BY <1>2
<1>4. \A f, g \in Files : (disk \ {f}) \cup {g} \in SUBSET Paths
  BY <1>2
<1> QED
  BY <1>1, <1>3, <1>4 DEF Environment, Appears, Disappears, MovesAway

(* The first pending deletion of a kind                                     *)
SameAs(p) == {i \in DOMAIN pending : SameKind(pending[i], p)}
First(p) == CHOOSE i \in SameAs(p) : \A j \in SameAs(p) : i <= j

LEMMA FirstPending ==
  ASSUME TreeTypeOK, NEW p \in Paths, SameAs(p) # {}
  PROVE  /\ First(p) \in DOMAIN pending /\ SameKind(pending[First(p)], p)
         /\ \A j \in SameAs(p) : First(p) <= j
         /\ pending[First(p)] \in Watched /\ pending[First(p)] \in Paths
<1> DEFINE S == SameAs(p)
<1>1. pending \in Seq(Watched) /\ Len(pending) \in Nat /\ S \in SUBSET (1 .. Len(pending)) /\ S \in SUBSET Int
  BY DEF TreeTypeOK, SameAs
<1>2. IsFiniteSet(S) /\ Cardinality(S) \in Nat \ {0}
  <2>1. IsFiniteSet(S) /\ Cardinality(S) \in Nat
    BY <1>1, PositionsFinite
  <2> QED
    BY <2>1, FS_EmptySet
<1>3. PICK i \in S : Cardinality({j \in S : j < i}) = 1 - 1
  <2>1. 1 \in 1 .. Cardinality(S)
    BY <1>2
  <2> HIDE DEF S
  <2> QED
    BY <1>1, <2>1, Ranks
<1> HIDE DEF S
<1>4. {j \in S : j < i} = {}
  <2> DEFINE low == {j \in S : j < i}
  <2>1. low \in SUBSET S
    OBVIOUS
  <2>2. IsFiniteSet(low)
    BY <1>2, <2>1, FS_Subset
  <2>3. Cardinality(low) = 0
    BY <1>3
  <2> HIDE DEF low
  <2>4. low = {}
    BY <2>2, <2>3, FS_EmptySet
  <2> QED
    BY <2>4 DEF low
<1>5. \A j \in S : i <= j
  BY <1>1, <1>4
<1>6. First(p) \in S /\ \A j \in S : First(p) <= j
  BY <1>5 DEF First, S
<1>7. First(p) \in DOMAIN pending /\ SameKind(pending[First(p)], p)
  BY <1>6 DEF S, SameAs
<1>8. pending[First(p)] \in Watched
  BY <1>1, <1>7
<1> QED
  BY <1>6, <1>7, <1>8 DEF S, Watched

(* The two ways a path is noticed                                           *)
LEMMA SeesAddCases ==
  ASSUME NEW p \in Paths, SeesAdd(p)
  PROVE  /\ Noticed(p) /\ seen' = seen \cup {p}
         /\ UNCHANGED <<disk, building, call, serving, indexing, source, spent>>
         /\ \/ /\ SameAs(p) = {} /\ UNCHANGED pending
               /\ Follow(IF p \in Ignored THEN Sync(tree, << >>) ELSE AddSync(tree, p), {})
            \/ /\ SameAs(p) # {} /\ pending' = RemoveAt(pending, First(p))
               /\ IF p \in Ignored THEN Follow(Sync(tree, << >>), {"swallowed"})
                  ELSE Follow(MoveSync(tree, pending[First(p)], p),
                              IF \E i \in SameAs(p) \ {First(p)} : pending[i] = p THEN {"crossed"} ELSE {})
BY DEF SeesAdd, SameAs, First

LEMMA FollowTypes ==
  ASSUME ExplorerTypeOK, NEW s, SyncTypeOK(s), NEW more \in SUBSET Blurs, Follow(s, more),
         UNCHANGED <<waiting, serving>>
  PROVE  tree' \in Seq(Nodes) /\ ServingTypeOK' /\ blur' \subseteq Blurs
<1>1. tree' \in Seq(Nodes)
  BY DEF Follow, Apply, SyncTypeOK
<1>2. inbox' \in [Subscribers -> Seq(Messages)] /\ announced' \in Nat /\ subscribers' = subscribers
  BY AnnounceType DEF Follow, SyncTypeOK, ExplorerTypeOK
<1>3. ServingTypeOK'
  BY <1>2 DEF ExplorerTypeOK, ServingTypeOK, serving
<1>4. blur' \subseteq Blurs
  BY DEF Follow, Reused, Blurs, ExplorerTypeOK, TreeTypeOK
<1> QED
  BY <1>1, <1>3, <1>4

(* What a finished build does but for the index                             *)
LEMMA FinishBuildParts ==
  ASSUME FinishBuild
  PROVE  /\ stage = "scanning" /\ tree' = Full(scan) /\ scan' = << >> /\ Ask(Indexer)
         /\ stage' = IF Indexer \in subscribers' THEN "watching" ELSE "starting"
         /\ UNCHANGED <<disk, seen, rebuild, pending, call, inbox, announced, outbox, socket,
                        source, blur, spent>>
BY Zenon DEF FinishBuild

LEMMA WatcherTypes ==
  ASSUME ExplorerTypeOK, Watcher
  PROVE  ExplorerTypeOK'
<1>0. /\ TreeTypeOK /\ ServingTypeOK /\ spent \in 0 .. Budget
      /\ tree \in Seq(Nodes) /\ scan \in Seq(Nodes) /\ pending \in Seq(Watched)
      /\ Watched \subseteq Paths
  BY DEF ExplorerTypeOK, TreeTypeOK, Watched
<1>1. SyncTypeOK(Sync(tree, << >>))
  <2>1. << >> \in Seq(Changes)
    OBVIOUS
  <2> QED
    BY <1>0, <2>1 DEF SyncTypeOK, Sync
<1>2. ASSUME NEW p \in Paths, SeesAdd(p)
      PROVE  ExplorerTypeOK'
  <2> DEFINE q == pending[First(p)]
  <2>1. tree' \in Seq(Nodes) /\ ServingTypeOK' /\ blur' \subseteq Blurs /\ pending' \in Seq(Watched)
    <3>1. UNCHANGED <<waiting, serving>>
      BY <1>2, SeesAddCases DEF building
    <3>2. CASE SameAs(p) = {}
      <4>1. SyncTypeOK(IF p \in Ignored THEN Sync(tree, << >>) ELSE AddSync(tree, p))
        BY <1>0, <1>1, AddTimes
      <4>2. /\ Follow(IF p \in Ignored THEN Sync(tree, << >>) ELSE AddSync(tree, p), {})
            /\ pending' = pending
        BY <1>2, <3>2, SeesAddCases
      <4>3. tree' \in Seq(Nodes) /\ ServingTypeOK' /\ blur' \subseteq Blurs
        BY <3>1, <4>1, <4>2, FollowTypes
      <4> QED
        BY <1>0, <4>2, <4>3
    <3>3. CASE SameAs(p) # {}
      <4>1. First(p) \in DOMAIN pending /\ SameKind(q, p) /\ q \in Paths
        BY <1>0, <3>3, FirstPending
      <4>2. SyncTypeOK(MoveSync(tree, q, p))
        BY <1>0, <4>1, MoveTimes
      <4>3. PICK more \in SUBSET Blurs :
              Follow(IF p \in Ignored THEN Sync(tree, << >>) ELSE MoveSync(tree, q, p), more)
        <5>1. {"swallowed"} \in SUBSET Blurs /\ {"crossed"} \in SUBSET Blurs /\ {} \in SUBSET Blurs
          BY DEF Blurs
        <5>2. IF p \in Ignored THEN Follow(Sync(tree, << >>), {"swallowed"})
              ELSE Follow(MoveSync(tree, q, p),
                          IF \E i \in SameAs(p) \ {First(p)} : pending[i] = p THEN {"crossed"} ELSE {})
          BY <1>2, <3>3, SeesAddCases
        <5> HIDE DEF q
        <5> QED
          BY <5>1, <5>2
      <4>4. SyncTypeOK(IF p \in Ignored THEN Sync(tree, << >>) ELSE MoveSync(tree, q, p))
        BY <1>1, <4>2
      <4>5. tree' \in Seq(Nodes) /\ ServingTypeOK' /\ blur' \subseteq Blurs
        BY <3>1, <4>3, <4>4, FollowTypes
      <4>6. pending' = RemoveAt(pending, First(p))
        BY <1>2, <3>3, SeesAddCases
      <4> QED
        BY <1>0, <4>1, <4>5, <4>6, DueRemoved
    <3> QED
      BY <3>2, <3>3
  <2>2. /\ seen' = seen \cup {p}
        /\ UNCHANGED <<disk, building, call, serving, indexing, source, spent>>
    BY <1>2, SeesAddCases
  <2>3. TreeTypeOK'
    BY <1>0, <2>1, <2>2 DEF TreeTypeOK, building, Blurs
  <2> QED
    BY <1>0, <2>1, <2>2, <2>3 DEF ExplorerTypeOK
<1>3. ASSUME NEW p \in Paths, SeesUnlink(p)
      PROVE  ExplorerTypeOK'
  <2>1. pending' \in Seq(Watched)
    BY <1>0, <1>3 DEF SeesUnlink, Watched
  <2>2. TreeTypeOK'
    BY <1>0, <1>3, <2>1 DEF SeesUnlink, TreeTypeOK, building
  <2>3. ServingTypeOK'
    BY <1>0, <1>3, ServingTypeKept DEF SeesUnlink, building
  <2> QED
    BY <1>0, <1>3, <2>2, <2>3 DEF ExplorerTypeOK, SeesUnlink
<1>4. CASE DeletionIsDue
  <2>1. Head(pending) \in Paths /\ Tail(pending) \in Seq(Watched)
    BY <1>0, <1>4 DEF DeletionIsDue
  <2>2. SyncTypeOK(RemoveSync(tree, Head(pending))) /\ {} \in SUBSET Blurs
    BY <1>0, <2>1, RemoveTimes
  <2>3. /\ Follow(RemoveSync(tree, Head(pending)), {}) /\ pending' = Tail(pending)
        /\ UNCHANGED <<disk, seen, building, call, serving, indexing, source, spent>>
    BY <1>4 DEF DeletionIsDue
  <2>4. tree' \in Seq(Nodes) /\ ServingTypeOK' /\ blur' \subseteq Blurs
    <3>1. UNCHANGED <<waiting, serving>>
      BY <2>3 DEF building
    <3> QED
      BY <2>2, <2>3, <3>1, FollowTypes
  <2>5. TreeTypeOK'
    BY <1>0, <2>1, <2>3, <2>4 DEF TreeTypeOK, building, Blurs
  <2> QED
    BY <1>0, <2>3, <2>4, <2>5 DEF ExplorerTypeOK
<1>5. CASE WatcherReady
  <2>1. TreeTypeOK'
    BY <1>0, <1>5 DEF WatcherReady, TreeTypeOK, Stages
  <2>2. subscribers' \subseteq Subscribers /\ heard' \in [Subscribers -> Nat]
    BY <1>0, <1>5 DEF WatcherReady, Subscribe, ServingTypeOK
  <2>3. socket' \in [Sessions -> Sockets]
    BY <1>0, <1>5 DEF WatcherReady, ServingTypeOK, Sockets
  <2>4. ServingTypeOK'
    BY <1>0, <1>5, <2>2, <2>3 DEF WatcherReady, ServingTypeOK
  <2> QED
    BY <1>0, <1>5, <2>1, <2>4 DEF ExplorerTypeOK, WatcherReady
<1>6. CASE WatcherFails
  <2>1. TreeTypeOK'
    BY <1>0, <1>6 DEF WatcherFails, TreeTypeOK, Stages
  <2>2. socket' \in [Sessions -> Sockets]
    BY <1>0, <1>6 DEF WatcherFails, ServingTypeOK, Sockets
  <2>3. ServingTypeOK'
    BY <1>0, <1>6, <2>2 DEF WatcherFails, ServingTypeOK, events
  <2>4. spent' \in 0 .. Budget
    BY <1>6, SpendType DEF WatcherFails
  <2> QED
    BY <2>1, <2>3, <2>4 DEF ExplorerTypeOK
<1>7. CASE ScanRoot
  <2>1. scan' \in Seq(Nodes)
    BY <1>7, EntriesTimes, UpType DEF ScanRoot
  <2>2. TreeTypeOK'
    BY <1>0, <1>7, <2>1 DEF ScanRoot, TreeTypeOK, Stages
  <2>3. ServingTypeOK'
    BY <1>0, <1>7, ServingTypeKept DEF ScanRoot
  <2> QED
    BY <1>0, <1>7, <2>2, <2>3 DEF ExplorerTypeOK, ScanRoot
<1>8. CASE FinishBuild
  <2>0. << >> \in Seq(Nodes)
    OBVIOUS
  <2>1. tree' \in Seq(Nodes) /\ scan' \in Seq(Nodes)
    BY <1>0, <1>8, <2>0, FullType, FinishBuildParts
  <2>2. watch' \in {"off", "starting", "on"} /\ stage' \in Stages
    BY <1>0, <1>8, FinishBuildParts DEF Ask, TreeTypeOK, Stages
  <2>3. TreeTypeOK'
    BY <1>0, <1>8, <2>1, <2>2, FinishBuildParts DEF TreeTypeOK
  <2>4. Indexer \in Subscribers
    BY DEF Subscribers
  <2>5. waiting' \subseteq Subscribers /\ subscribers' \subseteq Subscribers /\ heard' \in [Subscribers -> Nat]
    BY <1>0, <1>8, <2>4, FinishBuildParts DEF Ask, Subscribe, ServingTypeOK
  <2>6. ServingTypeOK'
    BY <1>0, <1>8, <2>5, FinishBuildParts DEF ServingTypeOK
  <2> QED
    BY <1>0, <1>8, <2>3, <2>6, FinishBuildParts DEF ExplorerTypeOK
<1>9. CASE LookInto
  <2>1. rebuild' \in Rebuilds
    <3>1. Entries(Root) \in Seq(Nodes)
      BY EntriesTimes, UpType
    <3> QED
      BY <1>0, <1>9, <3>1 DEF LookInto, Rebuilds, TreeTypeOK
  <2>2. TreeTypeOK'
    BY <1>0, <1>9, <2>1 DEF LookInto, TreeTypeOK
  <2>3. ServingTypeOK'
    BY <1>0, <1>9, ServingTypeKept DEF LookInto
  <2>4. spent' \in 0 .. Budget
    BY <1>9, SpendType DEF LookInto
  <2> QED
    BY <2>2, <2>3, <2>4 DEF ExplorerTypeOK
<1>10. CASE Replace
  <2>1. rebuild.scan \in Seq(Nodes)
    BY <1>0, <1>10 DEF Replace, TreeTypeOK, Rebuilds
  <2>2. tree' \in Seq(Nodes) /\ rebuild' \in Rebuilds
    BY <1>10, <2>1, FullType DEF Replace, Rebuilds
  <2>3. blur' \subseteq Blurs
    BY <1>0, <1>10 DEF Replace, TreeTypeOK, Blurs
  <2>4. TreeTypeOK'
    BY <1>0, <1>10, <2>2, <2>3 DEF Replace, TreeTypeOK, Blurs
  <2>5. ServingTypeOK'
    BY <1>0, <1>10, ServingTypeKept DEF Replace
  <2> QED
    BY <1>0, <1>10, <2>4, <2>5 DEF ExplorerTypeOK, Replace
<1> QED
  BY <1>2, <1>3, <1>4, <1>5, <1>6, <1>7, <1>8, <1>9, <1>10 DEF Watcher

LEMMA LastMessage ==
  ASSUME NEW q \in Batches
  PROVE  Len(q) \in Nat \ {0} /\ Last(q) = q[Len(q)] /\ Last(q).no \in Nat
<1>1. q \in Seq(Messages) /\ q # << >>
  BY DEF Batches
<1>2. Len(q) \in Nat \ {0}
  BY <1>1
<1>3. q[Len(q)] \in Messages
  BY <1>1, <1>2
<1> QED
  BY <1>2, <1>3 DEF Last, Messages

LEMMA ServingTypes ==
  ASSUME ExplorerTypeOK, Serving
  PROVE  ExplorerTypeOK'
<1>0. /\ TreeTypeOK /\ ServingTypeOK /\ spent \in 0 .. Budget
      /\ inbox \in [Subscribers -> Seq(Messages)] /\ outbox \in [Sessions -> Seq(Batches)]
      /\ Indexer \in Subscribers /\ Sessions \subseteq Subscribers
      /\ << >> \in Seq(Messages) /\ << >> \in Seq(Batches)
  BY DEF ExplorerTypeOK, ServingTypeOK, Subscribers
<1>1. CASE Index
  <2>1. /\ inbox' = [inbox EXCEPT ![Indexer] = << >>]
        /\ UNCHANGED <<disk, seen, tree, building, pending, call, subscribers, announced,
                       serving, source, blur, spent>>
    BY <1>1, Zenon DEF Index
  <2>2. TreeTypeOK'
    BY <1>0, <2>1 DEF TreeTypeOK, building
  <2>3. ServingTypeOK'
    BY <1>0, <2>1 DEF ServingTypeOK, building, serving
  <2> QED
    BY <1>0, <2>1, <2>2, <2>3 DEF ExplorerTypeOK
<1>2. ASSUME NEW s \in Sessions, Forward(s)
      PROVE  ExplorerTypeOK'
  <2>1. TreeTypeOK' /\ spent' = spent
    BY <1>0, <1>2 DEF Forward, TreeTypeOK, building
  <2>2. inbox' \in [Subscribers -> Seq(Messages)]
    BY <1>0, <1>2 DEF Forward
  <2>3. inbox[s] \in Seq(Messages) /\ outbox[s] \in Seq(Batches)
    BY <1>0
  <2>4. Append(outbox[s], inbox[s]) \in Seq(Batches)
    <3>1. inbox[s] \in Batches
      BY <1>2, <2>3 DEF Forward, Batches
    <3> QED
      BY <2>3, <3>1
  <2>5. outbox' \in [Sessions -> Seq(Batches)]
    BY <1>0, <1>2, <2>4 DEF Forward, Batch
  <2>6. subscribers' \subseteq Subscribers
    BY <1>0, <1>2 DEF Forward, ServingTypeOK
  <2>7. UNCHANGED <<waiting, announced, socket, heard>>
    BY <1>2 DEF Forward, building
  <2>8. ServingTypeOK'
    BY <1>0, <2>2, <2>5, <2>6, <2>7 DEF ServingTypeOK
  <2> QED
    BY <1>0, <2>1, <2>8 DEF ExplorerTypeOK
<1>3. ASSUME NEW s \in Sessions, Connect(s)
      PROVE  ExplorerTypeOK'
  <2>1. TreeTypeOK'
    BY <1>0, <1>3 DEF Connect, Ask, TreeTypeOK
  <2>2. waiting' \subseteq Subscribers /\ subscribers' \subseteq Subscribers /\ heard' \in [Subscribers -> Nat]
    BY <1>0, <1>3 DEF Connect, Ask, Subscribe, ServingTypeOK
  <2>3. socket' \in [Sessions -> Sockets]
    BY <1>0, <1>3 DEF Connect, ServingTypeOK, Sockets
  <2>4. ServingTypeOK'
    BY <1>0, <1>3, <2>2, <2>3 DEF Connect, ServingTypeOK
  <2>5. spent' \in 0 .. Budget
    BY <1>3, SpendType DEF Connect
  <2> QED
    BY <2>1, <2>4, <2>5 DEF ExplorerTypeOK
<1>4. ASSUME NEW s \in Sessions, Send(s)
      PROVE  ExplorerTypeOK'
  <2>1. TreeTypeOK' /\ spent' = spent
    BY <1>0, <1>4 DEF Send, TreeTypeOK, building
  <2>2. outbox[s] \in Seq(Batches) /\ outbox[s] # << >>
    BY <1>0, <1>4 DEF Send
  <2>3. Head(outbox[s]) \in Batches /\ Tail(outbox[s]) \in Seq(Batches)
    BY <2>2
  <2>4. Last(Head(outbox[s])).no \in Nat
    BY <2>3, LastMessage
  <2>5. heard' \in [Subscribers -> Nat] /\ outbox' \in [Sessions -> Seq(Batches)]
    BY <1>0, <1>4, <2>3, <2>4 DEF Send, ServingTypeOK
  <2>6. ServingTypeOK'
    BY <1>0, <1>4, <2>5 DEF Send, ServingTypeOK, building, events
  <2> QED
    BY <1>0, <2>1, <2>6 DEF ExplorerTypeOK
<1>5. ASSUME NEW s \in Sessions, SendFails(s)
      PROVE  ExplorerTypeOK'
  <2>1. TreeTypeOK'
    BY <1>0, <1>5 DEF SendFails, TreeTypeOK, building
  <2>2. socket' \in [Sessions -> Sockets]
    BY <1>0, <1>5 DEF SendFails, ServingTypeOK, Sockets
  <2>3. ServingTypeOK'
    BY <1>0, <1>5, <2>2 DEF SendFails, ServingTypeOK, building, events
  <2>4. spent' \in 0 .. Budget
    BY <1>5, SpendType DEF SendFails
  <2> QED
    BY <2>1, <2>3, <2>4 DEF ExplorerTypeOK
<1>6. ASSUME NEW s \in Sessions, Leave(s)
      PROVE  ExplorerTypeOK'
  <2>1. TreeTypeOK' /\ spent' = spent
    BY <1>0, <1>6 DEF Leave, TreeTypeOK, building
  <2>2. socket' \in [Sessions -> Sockets] /\ outbox' \in [Sessions -> Seq(Batches)]
    BY <1>0, <1>6 DEF Leave, ServingTypeOK, Sockets
  <2>3. ServingTypeOK'
    BY <1>0, <1>6, <2>2 DEF Leave, ServingTypeOK, building, events
  <2> QED
    BY <1>0, <2>1, <2>3 DEF ExplorerTypeOK
<1> QED
  BY <1>1, <1>2, <1>3, <1>4, <1>5, <1>6 DEF Serving

LEMMA StutterTypes ==
  ASSUME ExplorerTypeOK, UNCHANGED vars
  PROVE  ExplorerTypeOK'
BY DEF vars, ExplorerTypeOK, TreeTypeOK, ServingTypeOK, events, serving, building

LEMMA TypesStep ==
  ASSUME ExplorerTypeOK, [Next]_vars
  PROVE  ExplorerTypeOK'
<1>1. CASE Operation
  <2>1. PICK u \in Callers :
          \/ \E p \in Paths : Add(u, p) \/ Delete(u, p)
          \/ \E f \in Files : Write(u, f)
          \/ \E f, g \in Files : Rename(u, f, g) \/ Move(u, f, g)
          \/ Perform(u) \/ PerformFails(u) \/ Answer(u)
    BY <1>1 DEF Operation
  <2> QED
    BY <2>1, CallerTypes
<1> QED
  BY <1>1, EnvironmentTypes, WatcherTypes, ServingTypes, StutterTypes DEF Next

(****************************************************************************)
(* What the sessions hear                                                   *)
(****************************************************************************)
(* the number a session is at after i of the batches that wait for it       *)
UpTo(s, i) == IF i = 0 THEN heard[s] ELSE Last(outbox[s][i]).no
Served(s) == s \in subscribers /\ socket[s] \in {"open", "orphan", "broken"}
Heard(s) ==
  /\ \A i \in DOMAIN outbox[s] : outbox[s][i] # << >> /\ InOrder(outbox[s][i], UpTo(s, i - 1))
  /\ InOrder(inbox[s], UpTo(s, Len(outbox[s])))
  /\ UpTo(s, Len(outbox[s])) + Len(inbox[s]) = announced
Quiet(s) ==
  /\ socket[s] \in {"none", "waiting", "left"} =>
       s \notin subscribers /\ inbox[s] = << >> /\ outbox[s] = << >>
  /\ s \in waiting => socket[s] \in {"waiting", "left"}

LEMMA HeardIsForEach ==
  HeardInv <=> \A s \in Sessions : Quiet(s) /\ (Served(s) => Heard(s))
BY DEF HeardInv, QuietInv, EveryChangeIsHeard, Quiet, Served, Heard, UpTo

LEMMA HeardIsForEachNext ==
  HeardInv' <=> \A s \in Sessions : Quiet(s)' /\ (Served(s)' => Heard(s)')
BY DEF HeardInv, QuietInv, EveryChangeIsHeard, Quiet, Served, Heard, UpTo

LEMMA UpToType ==
  ASSUME ServingTypeOK, NEW s \in Sessions, NEW i \in 0 .. Len(outbox[s])
  PROVE  UpTo(s, i) \in Nat /\ Len(outbox[s]) \in Nat /\ Len(inbox[s]) \in Nat
<1>1. outbox[s] \in Seq(Batches) /\ inbox[s] \in Seq(Messages) /\ heard[s] \in Nat
  BY DEF ServingTypeOK, Subscribers
<1>2. Len(outbox[s]) \in Nat /\ Len(inbox[s]) \in Nat
  BY <1>1
<1>3. CASE i = 0
  BY <1>1, <1>2, <1>3 DEF UpTo
<1>4. CASE i # 0
  <2>1. outbox[s][i] \in Batches
    BY <1>1, <1>2, <1>4
  <2> QED
    BY <1>2, <1>4, <2>1, LastMessage DEF UpTo
<1> QED
  BY <1>3, <1>4

(* A session nothing happens to                                             *)
LEMMA HeardKept ==
  ASSUME NEW s \in Sessions, Quiet(s), Served(s) => Heard(s),
         s \in subscribers' <=> s \in subscribers, inbox'[s] = inbox[s], outbox'[s] = outbox[s],
         socket'[s] = socket[s], heard'[s] = heard[s], announced' = announced,
         s \in waiting' => s \in waiting
  PROVE  Quiet(s)' /\ (Served(s)' => Heard(s)')
<1>1. Quiet(s)'
  BY DEF Quiet
<1>2. \A i : UpTo(s, i)' = UpTo(s, i)
  BY DEF UpTo
<1>3. Served(s)' => Heard(s)'
  BY <1>2 DEF Served, Heard
<1> QED
  BY <1>1, <1>3

LEMMA StillHeard ==
  ASSUME HeardInv, UNCHANGED <<waiting, events, serving>>
  PROVE  HeardInv'
<1>1. ASSUME NEW s \in Sessions
      PROVE  Quiet(s)' /\ (Served(s)' => Heard(s)')
  <2>1. Quiet(s) /\ (Served(s) => Heard(s))
    BY HeardIsForEach
  <2> QED
    BY <2>1, HeardKept DEF events, serving
<1> QED
  BY <1>1, HeardIsForEachNext

(* Messages in order, and behind them others                                *)
LEMMA InOrderConcat ==
  ASSUME NEW q \in Seq(Messages), NEW r \in Seq(Messages), NEW n \in Nat,
         InOrder(q, n), InOrder(r, n + Len(q))
  PROVE  InOrder(q \o r, n) /\ Len(q \o r) = Len(q) + Len(r)
<1> DEFINE m == Len(q)
           k == Len(r)
<1>1. m \in Nat /\ k \in Nat /\ DOMAIN q = 1 .. m /\ DOMAIN r = 1 .. k
  OBVIOUS
<1>2. q \o r \in Seq(Messages) /\ Len(q \o r) = m + k
  BY ConcatProperties
<1>3. \A i \in 1 .. (m + k) : (q \o r)[i] = IF i <= m THEN q[i] ELSE r[i - m]
  BY ConcatProperties
<1>4. DOMAIN (q \o r) = 1 .. (m + k)
  BY <1>2
<1>5. \A i \in 1 .. k : r[i].no = (n + m) + i
  BY <1>1 DEF InOrder
<1>6. \A i \in 1 .. m : q[i].no = n + i
  BY <1>1 DEF InOrder
<1> HIDE DEF m, k
<1>7. ASSUME NEW i \in 1 .. (m + k)
      PROVE  (q \o r)[i].no = n + i
  <2>1. CASE i <= m
    BY <1>1, <1>3, <1>6, <2>1
  <2>2. CASE ~(i <= m)
    <3>1. i - m \in 1 .. k /\ (n + m) + (i - m) = n + i
      BY <1>1, <2>2
    <3> QED
      BY <1>3, <1>5, <2>2, <3>1
  <2> QED
    BY <2>1, <2>2
<1> QED
  BY <1>2, <1>4, <1>7 DEF InOrder, m, k

(* What is announced goes to every session that is served, behind what it   *)
(* has not been sent                                                        *)
LEMMA AnnouncedIsHeard ==
  ASSUME ServingTypeOK, HeardInv, NEW changes \in Seq(Changes), Announce(changes),
         UNCHANGED <<waiting, serving>>
  PROVE  HeardInv'
<1> DEFINE numbered == [i \in DOMAIN changes |-> [no |-> announced + i, change |-> changes[i]]]
<1>1. Len(changes) \in Nat /\ DOMAIN changes = 1 .. Len(changes) /\ announced \in Nat
  BY DEF ServingTypeOK
<1>2. ASSUME NEW i \in 1 .. Len(changes)
      PROVE  [no |-> announced + i, change |-> changes[i]] \in Messages
  BY <1>1 DEF Messages
<1>3. /\ numbered \in Seq(Messages) /\ Len(numbered) = Len(changes)
      /\ \A i \in 1 .. Len(changes) : numbered[i].no = announced + i
  BY <1>1, <1>2
<1> HIDE DEF numbered
<1>4. ASSUME NEW s \in Sessions
      PROVE  Quiet(s)' /\ (Served(s)' => Heard(s)')
  <2>1. Quiet(s) /\ (Served(s) => Heard(s)) /\ s \in Subscribers
    BY HeardIsForEach DEF Subscribers
  <2>2. CASE subscribers = {}
    BY <2>1, <2>2, HeardKept DEF Announce, events, serving
  <2>3. CASE subscribers # {}
    <3>1. /\ inbox' = [x \in Subscribers |-> IF x \in subscribers THEN inbox[x] \o numbered ELSE inbox[x]]
          /\ announced' = announced + Len(changes) /\ subscribers' = subscribers
      BY <2>3 DEF Announce, numbered
    <3>2. CASE ~Served(s)
      BY <2>1, <3>1, <3>2 DEF serving, Quiet, Served
    <3>3. CASE Served(s)
      <4>1. inbox'[s] = inbox[s] \o numbered
        BY <2>1, <3>1, <3>3 DEF Served
      <4>2. \A i : UpTo(s, i)' = UpTo(s, i)
        BY DEF UpTo, serving
      <4> DEFINE n == UpTo(s, Len(outbox[s]))
      <4>3. n \in Nat /\ Len(inbox[s]) \in Nat /\ inbox[s] \in Seq(Messages)
        BY <2>1, UpToType DEF ServingTypeOK
      <4>4. InOrder(inbox[s], n) /\ n + Len(inbox[s]) = announced
        BY <2>1, <3>3 DEF Heard
      <4> HIDE DEF n
      <4>5. InOrder(numbered, n + Len(inbox[s]))
        <5>1. DOMAIN numbered = 1 .. Len(changes)
          BY <1>3
        <5>2. \A i \in DOMAIN numbered : numbered[i].no = announced + i
          BY <1>3, <5>1
        <5> QED
          BY <4>4, <5>2 DEF InOrder
      <4>6. InOrder(inbox[s] \o numbered, n) /\ Len(inbox[s] \o numbered) = Len(inbox[s]) + Len(numbered)
        BY <1>3, <4>3, <4>4, <4>5, InOrderConcat
      <4>7. n + Len(inbox'[s]) = announced'
        <5> DEFINE m == Len(inbox[s])
                   k == Len(changes)
        <5>1. Len(inbox'[s]) = m + k /\ m \in Nat /\ k \in Nat
          BY <1>1, <1>3, <4>1, <4>3, <4>6
        <5>2. n + m = announced /\ announced' = announced + k
          BY <3>1, <4>4
        <5> HIDE DEF m, k
        <5> QED
          BY <1>1, <4>3, <5>1, <5>2
      <4>8. outbox' = outbox
        BY DEF serving
      <4>9. Heard(s)'
        BY <2>1, <3>3, <4>1, <4>2, <4>6, <4>7, <4>8 DEF Heard, n
      <4>10. Quiet(s)'
        BY <2>1, <3>1, <3>3 DEF Quiet, Served, serving
      <4> QED
        BY <4>9, <4>10
    <3> QED
      BY <3>2, <3>3
  <2> QED
    BY <2>2, <2>3
<1> QED
  BY <1>4, HeardIsForEachNext

LEMMA FollowedIsHeard ==
  ASSUME ServingTypeOK, HeardInv, NEW s, SyncTypeOK(s), NEW more, Follow(s, more),
         UNCHANGED <<waiting, serving>>
  PROVE  HeardInv'
BY AnnouncedIsHeard DEF Follow, SyncTypeOK

(* Who begins to subscribe has nothing in its queues and is told of what    *)
(* comes from now on                                                        *)
LEMMA SubscribedIsHeard ==
  ASSUME ServingTypeOK, NEW s \in Sessions, inbox[s] = << >>, outbox[s] = << >>,
         inbox'[s] = << >>, outbox'[s] = << >>, heard'[s] = announced, announced' = announced
  PROVE  Heard(s)'
<1>1. announced \in Nat
  BY DEF ServingTypeOK
<1>2. Len(outbox'[s]) = 0 /\ Len(inbox'[s]) = 0 /\ DOMAIN outbox'[s] = {} /\ DOMAIN inbox'[s] = {}
  OBVIOUS
<1>3. UpTo(s, Len(outbox[s]))' = announced
  BY <1>2 DEF UpTo
<1> QED
  BY <1>1, <1>2, <1>3 DEF Heard, InOrder

LEMMA ReadyIsHeard ==
  ASSUME ServingTypeOK, HeardInv, WatcherReady
  PROVE  HeardInv'
<1>1. ASSUME NEW s \in Sessions
      PROVE  Quiet(s)' /\ (Served(s)' => Heard(s)')
  <2>1. Quiet(s) /\ (Served(s) => Heard(s)) /\ s \in Subscribers /\ socket[s] \in Sockets
    BY HeardIsForEach DEF Subscribers, ServingTypeOK
  <2>2. /\ subscribers' = subscribers \cup waiting /\ waiting' = {}
        /\ heard'[s] = IF s \in waiting THEN announced ELSE heard[s]
        /\ socket'[s] = CASE s \in waiting /\ socket[s] = "waiting" -> "open"
                          [] s \in waiting /\ socket[s] = "left" -> "orphan"
                          [] OTHER -> socket[s]
        /\ UNCHANGED <<inbox, announced, outbox>>
    BY <2>1 DEF WatcherReady, Subscribe
  <2>3. CASE s \in waiting
    <3>1. inbox[s] = << >> /\ outbox[s] = << >> /\ socket[s] \in {"waiting", "left"}
      BY <2>1, <2>3 DEF Quiet
    <3>2. Heard(s)'
      BY <2>2, <2>3, <3>1, SubscribedIsHeard
    <3>3. socket'[s] \in {"open", "orphan"}
      BY <2>2, <2>3, <3>1
    <3> QED
      BY <2>2, <3>2, <3>3 DEF Quiet
  <2>4. CASE s \notin waiting
    BY <2>1, <2>2, <2>4, HeardKept
  <2> QED
    BY <2>3, <2>4
<1> QED
  BY <1>1, HeardIsForEachNext

LEMMA FailureIsHeard ==
  ASSUME ServingTypeOK, HeardInv, WatcherFails
  PROVE  HeardInv'
<1>1. ASSUME NEW s \in Sessions
      PROVE  Quiet(s)' /\ (Served(s)' => Heard(s)')
  <2>1. Quiet(s)
    BY HeardIsForEach
  <2>2. /\ subscribers' = {} /\ waiting' = {}
        /\ socket'[s] = IF s \in waiting THEN "closed" ELSE socket[s]
        /\ UNCHANGED <<inbox, outbox>>
    BY DEF WatcherFails, events
  <2> QED
    BY <2>1, <2>2 DEF Quiet, Served
<1> QED
  BY <1>1, HeardIsForEachNext

LEMMA BuildIsHeard ==
  ASSUME ServingTypeOK, HeardInv, FinishBuild
  PROVE  HeardInv'
<1>1. ASSUME NEW s \in Sessions
      PROVE  Quiet(s)' /\ (Served(s)' => Heard(s)')
  <2>1. Quiet(s) /\ (Served(s) => Heard(s)) /\ s \in Subscribers /\ s # Indexer
    BY HeardIsForEach, FileExplorerAssumption DEF Subscribers
  <2>2. Ask(Indexer) /\ UNCHANGED <<inbox, announced, outbox, socket>>
    BY FinishBuildParts
  <2>3. /\ s \in subscribers' <=> s \in subscribers
        /\ s \in waiting' <=> s \in waiting
        /\ heard'[s] = heard[s]
    BY <2>1, <2>2 DEF Ask, Subscribe
  <2> QED
    BY <2>1, <2>2, <2>3, HeardKept
<1> QED
  BY <1>1, HeardIsForEachNext

LEMMA ConnectIsHeard ==
  ASSUME ServingTypeOK, HeardInv, NEW c \in Sessions, Connect(c)
  PROVE  HeardInv'
<1>1. ASSUME NEW s \in Sessions
      PROVE  Quiet(s)' /\ (Served(s)' => Heard(s)')
  <2>1. Quiet(s) /\ (Served(s) => Heard(s)) /\ s \in Subscribers
    BY HeardIsForEach DEF Subscribers
  <2>2. /\ socket[c] = "none" /\ Ask(c) /\ UNCHANGED <<inbox, announced, outbox>>
        /\ socket' = [socket EXCEPT ![c] = IF c \in subscribers' THEN "open" ELSE "waiting"]
        /\ socket \in [Sessions -> Sockets]
    BY DEF Connect, ServingTypeOK
  <2>3. CASE s # c
    <3>1. /\ s \in subscribers' <=> s \in subscribers
          /\ s \in waiting' <=> s \in waiting
          /\ heard'[s] = heard[s] /\ socket'[s] = socket[s]
      BY <2>1, <2>2, <2>3 DEF Ask, Subscribe
    <3> QED
      BY <2>1, <2>2, <3>1, HeardKept
  <2>4. CASE s = c
    <3>1. s \notin subscribers /\ inbox[s] = << >> /\ outbox[s] = << >> /\ s \notin waiting
      BY <2>1, <2>2, <2>4 DEF Quiet
    <3>2. CASE s \in subscribers'
      <4>1. heard'[s] = announced /\ socket'[s] = "open" /\ waiting' = waiting
        BY <2>1, <2>2, <2>4, <3>1, <3>2 DEF Ask, Subscribe
      <4>2. Heard(s)'
        BY <2>2, <3>1, <4>1, SubscribedIsHeard
      <4> QED
        BY <3>1, <4>1, <4>2 DEF Quiet
    <3>3. CASE s \notin subscribers'
      BY <2>2, <2>4, <3>1, <3>3 DEF Quiet, Served
    <3> QED
      BY <3>2, <3>3
  <2> QED
    BY <2>3, <2>4
<1> QED
  BY <1>1, HeardIsForEachNext

(* A window's batch goes to the end of the session's queue                  *)
LEMMA ForwardIsHeard ==
  ASSUME ServingTypeOK, HeardInv, NEW c \in Sessions, Forward(c)
  PROVE  HeardInv'
<1>1. ASSUME NEW s \in Sessions
      PROVE  Quiet(s)' /\ (Served(s)' => Heard(s)')
  <2>1. /\ Quiet(s) /\ (Served(s) => Heard(s)) /\ s \in Subscribers
        /\ inbox \in [Subscribers -> Seq(Messages)] /\ outbox \in [Sessions -> Seq(Batches)]
    BY HeardIsForEach DEF Subscribers, ServingTypeOK
  <2>2. /\ inbox[c] # << >> /\ inbox' = [inbox EXCEPT ![c] = << >>]
        /\ IF socket[c] = "closed" THEN subscribers' = subscribers \ {c} /\ outbox' = outbox
           ELSE outbox' = [outbox EXCEPT ![c] = Append(@, inbox[c])] /\ subscribers' = subscribers
        /\ UNCHANGED <<waiting, announced, socket, heard>>
    BY DEF Forward, Batch, building
  <2>3. CASE s # c
    <3>1. inbox'[s] = inbox[s] /\ outbox'[s] = outbox[s] /\ (s \in subscribers' <=> s \in subscribers)
      BY <2>1, <2>2, <2>3
    <3> QED
      BY <2>1, <2>2, <3>1, HeardKept
  <2>4. CASE s = c /\ ~Served(s)'
    <3>1. socket[s] \notin {"none", "waiting", "left"}
      BY <2>1, <2>2, <2>4 DEF Quiet
    <3> QED
      BY <2>1, <2>2, <2>4, <3>1 DEF Quiet
  <2>5. CASE s = c /\ Served(s)'
    <3>1. Served(s) /\ socket[s] # "closed" /\ Heard(s)
      BY <2>1, <2>2, <2>5 DEF Served
    <3>12. PICK k : k = Len(outbox[s])
      OBVIOUS
    <3>13. PICK m : m = Len(inbox[s])
      OBVIOUS
    <3>14. PICK n : n = UpTo(s, k)
      OBVIOUS
    <3>2. /\ k \in Nat /\ m \in Nat \ {0} /\ n \in Nat /\ announced \in Nat
          /\ DOMAIN outbox[s] = 1 .. k /\ DOMAIN inbox[s] = 1 .. m
      <4>1. inbox[s] \in Batches /\ outbox[s] \in Seq(Batches)
        BY <2>1, <2>2, <2>5 DEF Batches
      <4>2. k \in Nat /\ m \in Nat \ {0} /\ DOMAIN outbox[s] = 1 .. k /\ DOMAIN inbox[s] = 1 .. m
        BY <3>12, <3>13, <4>1, LastMessage DEF Batches
      <4>3. n \in Nat /\ announced \in Nat
        BY <3>12, <3>14, <4>2, UpToType DEF ServingTypeOK
      <4> QED
        BY <4>2, <4>3
    <3>3. /\ outbox'[s] = Append(outbox[s], inbox[s]) /\ inbox'[s] = << >>
          /\ Len(outbox'[s]) = k + 1 /\ DOMAIN outbox'[s] = 1 .. (k + 1)
          /\ outbox'[s][k + 1] = inbox[s] /\ \A i \in 1 .. k : outbox'[s][i] = outbox[s][i]
      <4>1. outbox'[s] = Append(outbox[s], inbox[s]) /\ inbox'[s] = << >>
        BY <2>1, <2>2, <2>5, <3>1
      <4>2. inbox[s] \in Batches /\ outbox[s] \in Seq(Batches)
        BY <2>1, <2>2, <2>5 DEF Batches
      <4> QED
        BY <3>12, <4>1, <4>2, AppendProperties
    <3>4. \A i \in 1 .. k : outbox[s][i] # << >> /\ InOrder(outbox[s][i], UpTo(s, i - 1))
      BY <3>1, <3>2 DEF Heard
    <3>5. InOrder(inbox[s], n) /\ n + m = announced
      BY <3>1, <3>12, <3>13, <3>14 DEF Heard
    <3>6. \A i \in 0 .. k : UpTo(s, i)' = UpTo(s, i)
      BY <2>2, <3>2, <3>3 DEF UpTo
    <3>7. UpTo(s, k + 1)' = announced
      <4>1. UpTo(s, k + 1)' = Last(inbox[s]).no
        BY <3>2, <3>3 DEF UpTo
      <4>2. Last(inbox[s]) = inbox[s][m]
        BY <3>13 DEF Last
      <4>3. m \in DOMAIN inbox[s]
        BY <3>2
      <4> QED
        BY <3>5, <4>1, <4>2, <4>3 DEF InOrder
    <3>8. ASSUME NEW i \in 1 .. (k + 1)
          PROVE  outbox'[s][i] # << >> /\ InOrder(outbox'[s][i], UpTo(s, i - 1)')
      <4>1. CASE i \in 1 .. k
        <5>1. i - 1 \in 0 .. k
          BY <3>2, <4>1
        <5> QED
          BY <3>3, <3>4, <3>6, <4>1, <5>1
      <4>2. CASE i = k + 1
        <5>1. i - 1 = k /\ k \in 0 .. k
          BY <3>2, <4>2
        <5>2. UpTo(s, k)' = n
          BY <3>6, <3>14, <5>1
        <5> QED
          BY <2>2, <2>5, <3>3, <3>5, <4>2, <5>1, <5>2
      <4> QED
        BY <3>2, <4>1, <4>2
    <3>9. DOMAIN inbox'[s] = {} /\ Len(inbox'[s]) = 0
      BY <3>3
    <3>10. Heard(s)'
      <4>1. UpTo(s, Len(outbox[s]))' = announced
        BY <3>3, <3>7 DEF UpTo
      <4>2. InOrder(inbox[s], UpTo(s, Len(outbox[s])))'
        BY <3>9 DEF InOrder
      <4>3. (UpTo(s, Len(outbox[s])) + Len(inbox[s]) = announced)'
        BY <2>2, <3>2, <3>9, <4>1
      <4>4. (\A i \in DOMAIN outbox[s] : outbox[s][i] # << >> /\ InOrder(outbox[s][i], UpTo(s, i - 1)))'
        BY <3>3, <3>8
      <4> QED
        BY <4>2, <4>3, <4>4 DEF Heard
    <3>11. Quiet(s)'
      BY <2>1, <2>2, <2>5, <3>1 DEF Quiet, Served
    <3> QED
      BY <3>10, <3>11
  <2> QED
    BY <2>3, <2>4, <2>5
<1> QED
  BY <1>1, HeardIsForEachNext

(* The first batch of a session's queue is sent                             *)
LEMMA SentIsHeard ==
  ASSUME ServingTypeOK, HeardInv, NEW c \in Sessions, Send(c)
  PROVE  HeardInv'
<1>1. ASSUME NEW s \in Sessions
      PROVE  Quiet(s)' /\ (Served(s)' => Heard(s)')
  <2>1. /\ Quiet(s) /\ (Served(s) => Heard(s)) /\ s \in Subscribers /\ c \in Subscribers
        /\ outbox \in [Sessions -> Seq(Batches)] /\ heard \in [Subscribers -> Nat]
    BY HeardIsForEach DEF Subscribers, ServingTypeOK
  <2>2. /\ socket[c] \in {"open", "orphan"} /\ outbox[c] # << >>
        /\ heard' = [heard EXCEPT ![c] = Last(Head(outbox[c])).no]
        /\ outbox' = [outbox EXCEPT ![c] = Tail(@)]
        /\ UNCHANGED <<waiting, subscribers, inbox, announced, socket>>
    BY DEF Send, building, events
  <2>3. CASE s # c
    <3>1. outbox'[s] = outbox[s] /\ heard'[s] = heard[s]
      BY <2>1, <2>2, <2>3
    <3> QED
      BY <2>1, <2>2, <3>1, HeardKept
  <2>4. CASE s = c
    <3>1. Quiet(s)'
      BY <2>1, <2>2, <2>4 DEF Quiet
    <3>2. ASSUME Served(s)
          PROVE  Heard(s)'
      <4>14. PICK k : k = Len(outbox[s])
        OBVIOUS
      <4>1. outbox[s] \in Seq(Batches) /\ outbox[s] # << >>
        BY <2>1, <2>2, <2>4
      <4>2. k \in Nat \ {0} /\ DOMAIN outbox[s] = 1 .. k
        BY <4>1, <4>14
      <4>3. /\ outbox'[s] = Tail(outbox[s]) /\ Len(outbox'[s]) = k - 1 /\ DOMAIN outbox'[s] = 1 .. (k - 1)
            /\ \A i \in 1 .. (k - 1) : outbox'[s][i] = outbox[s][i + 1]
        <5>1. outbox'[s] = Tail(outbox[s])
          BY <2>1, <2>2, <2>4
        <5>2. Tail(outbox[s]) \in Seq(Batches) /\ Len(Tail(outbox[s])) = k - 1
          BY <4>1, <4>14, DueTail
        <5>3. \A i \in 1 .. (k - 1) : Tail(outbox[s])[i] = outbox[s][i + 1]
          BY <4>1, <4>14, DueTail
        <5> QED
          BY <4>1, <5>1, <5>2, <5>3
      <4>4. heard'[s] = Last(outbox[s][1]).no
        BY <2>1, <2>2, <2>4
      <4>5. Heard(s)
        BY <2>1, <3>2
      <4>6. \A i \in 1 .. k : outbox[s][i] # << >> /\ InOrder(outbox[s][i], UpTo(s, i - 1))
        BY <4>2, <4>5 DEF Heard
      <4>7. InOrder(inbox[s], UpTo(s, k)) /\ UpTo(s, k) + Len(inbox[s]) = announced
        BY <4>5, <4>14 DEF Heard
      <4>8. ASSUME NEW i \in 0 .. (k - 1)
            PROVE  UpTo(s, i)' = UpTo(s, i + 1)
        <5>1. CASE i = 0
          BY <4>4, <5>1 DEF UpTo
        <5>2. CASE i # 0
          <6>1. i \in 1 .. (k - 1) /\ i + 1 # 0
            BY <4>2, <5>2
          <6> QED
            BY <4>3, <5>2, <6>1 DEF UpTo
        <5> QED
          BY <5>1, <5>2
      <4>9. ASSUME NEW i \in 1 .. (k - 1)
            PROVE  outbox'[s][i] # << >> /\ InOrder(outbox'[s][i], UpTo(s, i - 1)')
        <5>1. i - 1 \in 0 .. (k - 1) /\ i + 1 \in 1 .. k /\ (i - 1) + 1 = i /\ (i + 1) - 1 = i
          BY <4>2
        <5>2. UpTo(s, i - 1)' = UpTo(s, i)
          BY <4>8, <5>1
        <5>3. outbox[s][i + 1] # << >> /\ InOrder(outbox[s][i + 1], UpTo(s, i))
          BY <4>6, <5>1
        <5> QED
          BY <4>3, <5>2, <5>3
      <4>10. UpTo(s, k - 1)' = UpTo(s, k)
        <5>1. k - 1 \in 0 .. (k - 1) /\ (k - 1) + 1 = k
          BY <4>2
        <5> QED
          BY <4>8, <5>1
      <4>11. UpTo(s, Len(outbox[s]))' = UpTo(s, k)
        BY <4>3, <4>10 DEF UpTo
      <4>12. (\A i \in DOMAIN outbox[s] : outbox[s][i] # << >> /\ InOrder(outbox[s][i], UpTo(s, i - 1)))'
        BY <4>3, <4>9
      <4>13. inbox' = inbox /\ announced' = announced
        BY <2>2
      <4> QED
        BY <4>7, <4>11, <4>12, <4>13 DEF Heard
    <3> QED
      BY <2>2, <3>1, <3>2 DEF Served
  <2> QED
    BY <2>3, <2>4
<1> QED
  BY <1>1, HeardIsForEachNext

LEMMA LeavingIsHeard ==
  ASSUME ServingTypeOK, HeardInv, NEW c \in Sessions, SendFails(c) \/ Leave(c)
  PROVE  HeardInv'
<1>1. ASSUME NEW s \in Sessions
      PROVE  Quiet(s)' /\ (Served(s)' => Heard(s)')
  <2>1. /\ Quiet(s) /\ (Served(s) => Heard(s)) /\ s \in Subscribers
        /\ outbox \in [Sessions -> Seq(Batches)] /\ socket \in [Sessions -> Sockets]
    BY HeardIsForEach DEF Subscribers, ServingTypeOK
  <2>2. UNCHANGED <<waiting, subscribers, inbox, announced, heard>>
    BY DEF SendFails, Leave, building, events
  <2>3. CASE s # c
    <3>1. outbox'[s] = outbox[s] /\ socket'[s] = socket[s]
      BY <2>1, <2>3 DEF SendFails, Leave
    <3> QED
      BY <2>1, <2>2, <3>1, HeardKept
  <2>4. CASE s = c /\ SendFails(c)
    <3>1. socket[s] = "open" /\ socket'[s] = "broken" /\ outbox' = outbox
      BY <2>1, <2>4 DEF SendFails
    <3>2. \A i : UpTo(s, i)' = UpTo(s, i)
      BY <2>2, <3>1 DEF UpTo
    <3>3. Served(s)' => Heard(s)'
      BY <2>1, <2>2, <3>1, <3>2 DEF Served, Heard
    <3> QED
      BY <2>1, <2>2, <3>1, <3>3 DEF Quiet
  <2>5. CASE s = c /\ Leave(c)
    <3>1. /\ socket[s] \in {"open", "broken", "waiting"} /\ outbox'[s] = << >>
          /\ socket'[s] = IF socket[s] = "waiting" THEN "left" ELSE "closed"
      BY <2>1, <2>5 DEF Leave
    <3>2. ~Served(s)'
      BY <3>1 DEF Served
    <3> QED
      BY <2>1, <2>2, <3>1, <3>2 DEF Quiet
  <2> QED
    BY <2>3, <2>4, <2>5
<1> QED
  BY <1>1, HeardIsForEachNext

LEMMA IndexIsHeard ==
  ASSUME ServingTypeOK, HeardInv, Index
  PROVE  HeardInv'
<1>1. inbox' = [inbox EXCEPT ![Indexer] = << >>] /\ UNCHANGED <<waiting, subscribers, announced, serving>>
  <2>1. /\ inbox' = [inbox EXCEPT ![Indexer] = << >>]
        /\ UNCHANGED <<disk, seen, tree, building, pending, call, subscribers, announced,
                       serving, source, blur, spent>>
    BY Zenon DEF Index
  <2> QED
    BY <2>1 DEF building
<1>2. ASSUME NEW s \in Sessions
      PROVE  Quiet(s)' /\ (Served(s)' => Heard(s)')
  <2>1. Quiet(s) /\ (Served(s) => Heard(s)) /\ s # Indexer
    BY HeardIsForEach, FileExplorerAssumption
  <2>2. inbox'[s] = inbox[s]
    BY <1>1, <2>1 DEF ServingTypeOK, Subscribers
  <2> QED
    BY <1>1, <2>1, <2>2, HeardKept DEF serving
<1> QED
  BY <1>2, HeardIsForEachNext

LEMMA HeardStep ==
  ASSUME ExplorerTypeOK, HeardInv, [Next]_vars
  PROVE  HeardInv'
<1>0. ServingTypeOK /\ TreeTypeOK /\ tree \in Seq(Nodes) /\ Watched \subseteq Paths
  BY DEF ExplorerTypeOK, TreeTypeOK, Watched
<1>1. CASE Operation
  BY <1>1, StillHeard DEF Operation, Add, Delete, Write, Rename, Move, Begin, Perform, PerformFails,
                          Answer, building
<1>2. CASE Environment
  BY <1>2, StillHeard DEF Environment, Appears, Disappears, MovesAway, Outside, building
<1>3. CASE Watcher
  <2>1. SyncTypeOK(Sync(tree, << >>))
    <3>1. << >> \in Seq(Changes)
      OBVIOUS
    <3> QED
      BY <1>0, <3>1 DEF SyncTypeOK, Sync
  <2>2. ASSUME NEW p \in Paths, SeesAdd(p)
        PROVE  HeardInv'
    <3>1. UNCHANGED <<waiting, serving>>
      BY <2>2, SeesAddCases DEF building
    <3>2. CASE SameAs(p) = {}
      <4>1. SyncTypeOK(IF p \in Ignored THEN Sync(tree, << >>) ELSE AddSync(tree, p))
        BY <1>0, <2>1, AddTimes
      <4>2. Follow(IF p \in Ignored THEN Sync(tree, << >>) ELSE AddSync(tree, p), {})
        BY <2>2, <3>2, SeesAddCases
      <4> QED
        BY <1>0, <3>1, <4>1, <4>2, FollowedIsHeard
    <3>3. CASE SameAs(p) # {} /\ p \in Ignored
      <4>1. Follow(Sync(tree, << >>), {"swallowed"})
        BY <2>2, <3>3, SeesAddCases
      <4> QED
        BY <1>0, <2>1, <3>1, <4>1, FollowedIsHeard
    <3>4. CASE SameAs(p) # {} /\ p \notin Ignored
      <4>1. PICK more : Follow(MoveSync(tree, pending[First(p)], p), more)
        BY <2>2, <3>4, SeesAddCases
      <4>2. SyncTypeOK(MoveSync(tree, pending[First(p)], p))
        BY <1>0, <3>4, FirstPending, MoveTimes
      <4> QED
        BY <1>0, <3>1, <4>1, <4>2, FollowedIsHeard
    <3> QED
      BY <3>2, <3>3, <3>4
  <2>3. ASSUME NEW p \in Paths, SeesUnlink(p)
        PROVE  HeardInv'
    BY <2>3, StillHeard DEF SeesUnlink, building
  <2>4. CASE DeletionIsDue
    <3>1. Head(pending) \in Paths
      BY <1>0, <2>4 DEF DeletionIsDue, TreeTypeOK
    <3>2. SyncTypeOK(RemoveSync(tree, Head(pending)))
      BY <1>0, <3>1, RemoveTimes
    <3>3. Follow(RemoveSync(tree, Head(pending)), {}) /\ UNCHANGED <<waiting, serving>>
      BY <2>4 DEF DeletionIsDue, building
    <3> QED
      BY <1>0, <3>2, <3>3, FollowedIsHeard
  <2>5. CASE ScanRoot \/ LookInto \/ Replace
    BY <2>5, StillHeard DEF ScanRoot, LookInto, Replace
  <2> QED
    BY <1>0, <1>3, <2>2, <2>3, <2>4, <2>5, ReadyIsHeard, FailureIsHeard, BuildIsHeard DEF Watcher
<1>4. CASE Serving
  BY <1>0, <1>4, ConnectIsHeard, ForwardIsHeard, SentIsHeard, LeavingIsHeard, IndexIsHeard DEF Serving
<1>5. CASE UNCHANGED vars
  BY <1>5, StillHeard DEF vars, building
<1> QED
  BY <1>1, <1>2, <1>3, <1>4, <1>5 DEF Next

LEMMA InitiallyHeard == Init => HeardInv
<1> SUFFICES ASSUME Init, NEW s \in Sessions
             PROVE  Quiet(s) /\ (Served(s) => Heard(s))
  BY HeardIsForEach
<1> QED
  BY DEF Init, Quiet, Served, Subscribers

(* The explorer's variables have their types.                               *)
THEOREM ExplorerTypeCorrect == Spec => []ExplorerTypeOK
<1>1. Init => ExplorerTypeOK
  BY InitialTypes
<1>2. ExplorerTypeOK /\ [Next]_vars => ExplorerTypeOK'
  BY TypesStep
<1> QED
  BY <1>1, <1>2, PTL DEF Spec

(* What a session was sent, what is kept for it and what has been announced *)
(* since it subscribed are the same changes in the same order.              *)
THEOREM ChangesAreHeard == Spec => []EveryChangeIsHeard
<1>1. Init => ExplorerTypeOK /\ HeardInv
  BY InitialTypes, InitiallyHeard
<1>2. (ExplorerTypeOK /\ HeardInv) /\ [Next]_vars => (ExplorerTypeOK /\ HeardInv)'
  BY TypesStep, HeardStep
<1>3. HeardInv => EveryChangeIsHeard
  BY DEF HeardInv
<1> QED
  BY <1>1, <1>2, <1>3, PTL DEF Spec

(****************************************************************************)
(* The tree follows the directory                                           *)
(****************************************************************************)
LEMMA CountTypes ==
  ASSUME TreeTypeOK, NEW p
  PROVE  /\ Times(tree, p) \in Nat /\ Due(pending, p) \in Nat
         /\ (Times(tree, p) # 0 <=> Has(tree, p))
         /\ (Due(pending, p) = 0 <=> p \notin Pending)
<1>1. tree \in Seq(Nodes) /\ pending \in Seq(Watched) /\ Len(pending) \in Nat
  BY DEF TreeTypeOK
<1>2. Due(pending, p) \in 0 .. Len(pending)
  BY <1>1, DueType
<1>3. Due(pending, p) = 0 <=> \A i \in DOMAIN pending : pending[i] # p
  BY <1>1, DueNone
<1> QED
  BY <1>1, <1>2, <1>3, TimesType DEF Pending

LEMMA WatchedPaths ==
  /\ Dir \in Watched /\ Watched \subseteq Paths
  /\ GitIgnored \cap Watched = {}
  /\ \A p \in Paths : p \notin Ignored => p \in Watched
BY FileExplorerAssumption DEF Watched, Paths, Ignored

(* An empty queue has no deletions due.                                     *)
LEMMA NothingPending ==
  ASSUME pending = << >>
  PROVE  Pending = {} /\ Missed = seen \ disk /\ Distinct /\ Sorted /\ \A p : Due(pending, p) = 0
<1>1. DOMAIN pending = {}
  OBVIOUS
<1>2. Pending = {}
  BY <1>1 DEF Pending
<1>3. ASSUME NEW p
      PROVE  Due(pending, p) = 0
  <2>1. Due(<< >>, p) = 0
    BY DueOne
  <2> QED
    BY <2>1
<1>4. Distinct /\ Sorted
  BY <1>1, <1>2 DEF Distinct, Sorted
<1> QED
  BY <1>2, <1>3, <1>4 DEF Missed

(* A tree that matches the directory when nothing is under way is what both *)
(* ways of changing the directory start from.                               *)
LEMMA MatchingIsCounted ==
  ASSUME TreeTypeOK, pending = << >>, seen = disk, Matches(tree, disk)
  PROVE  Counted /\ Sorted /\ EchoInv /\ Missed = {} /\ Present = Watched \cap disk
<1>1. Pending = {} /\ Missed = seen \ disk /\ Distinct /\ Sorted /\ \A p : Due(pending, p) = 0
  BY NothingPending
<1>2. \A p \in Watched : Times(tree, p) = One(p \in disk)
  BY DEF Matches
<1>3. Counted
  BY <1>1, <1>2 DEF Counted, One
<1>4. Present = Watched \cap disk /\ Single
  BY <1>2 DEF Present, Single, One
<1>5. Echo
  BY <1>1, <1>4 DEF Echo
<1> QED
  BY <1>1, <1>3, <1>4, <1>5 DEF EchoInv

LEMMA SettledMatches ==
  ASSUME TreeTypeOK, TreeInv, Running, Promised, Settled
  PROVE  Matches(tree, disk)
<1>1. seen = disk /\ pending = << >> /\ source \in {"outside", "caller"}
  BY DEF Settled, TreeTypeOK
<1>2. Pending = {} /\ Missed = {} /\ \A p : Due(pending, p) = 0
  BY <1>1, NothingPending
<1>3. CASE source = "outside"
  <2>1. Counted
    BY <1>3 DEF TreeInv, OutsideInv
  <2> QED
    BY <1>1, <1>2, <2>1 DEF Counted, Matches, One
<1>4. CASE source = "caller"
  <2>1. Single /\ Echo
    BY <1>4 DEF TreeInv, CallerInv, EchoInv
  <2>2. Present = Watched \cap disk
    <3>1. Present \subseteq Watched
      BY DEF Present
    <3> QED
      BY <1>1, <1>2, <2>1, <3>1 DEF Echo
  <2>3. ASSUME NEW p \in Watched
        PROVE  Times(tree, p) = One(p \in disk)
    <3>1. Times(tree, p) \in {0, 1} /\ (Times(tree, p) # 0 <=> p \in disk)
      BY <2>1, <2>2 DEF Single, Present
    <3> QED
      BY <3>1 DEF One
  <2> QED
    BY <2>3 DEF Matches
<1> QED
  BY <1>1, <1>3, <1>4

LEMMA TreeInvImplies == TreeTypeOK /\ TreeInv => TreeIsDisk
<1> SUFFICES ASSUME TreeTypeOK, TreeInv, Settled, stage = "watching",
                    blur \cap {"early", "mixed", "swallowed", "rebuilt"} = {}
             PROVE  \A p \in Watched : Cardinality(Positions(tree, p)) = IF p \in disk THEN 1 ELSE 0
  BY DEF TreeIsDisk
<1>1. Running /\ Promised
  BY DEF Running, Promised, Settled
<1>2. Matches(tree, disk)
  BY <1>1, SettledMatches
<1> QED
  BY <1>2 DEF Matches, Times, One

LEMMA InitialTree == Init => TreeInv
<1> SUFFICES ASSUME Init
             PROVE  TreeInv
  OBVIOUS
<1>1. Closed(disk) /\ Closed(seen)
  <2>1. \A f \in disk \cap Files : Up(f) \in disk \cup {Root}
    BY FileExplorerAssumption DEF Init
  <2>2. disk \subseteq Paths /\ seen = {}
    BY FileExplorerAssumption DEF Init
  <2> QED
    BY <2>1, <2>2, UpType DEF Closed, Paths
<1>2. ClosedInv
  BY <1>1 DEF Init, ClosedInv
<1>3. StartInv
  BY DEF Init, StartInv, Still
<1> QED
  BY <1>2, <1>3 DEF Init, TreeInv, OutsideInv, CallerInv, Running

(* What the parts of the invariant are about, where that does not change    *)
LEMMA ClosedKept ==
  ASSUME ClosedInv, UNCHANGED <<disk, seen, rebuild, stage>>,
         Indexer \in subscribers' => Indexer \in subscribers,
         Indexer \in waiting' => Indexer \in waiting
  PROVE  ClosedInv'
BY DEF ClosedInv

LEMMA StartKept ==
  ASSUME StartInv, UNCHANGED <<disk, seen, tree, stage, scan, watch, pending, call>>, blur \subseteq blur'
  PROVE  StartInv'
<1>1. UNCHANGED <<Running, Still>> /\ (Promised' => Promised)
  BY DEF Running, Still, Promised
<1>2. Shallow(scan, disk)' <=> Shallow(scan, disk)
  BY DEF Shallow, Times, Positions
<1>3. Matches(tree, disk)' <=> Matches(tree, disk)
  BY DEF Matches, Times, Positions
<1> QED
  BY <1>1, <1>2, <1>3 DEF StartInv

LEMMA OutsideKept ==
  ASSUME OutsideInv, UNCHANGED <<seen, tree, stage, watch, pending, call, source>>, blur \subseteq blur'
  PROVE  OutsideInv'
<1>1. UNCHANGED <<Running, Still>> /\ (Promised' => Promised)
  BY DEF Running, Still, Promised
<1>2. (Counted' <=> Counted) /\ (Sorted' <=> Sorted)
  BY DEF Counted, Sorted, Times, Positions, Due
<1> QED
  BY <1>1, <1>2 DEF OutsideInv

LEMMA EchoKept ==
  ASSUME UNCHANGED <<disk, seen, tree, pending>>
  PROVE  /\ Pending' = Pending /\ Present' = Present /\ Missed' = Missed
         /\ (EchoInv' <=> EchoInv)
         /\ \A c : (Performed(c)' <=> Performed(c)) /\ (Intended(c)' <=> Intended(c))
<1>1. Pending' = Pending /\ Missed' = Missed
  BY DEF Pending, Missed
<1>2. Present' = Present /\ Single' = Single
  BY DEF Present, Single, Times, Positions
<1>3. Distinct' = Distinct
  BY <1>1 DEF Distinct
<1>4. Echo' = Echo
  BY <1>1, <1>2 DEF Echo
<1>5. \A c : (Performed(c)' <=> Performed(c)) /\ (Intended(c)' <=> Intended(c))
  BY <1>1, <1>2 DEF Performed, Intended, Matches, Times, Positions
<1> QED
  BY <1>1, <1>2, <1>3, <1>4, <1>5 DEF EchoInv

LEMMA CallerKept ==
  ASSUME CallerInv, UNCHANGED <<disk, seen, tree, stage, watch, pending, call, source>>, blur \subseteq blur'
  PROVE  CallerInv'
<1>1. UNCHANGED Running /\ (Promised' => Promised)
  BY DEF Running, Promised
<1>2. EchoInv' <=> EchoInv
  BY EchoKept
<1>3. Working' <=> Working
  BY EchoKept DEF Working
<1> QED
  BY <1>1, <1>2, <1>3 DEF CallerInv

LEMMA TreeKept ==
  ASSUME TreeInv, UNCHANGED <<disk, seen, tree, stage, scan, watch, rebuild, pending, call, source>>,
         blur \subseteq blur', Indexer \in subscribers' => Indexer \in subscribers,
         Indexer \in waiting' => Indexer \in waiting
  PROVE  TreeInv'
<1>1. ClosedInv'
  BY ClosedKept DEF TreeInv
<1>2. StartInv'
  BY StartKept DEF TreeInv
<1>3. OutsideInv'
  BY OutsideKept DEF TreeInv
<1>4. CallerInv'
  BY CallerKept DEF TreeInv
<1> QED
  BY <1>1, <1>2, <1>3, <1>4 DEF TreeInv

(* An operation begins: what came before it is settled, or nothing is       *)
(* promised any more.                                                       *)
LEMMA BeginTree ==
  ASSUME TreeTypeOK, TreeInv, NEW u \in Callers, NEW op, NEW p, NEW q, Begin(u, op, p, q),
         op = "move" => p \in disk /\ q \notin disk
  PROVE  TreeInv'
<1>1. /\ UNCHANGED <<disk, seen, tree, stage, scan, rebuild, watch, waiting, pending, subscribers>>
      /\ blur' = blur \cup Early \cup {"inside"} \cup (IF Settled THEN {} ELSE {"mixed"})
      /\ source' = "caller"
      /\ call' = [call EXCEPT ![u] = [op |-> op, path |-> p, to |-> q, done |-> FALSE]]
      /\ call \in [Callers -> Calls]
  BY DEF Begin, Called, building, events, TreeTypeOK
<1>2. ClosedInv'
  BY <1>1, ClosedKept DEF TreeInv
<1>3. ASSUME Promised'
      PROVE  Running /\ Promised /\ Settled /\ Running'
  BY <1>1, <1>3 DEF Promised, Early, Running
<1>4. StartInv'
  BY <1>3 DEF StartInv
<1>5. OutsideInv'
  BY <1>1 DEF OutsideInv
<1>6. ASSUME Promised'
      PROVE  EchoInv' /\ Working'
  <2>1. seen = disk /\ pending = << >> /\ Matches(tree, disk) /\ \A v \in Callers : call[v] = Idle
    BY <1>3, <1>6, SettledMatches DEF Settled
  <2>2. EchoInv
    BY <2>1, MatchingIsCounted
  <2>3. EchoInv' /\ \A c : Intended(c)' <=> Intended(c)
    BY <1>1, <2>2, EchoKept
  <2>4. call'[u] = [op |-> op, path |-> p, to |-> q, done |-> FALSE]
    BY <1>1
  <2>5. Intended(call'[u])
    BY <2>1, <2>4 DEF Intended
  <2>6. \A v \in Callers : v # u => call'[v] = Idle
    BY <1>1, <2>1
  <2>7. call'[u].done = FALSE
    BY <2>4
  <2>8. Intended(call[u])'
    BY <1>1, <2>5 DEF Intended, Matches, Times, Positions
  <2>9. Working'
    BY <2>6, <2>7, <2>8 DEF Working
  <2> QED
    BY <2>3, <2>9
<1>7. CallerInv'
  BY <1>6 DEF CallerInv
<1> QED
  BY <1>2, <1>4, <1>5, <1>7 DEF TreeInv

(* The directory changes from outside                                       *)
LEMMA OutsideTree ==
  ASSUME TreeTypeOK, TreeInv, NEW here, Outside(here), Closed(here)
  PROVE  TreeInv'
<1>1. /\ UNCHANGED <<seen, tree, stage, scan, rebuild, watch, waiting, pending, call, subscribers>>
      /\ blur' = blur \cup Early \cup (IF Settled \/ source = "outside" THEN {} ELSE {"mixed"})
      /\ source' = "outside" /\ disk' = here /\ source \in {"outside", "caller"}
  BY DEF Outside, ChangedOutside, building, events, TreeTypeOK
<1>2. ClosedInv'
  BY <1>1 DEF TreeInv, ClosedInv
<1>3. ASSUME Promised'
      PROVE  Running /\ Promised /\ (Settled \/ source = "outside") /\ Running'
  BY <1>1, <1>3 DEF Promised, Early, Running
<1>4. StartInv'
  BY <1>3 DEF StartInv
<1>5. CallerInv'
  BY <1>1 DEF CallerInv
<1>6. ASSUME Promised'
      PROVE  Still /\ Counted /\ Sorted
  <2>1. CASE source = "outside"
    BY <1>3, <1>6, <2>1 DEF TreeInv, OutsideInv
  <2>2. CASE Settled
    <3>1. seen = disk /\ pending = << >> /\ Matches(tree, disk) /\ Still
      BY <1>3, <1>6, <2>2, SettledMatches DEF Settled, Still
    <3> QED
      BY <3>1, MatchingIsCounted
  <2> QED
    BY <1>3, <1>6, <2>1, <2>2
<1>7. UNCHANGED <<Still, Counted, Sorted>>
  BY <1>1 DEF Still, Counted, Sorted, Times, Positions, Due
<1>8. OutsideInv'
  BY <1>6, <1>7 DEF OutsideInv
<1> QED
  BY <1>2, <1>4, <1>5, <1>8 DEF TreeInv

LEMMA EnvironmentTree ==
  ASSUME TreeTypeOK, TreeInv, Environment
  PROVE  TreeInv'
<1>1. Closed(disk) /\ disk \subseteq Paths
  BY DEF TreeInv, ClosedInv, TreeTypeOK
<1>2. ASSUME NEW p \in Paths, Appears(p)
      PROVE  TreeInv'
  <2>1. Closed(disk \cup {p})
    BY <1>1, <1>2 DEF Appears, There, Closed
  <2> QED
    BY <1>2, <2>1, OutsideTree DEF Appears
<1>3. ASSUME NEW p \in Paths, Disappears(p)
      PROVE  TreeInv'
  <2>1. \A q \in disk : Up(q) # p
    BY <1>1, <1>3 DEF Disappears, Below
  <2>2. Closed(disk \ {p})
    BY <1>1, <2>1 DEF Closed
  <2> QED
    BY <1>3, <2>2, OutsideTree DEF Disappears
<1>4. ASSUME NEW g \in Files, NEW h \in Files, MovesAway(g, h)
      PROVE  TreeInv'
  <2>1. \A q \in disk : Up(q) # g
    BY <1>1, UpType, FileExplorerAssumption
  <2>2. Up(h) # g
    BY UpType, FileExplorerAssumption DEF Paths
  <2>3. Closed((disk \ {g}) \cup {h})
    BY <1>1, <1>4, <2>1, <2>2 DEF Closed, MovesAway, There
  <2> QED
    BY <1>4, <2>3, OutsideTree DEF MovesAway
<1> QED
  BY <1>2, <1>3, <1>4 DEF Environment

(* The change of an operation, whole or the first part of it: what is there *)
(* then is what the directory must hold.                                    *)
LEMMA ChangedClosed ==
  ASSUME TreeTypeOK, Closed(disk), NEW u \in Callers, call[u] # Idle
  PROVE  /\ Possible(call[u]) => Closed(AfterChange(call[u]))
         /\ Closed(disk \cup ({Up(call[u].path)} \ {Root}))
<1> DEFINE c == call[u]
<1>1. /\ c.op \in {"add", "modify", "remove", "move"} /\ c.path \in Paths /\ c.to \in Paths
      /\ c.op = "move" => c.path \in Files /\ c.to \in Files
  BY CallType
<1>2. disk \subseteq Paths
  BY DEF TreeTypeOK
<1>3. Up(c.path) # Root => Up(c.path) = Dir /\ Up(Up(c.path)) = Root
  BY <1>1, UpType
<1> HIDE DEF c
<1>4. Closed(disk \cup ({Up(c.path)} \ {Root}))
  BY <1>3 DEF Closed
<1>5. ASSUME Possible(c)
      PROVE  Closed(AfterChange(c))
  <2>1. CASE c.op = "add"
    <3>1. AfterChange(c) = disk \cup ({c.path, Up(c.path)} \ {Root})
      BY <2>1 DEF AfterChange
    <3> QED
      BY <1>1, <1>3, <3>1 DEF Closed
  <2>2. CASE c.op = "modify"
    <3>1. AfterChange(c) = disk \cup {c.path} /\ There(Up(c.path))
      BY <1>5, <2>2 DEF AfterChange, Possible
    <3> QED
      BY <3>1 DEF Closed, There
  <2>3. CASE c.op = "remove"
    <3>1. AfterChange(c) = disk \ ({c.path} \cup Below(c.path))
      BY <2>3 DEF AfterChange
    <3>2. ASSUME NEW p \in disk \ ({c.path} \cup Below(c.path)), Up(p) # Root
          PROVE  Up(p) \in disk \ ({c.path} \cup Below(c.path))
      <4>1. p \in Paths /\ Up(p) \in disk /\ Up(p) # c.path
        BY <1>2, <3>2 DEF Closed, Below
      <4>2. Up(p) = Dir /\ Up(Up(p)) = Root /\ c.path # Root
        BY <1>1, <3>2, <4>1, UpType
      <4> QED
        BY <4>1, <4>2 DEF Below
    <3> QED
      BY <3>1, <3>2 DEF Closed
  <2>4. CASE c.op = "move"
    <3>1. AfterChange(c) = (disk \ {c.path}) \cup {c.to} /\ There(Up(c.to))
      BY <1>5, <2>4 DEF AfterChange, Possible
    <3>2. Up(c.to) # c.path /\ \A p \in disk : Up(p) # c.path
      BY <1>1, <1>2, <2>4, UpType, FileExplorerAssumption
    <3> QED
      BY <3>1, <3>2 DEF Closed, There
  <2> QED
    BY <1>1, <2>1, <2>2, <2>3, <2>4
<1> QED
  BY <1>4, <1>5 DEF c

(* While an operation is at work nothing else is, and the directory is only *)
(* changed by it.                                                           *)
LEMMA AtWork ==
  ASSUME TreeTypeOK, TreeInv, NEW u \in Callers, call[u] # Idle, Promised
  PROVE  /\ Running /\ source = "caller" /\ EchoInv
         /\ \A v \in Callers : v # u => call[v] = Idle
         /\ IF call[u].done THEN Performed(call[u]) ELSE Intended(call[u])
<1>1. Running
  BY DEF TreeInv, StartInv, Still
<1>2. source = "caller"
  BY <1>1 DEF TreeInv, OutsideInv, Still, TreeTypeOK
<1>3. EchoInv /\ Working
  BY <1>1, <1>2 DEF TreeInv, CallerInv
<1> QED
  BY <1>1, <1>2, <1>3 DEF Working

(* What has been done to the directory when nothing was noticed yet         *)
LEMMA EchoOfChange ==
  ASSUME TreeTypeOK, pending = << >>, disk = seen, Matches(tree, disk), NEW here,
         disk' = here, UNCHANGED <<seen, tree, pending>>,
         Dir \in disk \ here => here \subseteq disk
  PROVE  /\ EchoInv' /\ Missed' = disk \ here /\ Present' = Watched \cap disk
<1>1. /\ Pending = {} /\ Distinct /\ Single /\ Present = Watched \cap disk
  BY NothingPending, MatchingIsCounted DEF EchoInv
<1>2. /\ Pending' = {} /\ Missed' = disk \ here
  BY <1>1 DEF Pending, Missed
<1>3. Present' = Watched \cap disk /\ Single'
  BY <1>1 DEF Present, Single, Times, Positions
<1>4. Distinct'
  <2>1. DOMAIN pending = {}
    OBVIOUS
  <2> QED
    BY <1>2, <2>1 DEF Distinct
<1>5. Echo'
  BY <1>2, <1>3 DEF Echo
<1> QED
  BY <1>2, <1>3, <1>4, <1>5 DEF EchoInv

LEMMA PerformTree ==
  ASSUME TreeTypeOK, TreeInv, NEW u \in Callers, Perform(u) \/ PerformFails(u)
  PROVE  TreeInv'
<1> DEFINE c == call[u]
<1>1. /\ call[u] # Idle /\ ~call[u].done /\ blur' = blur \cup Early
      /\ UNCHANGED <<seen, tree, stage, scan, rebuild, watch, waiting, pending, subscribers, source>>
      /\ call \in [Callers -> Calls]
  BY DEF Perform, PerformFails, building, events, TreeTypeOK
<1>2. /\ c.op \in {"add", "modify", "remove", "move"} /\ c.path \in Paths /\ c.to \in Paths
      /\ c.op = "move" => c.path \in Files /\ c.to \in Files
      /\ Closed(disk) /\ disk \subseteq Paths
  BY <1>1, CallType DEF TreeInv, ClosedInv, TreeTypeOK
<1>3. Closed(disk')
  <2>1. \/ disk' = disk
        \/ Possible(call[u]) /\ disk' = AfterChange(call[u])
        \/ disk' = disk \cup ({Up(call[u].path)} \ {Root})
    BY DEF Perform, PerformFails
  <2> QED
    BY <1>1, <1>2, <2>1, ChangedClosed
<1>4. ClosedInv'
  BY <1>1, <1>3 DEF TreeInv, ClosedInv
<1>5. ASSUME Promised'
      PROVE  /\ Promised /\ Running /\ Running' /\ source' = "caller" /\ Intended(c)
             /\ \A v \in Callers : v # u => call[v] = Idle
  <2>1. Promised /\ Running
    BY <1>1, <1>5 DEF Promised, Running, Early
  <2> QED
    BY <1>1, <2>1, AtWork DEF Running
<1>6. StartInv'
  BY <1>5 DEF StartInv
<1>7. OutsideInv'
  BY <1>5 DEF OutsideInv
<1>8. ASSUME Promised'
      PROVE  EchoInv' /\ Working'
  <2>1. /\ disk = seen /\ pending = << >> /\ Matches(tree, disk)
        /\ c.op = "move" => c.path \in disk /\ c.to \notin disk
    BY <1>5, <1>8 DEF Intended
  <2>2. Dir \in disk \ disk' => disk' \subseteq disk
    <3>1. CASE disk \subseteq disk'
      BY <3>1
    <3>2. CASE disk' = AfterChange(c)
      <4>1. c.op = "move" => c.path # Dir
        BY <1>2, FileExplorerAssumption
      <4> HIDE DEF c
      <4> QED
        BY <1>2, <3>2, <4>1 DEF AfterChange
    <3> QED
      BY <3>1, <3>2 DEF Perform, PerformFails
  <2>3. EchoInv' /\ Missed' = disk \ disk' /\ Present' = Watched \cap disk
    BY <1>1, <2>1, <2>2, EchoOfChange
  <2>4. \A v \in Callers : v # u => call'[v] = Idle
    BY <1>1, <1>5, <1>8 DEF Perform, PerformFails
  <2>5. CASE call'[u] = Idle
    BY <2>3, <2>4, <2>5 DEF Working
  <2>6. CASE call'[u] # Idle
    <3>1. disk' = AfterChange(c) /\ call' = [call EXCEPT ![u].done = TRUE]
      BY <1>1, <2>6 DEF Perform, PerformFails
    <3>2. call'[u] = [c EXCEPT !.done = TRUE] /\ c \in Calls
      BY <1>1, <3>1
    <3>3. /\ call'[u].done /\ call'[u].op = c.op /\ call'[u].path = c.path /\ call'[u].to = c.to
      BY <1>1, <3>2 DEF Calls
    <3> HIDE DEF c
    <3>4. c.op = "add" => c.path \in disk' /\ disk \ disk' = {}
      BY <1>2, <3>1, UpType DEF AfterChange
    <3>5. c.op = "remove" => c.path \notin disk' /\ disk' \subseteq seen
      BY <2>1, <3>1 DEF AfterChange
    <3>6. c.op = "move" => /\ c.path \notin disk' /\ c.to \in disk' /\ c.to \notin seen
                           /\ c.to \notin Watched \cap disk
                           /\ disk' \ seen \subseteq {c.to} /\ disk \ disk' \subseteq {c.path}
      BY <2>1, <3>1 DEF AfterChange
    <3>7. Performed(call[u])'
      BY <1>1, <2>3, <3>3, <3>4, <3>5, <3>6 DEF Performed
    <3> QED
      BY <2>3, <2>4, <3>3, <3>7 DEF Working
  <2> QED
    BY <2>5, <2>6
<1>9. CallerInv'
  BY <1>8 DEF CallerInv
<1> QED
  BY <1>4, <1>6, <1>7, <1>9 DEF TreeInv

(* The tree is given another shape while the directory stays as it is       *)
LEMMA EchoOfTree ==
  ASSUME EchoInv, UNCHANGED <<disk, seen, pending>>,
         \A x \in Watched : Times(tree', x) \in {0, 1},
         NEW now, now = {x \in Watched : Times(tree', x) # 0},
         (Watched \cap disk) \ now \subseteq disk \ seen,
         now \ disk \subseteq Missed,
         \A p \in Watched \cap (disk \ seen), x \in Watched \cap Missed :
           SameKind(x, p) => (x \in now <=> p \notin now)
  PROVE  EchoInv'
<1>1. Pending' = Pending /\ Missed' = Missed
  BY DEF Pending, Missed
<1>2. Present' = now
  BY DEF Present
<1>3. Distinct'
  BY <1>1 DEF Distinct, EchoInv
<1>4. Single'
  BY DEF Single
<1>5. Echo'
  BY <1>1, <1>2 DEF Echo, EchoInv
<1> QED
  BY <1>3, <1>4, <1>5 DEF EchoInv

LEMMA AnswerEcho ==
  ASSUME TreeTypeOK, Closed(disk), EchoInv, NEW u \in Callers, Answer(u), Performed(call[u])
  PROVE  EchoInv'
<1> DEFINE c == call[u]
           now == {x \in Watched : Times(tree', x) # 0}
<1>1. /\ call[u] # Idle /\ tree' = SyncOf(c).tree /\ UNCHANGED <<disk, seen, pending>>
      /\ tree \in Seq(Nodes) /\ disk \subseteq Paths
  BY DEF Answer, Apply, TreeTypeOK
<1>2. /\ c.op \in {"add", "modify", "remove", "move"} /\ c.path \in Paths /\ c.to \in Paths
      /\ c.op = "move" => c.path \in Files /\ c.to \in Files
  BY <1>1, CallType
<1>3. Distinct /\ Single /\ Echo /\ Present \subseteq Watched
  BY DEF EchoInv, Present
<1>4. \A x \in Watched : /\ x \in Paths /\ Times(tree, x) \in {0, 1}
                         /\ x \in Present <=> Times(tree, x) # 0
                         /\ Times(tree, x) # 0 <=> Has(tree, x)
  BY <1>3, CountTypes, WatchedPaths DEF Single, Present
<1>5. Dir \in Watched
  BY WatchedPaths
<1> HIDE DEF c
<1>6. CASE c.op = "modify"
  <2>1. tree' = tree
    BY <1>1, <1>6 DEF SyncOf, Sync
  <2> QED
    BY <1>1, <2>1, EchoKept
<1>7. CASE c.op = "add"
  <2>1. c.path \in disk /\ Missed = {}
    BY <1>7 DEF Performed, c
  <2>2. tree' = AddSync(tree, c.path).tree
    BY <1>1, <1>7 DEF SyncOf
  <2>3. CASE Has(tree, c.path)
    <3>1. \A x \in Watched : Times(tree', x) = Times(tree, x)
      BY <1>1, <1>2, <1>4, <2>2, <2>3, AddTimes
    <3>2. now = Present /\ \A x \in Watched : Times(tree', x) \in {0, 1}
      BY <1>3, <1>4, <3>1
    <3> QED
      BY <1>1, <1>3, <3>2, EchoOfTree DEF Echo
  <2>4. CASE ~Has(tree, c.path)
    <3>1. \A x \in Watched : Times(tree', x)
            = Times(tree, x) + One(x = c.path) + One(x = Up(c.path) /\ ~Has(tree, x))
      BY <1>1, <1>2, <1>4, <2>2, <2>4, AddTimes
    <3>2. Up(c.path) # c.path
      BY <1>2, UpType
    <3>3. \A x \in Watched : Times(tree', x) \in {0, 1}
      BY <1>4, <2>4, <3>1, <3>2 DEF One
    <3>4. \A x \in Watched : x \in now <=> x \in Present \/ x = c.path \/ x = Up(c.path)
      BY <1>4, <3>1 DEF One
    <3>5. Up(c.path) \in disk \cup {Root} /\ Root \notin Watched
      BY <2>1, UpType, WatchedPaths DEF Closed
    <3>6. /\ (Watched \cap disk) \ now \subseteq disk \ seen
          /\ now \ disk \subseteq Missed
      BY <1>3, <2>1, <3>4, <3>5 DEF Echo
    <3> HIDE DEF now
    <3>7. EchoInv'
      BY <1>1, <2>1, <3>3, <3>6, EchoOfTree DEF now
    <3> QED
      BY <3>7
  <2> QED
    BY <2>3, <2>4
<1>8. CASE c.op = "remove"
  <2>1. c.path \notin disk /\ disk \subseteq seen
    BY <1>8 DEF Performed, c
  <2>2. tree' = RemoveSync(tree, c.path).tree
    BY <1>1, <1>8 DEF SyncOf
  <2>3. \A x \in Watched : Times(tree', x)
          = IF ~Has(tree, c.path) THEN Times(tree, x)
            ELSE IF x = c.path THEN Times(tree, x) - 1
            ELSE IF c.path = Dir /\ Up(x) = Dir THEN 0 ELSE Times(tree, x)
    BY <1>1, <1>2, <1>4, <2>2, RemoveTimes
  <2>4. \A x \in Watched : Times(tree', x) \in {0, 1} /\ (x \in now => x \in Present)
    BY <1>4, <2>3
  <2>5. \A x \in Watched \cap disk : x \in Present => x \in now
    <3>1. ASSUME NEW x \in Watched \cap disk
          PROVE  x # c.path /\ ~(c.path = Dir /\ Up(x) = Dir)
      BY <2>1, UpType DEF Closed
    <3> QED
      BY <1>4, <2>3, <3>1
  <2>6. /\ (Watched \cap disk) \ now \subseteq disk \ seen
        /\ now \ disk \subseteq Missed
        /\ disk \ seen = {}
    BY <1>3, <2>1, <2>4, <2>5 DEF Echo
  <2> HIDE DEF now
  <2>7. EchoInv'
    BY <1>1, <2>4, <2>6, EchoOfTree DEF now
  <2> QED
    BY <2>7
<1>9. CASE c.op = "move"
  <2>1. /\ c.path \notin disk /\ c.to \in disk /\ c.to \notin seen /\ c.to \notin Present
        /\ disk \ seen \subseteq {c.to} /\ Missed \subseteq {c.path}
    BY <1>9 DEF Performed, c
  <2>2. tree' = MoveSync(tree, c.path, c.to).tree /\ SameKind(c.path, c.to)
    BY <1>1, <1>2, <1>9, FileExplorerAssumption DEF SyncOf, SameKind
  <2>3. CASE ~Has(tree, c.path)
    <3>1. \A x \in Watched : Times(tree', x) = Times(tree, x)
      BY <1>1, <1>2, <1>4, <2>2, <2>3, MoveTimes
    <3>2. now = Present /\ \A x \in Watched : Times(tree', x) \in {0, 1}
      BY <1>3, <1>4, <3>1
    <3> QED
      BY <1>1, <1>3, <3>2, EchoOfTree DEF Echo
  <2>4. CASE Has(tree, c.path)
    <3>1. ~(Up(c.to) = Dir /\ ~Has(tree, Dir))
      <4>1. SUFFICES ASSUME Up(c.to) = Dir, ~Has(tree, Dir)
                     PROVE  FALSE
        OBVIOUS
      <4>2. Dir \in disk /\ Dir \notin Present
        BY <1>4, <1>5, <2>1, <4>1, UpType DEF Closed
      <4>3. Dir \in disk \ seen
        BY <1>3, <1>5, <4>2 DEF Echo
      <4> QED
        BY <1>2, <1>9, <2>1, <4>3, FileExplorerAssumption
    <3>2. \A x \in Watched : Times(tree', x) = Times(tree, x) - One(x = c.path) + One(x = c.to)
      BY <1>1, <1>2, <1>4, <2>2, <2>4, <3>1, MoveTimes
    <3>3. c.path # c.to
      BY <2>1
    <3>4. \A x \in Watched : /\ Times(tree', x) \in {0, 1}
                             /\ x \in now <=> (x \in Present /\ x # c.path) \/ x = c.to
      BY <1>4, <2>1, <2>4, <3>2, <3>3 DEF One
    <3>5. /\ (Watched \cap disk) \ now \subseteq disk \ seen
          /\ now \ disk \subseteq Missed
      BY <1>3, <2>1, <3>4 DEF Echo
    <3>6. \A p \in Watched \cap (disk \ seen), x \in Watched \cap Missed :
            x \notin now /\ p \in now
      BY <2>1, <3>3, <3>4
    <3> HIDE DEF now
    <3>7. EchoInv'
      BY <1>1, <3>4, <3>5, <3>6, EchoOfTree DEF now
    <3> QED
      BY <3>7
  <2> QED
    BY <2>3, <2>4
<1> QED
  BY <1>2, <1>6, <1>7, <1>8, <1>9

LEMMA AnswerTree ==
  ASSUME TreeTypeOK, TreeInv, NEW u \in Callers, Answer(u)
  PROVE  TreeInv'
<1>1. /\ call[u] # Idle /\ call[u].done /\ blur \subseteq blur' /\ Early \subseteq blur'
      /\ UNCHANGED <<disk, seen, stage, scan, rebuild, watch, waiting, pending, subscribers, source>>
      /\ call' = [call EXCEPT ![u] = Idle] /\ call \in [Callers -> Calls]
  BY DEF Answer, building, events, TreeTypeOK
<1>2. ClosedInv'
  BY <1>1, ClosedKept DEF TreeInv
<1>3. ASSUME Promised'
      PROVE  /\ Running' /\ source' = "caller" /\ EchoInv /\ Performed(call[u])
             /\ \A v \in Callers : v # u => call[v] = Idle
  <2>1. Promised /\ Running
    BY <1>1, <1>3 DEF Promised, Running, Early
  <2> QED
    BY <1>1, <2>1, AtWork DEF Running
<1>4. StartInv' /\ OutsideInv'
  BY <1>3 DEF StartInv, OutsideInv
<1>5. ASSUME Promised'
      PROVE  EchoInv' /\ Working'
  <2>1. EchoInv'
    BY <1>3, <1>5, AnswerEcho DEF TreeInv, ClosedInv
  <2>2. \A v \in Callers : call'[v] = Idle
    BY <1>1, <1>3, <1>5
  <2> QED
    BY <2>1, <2>2 DEF Working
<1>6. CallerInv'
  BY <1>5 DEF CallerInv
<1> QED
  BY <1>2, <1>4, <1>6 DEF TreeInv

(* A path is noticed.  Before the watcher is ready for the indexer there is *)
(* none to notice.                                                          *)
LEMMA NoticedRuns ==
  ASSUME TreeInv, watch = "on", seen # disk, Promised
  PROVE  Running
BY DEF TreeInv, StartInv, Running

(* What a noticed path does to the tree: nothing to an ignored one; it is   *)
(* added, or it is where a path of its kind went to.                        *)
LEMMA NoticedTimes ==
  ASSUME TreeTypeOK, NEW p \in Paths, SeesAdd(p), Promised', Up(p) = Dir => Has(tree, Dir)
  PROVE  /\ blur \subseteq blur'
         /\ \/ /\ p \in Ignored /\ SameAs(p) = {} /\ pending' = pending
               /\ \A x \in Watched : Times(tree', x) = Times(tree, x)
            \/ /\ p \in Watched /\ SameAs(p) = {} /\ pending' = pending
               /\ \A x \in Watched : Times(tree', x)
                    = IF Has(tree, p) THEN Times(tree, x) ELSE Times(tree, x) + One(x = p)
            \/ /\ p \in Watched /\ SameAs(p) # {} /\ pending' = RemoveAt(pending, First(p))
               /\ \A x \in Watched : Times(tree', x)
                    = IF ~Has(tree, pending[First(p)]) THEN Times(tree, x)
                      ELSE Times(tree, x) - One(x = pending[First(p)]) + One(x = p)
<1>1. tree \in Seq(Nodes) /\ Watched \subseteq Paths /\ (p \notin Ignored => p \in Watched)
  BY WatchedPaths DEF TreeTypeOK
<1>2. CASE SameAs(p) = {}
  <2>1. /\ Follow(IF p \in Ignored THEN Sync(tree, << >>) ELSE AddSync(tree, p), {})
        /\ pending' = pending
    BY <1>2, SeesAddCases
  <2>2. CASE p \in Ignored
    BY <1>2, <2>1, <2>2 DEF Follow, Apply, Sync
  <2>3. CASE p \notin Ignored
    <3>1. tree' = AddSync(tree, p).tree /\ blur \subseteq blur'
      BY <2>1, <2>3 DEF Follow, Apply
    <3>2. ASSUME NEW x \in Watched
          PROVE  Times(tree', x) = IF Has(tree, p) THEN Times(tree, x) ELSE Times(tree, x) + One(x = p)
      <4>1. Times(tree', x) = IF Has(tree, p) THEN Times(tree, x)
                              ELSE Times(tree, x) + One(x = p) + One(x = Up(p) /\ ~Has(tree, x))
        BY <1>1, <3>1, AddTimes
      <4>2. One(x = Up(p) /\ ~Has(tree, x)) = 0
        BY <1>1, UpType DEF One
      <4>3. Times(tree, x) \in Nat /\ One(x = p) \in Nat
        BY CountTypes DEF One
      <4> QED
        BY <4>1, <4>2, <4>3
    <3> QED
      BY <1>1, <1>2, <2>1, <2>3, <3>1, <3>2
  <2> QED
    BY <2>2, <2>3
<1>3. CASE SameAs(p) # {}
  <2> DEFINE q == pending[First(p)]
  <2>1. /\ pending' = RemoveAt(pending, First(p))
        /\ IF p \in Ignored THEN Follow(Sync(tree, << >>), {"swallowed"})
           ELSE Follow(MoveSync(tree, q, p),
                       IF \E i \in SameAs(p) \ {First(p)} : pending[i] = p THEN {"crossed"} ELSE {})
    BY <1>3, SeesAddCases
  <2>2. SameKind(q, p) /\ q \in Paths
    BY <1>3, FirstPending
  <2> HIDE DEF q
  <2>3. p \notin Ignored
    BY <2>1 DEF Promised, Follow
  <2>4. tree' = MoveSync(tree, q, p).tree /\ blur \subseteq blur'
    BY <2>1, <2>3 DEF Follow, Apply
  <2>5. \A x \in Watched : Times(tree', x)
          = IF ~Has(tree, q) THEN Times(tree, x) ELSE Times(tree, x) - One(x = q) + One(x = p)
    BY <1>1, <2>2, <2>4, MoveTimes
  <2> QED
    BY <1>1, <1>3, <2>1, <2>3, <2>4, <2>5 DEF q
<1> QED
  BY <1>2, <1>3

LEMMA NoticedCounted ==
  ASSUME TreeTypeOK, TreeInv, NEW p \in Paths, SeesAdd(p), Promised', Counted, Sorted
  PROVE  Counted' /\ Sorted' /\ blur \subseteq blur'
<1>1. /\ p \in disk /\ p \notin seen /\ seen' = seen \cup {p}
      /\ (Up(p) = Dir => Dir \in seen) /\ pending \in Seq(Watched) /\ Len(pending) \in Nat
  BY SeesAddCases, UpType DEF Noticed, TreeTypeOK
<1>2. \A x \in Watched : Times(tree, x) \in Nat /\ Due(pending, x) \in Nat /\ (Times(tree, x) # 0 <=> Has(tree, x))
  BY CountTypes
<1>3. \A x \in Watched : Times(tree, x) = One(x \in seen) + Due(pending, x)
  BY DEF Counted
<1>4. Up(p) = Dir => Has(tree, Dir)
  BY <1>1, <1>2, <1>3, WatchedPaths DEF One
<1>5. CASE SameAs(p) = {}
  <2>1. pending' = pending /\ blur \subseteq blur'
    BY <1>4, <1>5, NoticedTimes
  <2>2. \A i \in DOMAIN pending : ~SameKind(pending[i], p)
    BY <1>5 DEF SameAs
  <2>3. Sorted'
    BY <1>1, <2>1, <2>2 DEF Sorted, SameKind
  <2>4. p \in Watched => Times(tree, p) = 0
    <3>1. Due(pending, p) = 0
      <4>1. p \notin Pending
        BY <2>2 DEF Pending, SameKind
      <4> QED
        BY <4>1, CountTypes
    <3> QED
      BY <1>1, <1>3, <3>1 DEF One
  <2>5. ASSUME NEW x \in Watched
        PROVE  Times(tree', x) = One(x \in seen') + Due(pending, x)
    <3>1. CASE p \in Ignored
      <4>1. Times(tree', x) = Times(tree, x) /\ x # p
        BY <1>4, <1>5, <3>1, NoticedTimes DEF Watched
      <4> QED
        BY <1>1, <1>3, <4>1 DEF One
    <3>2. CASE p \notin Ignored
      <4>1. p \in Watched
        BY <3>2, WatchedPaths
      <4>2. Times(tree', x) = Times(tree, x) + One(x = p)
        BY <1>2, <1>4, <1>5, <2>4, <3>2, <4>1, NoticedTimes
      <4> QED
        BY <1>1, <1>2, <1>3, <4>2 DEF One
    <3> QED
      BY <3>1, <3>2
  <2>6. Counted'
    BY <2>1, <2>5 DEF Counted
  <2> QED
    BY <2>1, <2>3, <2>6
<1>6. CASE SameAs(p) # {}
  <2> DEFINE k == First(p)
             q == pending[k]
  <2>1. /\ p \in Watched /\ pending' = RemoveAt(pending, k) /\ blur \subseteq blur'
        /\ \A x \in Watched : Times(tree', x)
             = IF ~Has(tree, q) THEN Times(tree, x) ELSE Times(tree, x) - One(x = q) + One(x = p)
    BY <1>4, <1>6, NoticedTimes
  <2>2. k \in DOMAIN pending /\ SameKind(q, p) /\ q \in Watched /\ \A j \in SameAs(p) : k <= j
    BY <1>6, FirstPending
  <2>3. Due(pending, q) # 0
    BY <2>2, CountTypes DEF Pending
  <2>4. Has(tree, q)
    BY <1>2, <1>3, <2>2, <2>3 DEF One
  <2>5. /\ Len(pending') = Len(pending) - 1 /\ DOMAIN pending' = 1 .. (Len(pending) - 1)
        /\ \A j \in 1 .. (Len(pending) - 1) : pending'[j] = pending[IF j < k THEN j ELSE j + 1]
    BY <1>1, <2>1, <2>2, DueRemoved
  <2>6. \A x \in Watched : Due(pending, x) = Due(pending', x) + One(q = x)
    BY <1>1, <2>1, <2>2, DueRemoved
  <2>11. \A x \in Watched : Due(pending', x) \in Nat
    <3>1. pending' \in Seq(Watched) /\ Len(pending') \in Nat
      BY <1>1, <2>1, <2>2, DueRemoved
    <3> QED
      BY <3>1, DueType
  <2> HIDE DEF k, q
  <2>7. ASSUME NEW x \in Watched
        PROVE  Times(tree', x) = One(x \in seen') + Due(pending', x)
    <3>1. Times(tree', x) = Times(tree, x) - One(x = q) + One(x = p)
      BY <2>1, <2>4
    <3>2. Due(pending, x) = Due(pending', x) + One(x = q)
      BY <2>6 DEF One
    <3>3. Times(tree, x) = One(x \in seen) + Due(pending, x)
      BY <1>3
    <3>4. One(x \in seen') = One(x \in seen) + One(x = p)
      BY <1>1 DEF One
    <3>5. One(x \in seen) \in Nat /\ One(x = q) \in Nat /\ One(x = p) \in Nat /\ Due(pending', x) \in Nat
      BY <2>11 DEF One
    <3> QED
      BY <3>1, <3>2, <3>3, <3>4, <3>5
  <2>8. Counted'
    BY <2>7 DEF Counted
  <2>9. ASSUME NEW i \in DOMAIN pending', pending'[i] = Dir
        PROVE  Dir \notin seen' /\ \A j \in DOMAIN pending' : i < j => pending'[j] # Dir /\ Up(pending'[j]) = Root
    <3> DEFINE at(j) == IF j < k THEN j ELSE j + 1
    <3>1. \A j \in 1 .. (Len(pending) - 1) : at(j) \in DOMAIN pending /\ at(j) # k /\ pending'[j] = pending[at(j)]
      BY <1>1, <2>2, <2>5
    <3>2. \A j \in 1 .. (Len(pending) - 1) : i < j => at(i) < at(j)
      BY <1>1, <2>2, <2>5
    <3>3. i \in 1 .. (Len(pending) - 1) /\ pending[at(i)] = Dir
      BY <2>5, <2>9, <3>1
    <3> HIDE DEF at
    <3>4. /\ Dir \notin seen
          /\ \A j \in DOMAIN pending : at(i) < j => pending[j] # Dir /\ Up(pending[j]) = Root
      BY <3>1, <3>3 DEF Sorted
    <3>5. p # Dir
      <4>1. SUFFICES ASSUME p = Dir
                     PROVE  FALSE
        OBVIOUS
      <4>2. at(i) \in SameAs(p) /\ k <= at(i)
        BY <2>2, <3>1, <3>3, <4>1 DEF SameAs, SameKind
      <4>3. q = Dir /\ pending[k] = Dir
        BY <2>2, <4>1 DEF SameKind, q
      <4>4. k < at(i)
        BY <1>1, <2>2, <3>1, <3>3, <4>2
      <4>5. \A j \in DOMAIN pending : k < j => pending[j] # Dir
        BY <2>2, <4>3 DEF Sorted
      <4> QED
        BY <3>1, <3>3, <4>4, <4>5
    <3> QED
      BY <1>1, <2>5, <3>1, <3>2, <3>4, <3>5
  <2>10. Sorted'
    BY <2>9 DEF Sorted
  <2> QED
    BY <2>1, <2>8, <2>10
<1> QED
  BY <1>5, <1>6

(* A deletion that is no longer pending, of a queue without repetitions     *)
LEMMA PendingWithout ==
  ASSUME TreeTypeOK, \A i, j \in DOMAIN pending : i # j => pending[i] # pending[j],
         NEW k \in DOMAIN pending, pending' = RemoveAt(pending, k)
  PROVE  /\ Pending' = Pending \ {pending[k]}
         /\ \A i, j \in DOMAIN pending' : i # j => pending'[i] # pending'[j]
<1>1. pending \in Seq(Watched) /\ Len(pending) \in Nat /\ k \in 1 .. Len(pending)
  BY DEF TreeTypeOK
<1>2. /\ DOMAIN pending' = 1 .. (Len(pending) - 1)
      /\ \A j \in 1 .. (Len(pending) - 1) : pending'[j] = pending[IF j < k THEN j ELSE j + 1]
  <2>1. RemoveAt(pending, k) \in Seq(Watched) /\ Len(RemoveAt(pending, k)) = Len(pending) - 1
    BY <1>1, DueRemoved
  <2>2. \A j \in 1 .. (Len(pending) - 1) : RemoveAt(pending, k)[j] = pending[IF j < k THEN j ELSE j + 1]
    BY <1>1, DueRemoved
  <2> QED
    BY <2>1, <2>2
<1> DEFINE at(j) == IF j < k THEN j ELSE j + 1
<1>3. \A j \in DOMAIN pending' : at(j) \in DOMAIN pending /\ at(j) # k /\ pending'[j] = pending[at(j)]
  BY <1>1, <1>2
<1>4. \A i, j \in DOMAIN pending' : i # j => at(i) # at(j)
  BY <1>1, <1>2
<1>5. ASSUME NEW i \in DOMAIN pending, i # k
      PROVE  \E j \in DOMAIN pending' : at(j) = i
  <2>1. CASE i < k
    <3>1. i \in DOMAIN pending' /\ at(i) = i
      BY <1>1, <1>2, <2>1
    <3> QED
      BY <3>1
  <2>2. CASE i > k
    <3>1. i - 1 \in DOMAIN pending' /\ at(i - 1) = i
      BY <1>1, <1>2, <2>2
    <3> QED
      BY <3>1
  <2> QED
    BY <1>1, <1>5, <2>1, <2>2
<1> HIDE DEF at
<1>6. Pending' = Pending \ {pending[k]}
  <2>1. ASSUME NEW j \in DOMAIN pending'
        PROVE  pending'[j] \in Pending /\ pending'[j] # pending[k]
    BY <1>3 DEF Pending
  <2>2. ASSUME NEW i \in DOMAIN pending, pending[i] # pending[k]
        PROVE  \E j \in DOMAIN pending' : pending'[j] = pending[i]
    BY <1>3, <1>5, <2>2
  <2> QED
    BY <2>1, <2>2 DEF Pending
<1>7. \A i, j \in DOMAIN pending' : i # j => pending'[i] # pending'[j]
  BY <1>3, <1>4
<1> QED
  BY <1>6, <1>7

LEMMA NoLongerPending ==
  ASSUME TreeTypeOK, Distinct, NEW k \in DOMAIN pending, pending' = RemoveAt(pending, k),
         disk' = disk, seen' \ disk \subseteq seen, seen \ disk \subseteq seen',
         seen' \subseteq seen \cup disk
  PROVE  Pending' = Pending \ {pending[k]} /\ Distinct' /\ Missed' = Missed \ {pending[k]}
<1>1. /\ Pending' = Pending \ {pending[k]}
      /\ \A i, j \in DOMAIN pending' : i # j => pending'[i] # pending'[j]
  BY PendingWithout DEF Distinct
<1>2. pending[k] \in Pending /\ pending[k] \notin disk \cup seen
  BY DEF Pending, Distinct
<1>3. Pending' \cap (disk' \cup seen') = {}
  BY <1>1 DEF Distinct
<1>4. Distinct'
  BY <1>1, <1>3 DEF Distinct
<1>5. Missed' = Missed \ {pending[k]}
  BY <1>1, <1>2 DEF Missed
<1> QED
  BY <1>1, <1>4, <1>5

LEMMA NoticedEcho ==
  ASSUME TreeTypeOK, ClosedInv, NEW p \in Paths, SeesAdd(p), Promised', EchoInv
  PROVE  EchoInv' /\ blur \subseteq blur' /\ Missed' \subseteq Missed
<1>1. /\ p \in disk /\ p \notin seen /\ seen' = seen \cup {p} /\ disk' = disk
      /\ (Up(p) = Dir => Dir \in seen) /\ Closed(disk)
  BY SeesAddCases, UpType DEF Noticed, ClosedInv
<1>2. Distinct /\ Single /\ Echo /\ Present \subseteq Watched
  BY DEF EchoInv, Present
<1>3. \A x \in Watched : /\ Times(tree, x) \in {0, 1}
                         /\ x \in Present <=> Times(tree, x) # 0
                         /\ Times(tree, x) # 0 <=> Has(tree, x)
  BY <1>2, CountTypes DEF Single, Present
<1>4. Up(p) = Dir => Has(tree, Dir)
  <2>1. SUFFICES ASSUME Up(p) = Dir, ~Has(tree, Dir)
                 PROVE  FALSE
    OBVIOUS
  <2>2. Dir \in disk /\ Dir \notin Present /\ Dir \in Watched
    BY <1>1, <1>3, <2>1, UpType, WatchedPaths DEF Closed
  <2> QED
    BY <1>1, <1>2, <2>1, <2>2 DEF Echo
<1> DEFINE now == {x \in Watched : Times(tree', x) # 0}
<1>5. Missed \cap disk = {}
  BY <1>2 DEF Missed, Distinct
<1>6. CASE SameAs(p) = {}
  <2>1. pending' = pending /\ blur \subseteq blur'
    BY <1>4, <1>6, NoticedTimes
  <2>2. Pending' = Pending /\ Missed' = Missed
    BY <1>1, <2>1 DEF Pending, Missed
  <2>3. \A x \in Watched : Times(tree', x) \in {0, 1} /\ (x \in now <=> x \in Present \/ x = p)
    <3>1. CASE p \in Ignored
      BY <1>3, <1>4, <1>6, <3>1, NoticedTimes DEF Watched
    <3>2. CASE p \notin Ignored
      <4>1. \A x \in Watched : Times(tree', x)
              = IF Has(tree, p) THEN Times(tree, x) ELSE Times(tree, x) + One(x = p)
        BY <1>4, <1>6, <3>2, NoticedTimes
      <4>2. p \in Watched
        BY <3>2, WatchedPaths
      <4> QED
        BY <1>3, <4>1, <4>2 DEF One
    <3> QED
      BY <3>1, <3>2
  <2>4. Present' = now
    BY DEF Present
  <2> HIDE DEF now
  <2>5. Single'
    BY <2>3 DEF Single
  <2>6. Distinct'
    BY <1>1, <1>2, <2>1, <2>2 DEF Distinct
  <2>7. Echo'
    <3>1. /\ ((Watched \cap disk) \ Present \subseteq disk \ seen)'
          /\ (Present \ disk \subseteq Missed)'
          /\ (Dir \in Missed => disk \subseteq seen)'
      <4>1. (Watched \cap disk) \ now \subseteq disk \ seen'
        BY <1>1, <1>2, <2>3 DEF Echo
      <4>2. now \ disk \subseteq Missed
        <5>1. now \subseteq Watched
          BY DEF now
        <5> QED
          BY <1>1, <1>2, <2>3, <5>1 DEF Echo
      <4>3. Dir \in Missed => disk \subseteq seen'
        BY <1>1, <1>2 DEF Echo
      <4> QED
        BY <1>1, <2>2, <2>4, <4>1, <4>2, <4>3
    <3>2. ASSUME NEW y \in Watched \cap (disk \ seen'), NEW x \in Watched \cap Missed, SameKind(x, y)
          PROVE  x \in now <=> y \notin now
      <4>1. y # p /\ x # p /\ y \in disk \ seen
        BY <1>1, <1>5
      <4>2. x \in Present <=> y \notin Present
        BY <1>2, <3>2, <4>1 DEF Echo
      <4> QED
        BY <2>3, <4>1, <4>2
    <3> QED
      BY <1>1, <2>2, <2>4, <3>1, <3>2 DEF Echo
  <2> QED
    BY <2>1, <2>2, <2>5, <2>6, <2>7 DEF EchoInv
<1>7. CASE SameAs(p) # {}
  <2> DEFINE k == First(p)
  <2>12. PICK q : q = pending[k]
    OBVIOUS
  <2>1. /\ p \in Watched /\ pending' = RemoveAt(pending, k) /\ blur \subseteq blur'
        /\ \A x \in Watched : Times(tree', x)
             = IF ~Has(tree, q) THEN Times(tree, x) ELSE Times(tree, x) - One(x = q) + One(x = p)
    BY <1>4, <1>7, <2>12, NoticedTimes
  <2>2. k \in DOMAIN pending /\ SameKind(q, p) /\ q \in Watched
    BY <1>7, <2>12, FirstPending
  <2> HIDE DEF k
  <2>3. q \in Missed /\ q \notin disk /\ q # p
    BY <1>1, <1>2, <2>2, <2>12 DEF Missed, Pending, Distinct
  <2>4. Distinct' /\ Missed' = Missed \ {q}
    <3>1. seen' \ disk \subseteq seen /\ seen \ disk \subseteq seen' /\ seen' \subseteq seen \cup disk
      BY <1>1
    <3> QED
      BY <1>1, <1>2, <2>1, <2>2, <2>12, <3>1, NoLongerPending
  <2>5. q \in Present <=> p \notin Present
    BY <1>1, <1>2, <2>1, <2>2, <2>3 DEF Echo
  <2>6. \A x \in Watched : /\ Times(tree', x) \in {0, 1}
                           /\ x \in now <=> (x \in Present /\ x # q) \/ x = p
    BY <1>3, <2>1, <2>2, <2>3, <2>5 DEF One
  <2>7. Present' = now
    BY DEF Present
  <2> HIDE DEF now
  <2>8. Single'
    BY <2>6 DEF Single
  <2>9. Echo'
    <3>1. /\ ((Watched \cap disk) \ Present \subseteq disk \ seen)'
          /\ (Present \ disk \subseteq Missed)'
          /\ (Dir \in Missed => disk \subseteq seen)'
      <4>1. now \subseteq Watched
        BY DEF now
      <4> QED
        BY <1>1, <1>2, <2>3, <2>4, <2>6, <2>7, <4>1 DEF Echo
    <3>2. ASSUME NEW y \in Watched \cap (disk \ seen'), NEW x \in Watched \cap (Missed \ {q}), SameKind(x, y)
          PROVE  x \in now <=> y \notin now
      <4>1. y # p /\ x # p /\ x # q /\ y # q /\ y \in disk \ seen
        BY <1>1, <1>5, <2>3
      <4>2. x \in Present <=> y \notin Present
        BY <1>2, <3>2, <4>1 DEF Echo
      <4> QED
        BY <2>6, <4>1, <4>2
    <3> QED
      BY <1>1, <2>4, <2>7, <3>1, <3>2 DEF Echo
  <2> QED
    BY <2>1, <2>4, <2>8, <2>9 DEF EchoInv
<1> QED
  BY <1>6, <1>7

LEMMA SeesAddTree ==
  ASSUME TreeTypeOK, TreeInv, NEW p \in Paths, SeesAdd(p)
  PROVE  TreeInv'
<1>1. /\ p \in disk /\ p \notin seen /\ seen' = seen \cup {p} /\ watch = "on"
      /\ Up(p) \in seen \cup {Root}
      /\ UNCHANGED <<disk, stage, scan, rebuild, watch, waiting, call, source>>
  BY SeesAddCases DEF Noticed, building
<1>2. subscribers' = subscribers /\ blur \subseteq blur'
  <2>1. PICK t, more : Follow(t, more)
    BY SeesAddCases
  <2> QED
    BY <2>1 DEF Follow, Announce, events
<1>3. Closed(seen')
  BY <1>1 DEF TreeInv, ClosedInv, Closed
<1>4. ClosedInv'
  BY <1>1, <1>2, <1>3 DEF TreeInv, ClosedInv
<1>5. ASSUME Promised'
      PROVE  Promised /\ Running /\ Running'
  <2>1. Promised
    BY <1>2, <1>5 DEF Promised
  <2>2. Running
    BY <1>1, <2>1, NoticedRuns
  <2> QED
    BY <1>1, <2>1, <2>2 DEF Running
<1>6. StartInv'
  BY <1>5 DEF StartInv
<1>7. OutsideInv'
  <2> SUFFICES ASSUME Promised', source = "outside"
               PROVE  Still' /\ Counted' /\ Sorted'
    BY <1>1 DEF OutsideInv
  <2>1. Still /\ Counted /\ Sorted
    BY <1>5 DEF TreeInv, OutsideInv
  <2> QED
    BY <1>1, <2>1, NoticedCounted DEF Still
<1>8. CallerInv'
  <2> SUFFICES ASSUME Promised', source = "caller"
               PROVE  EchoInv' /\ Working'
    BY <1>1 DEF CallerInv
  <2>1. EchoInv /\ Working
    BY <1>5 DEF TreeInv, CallerInv
  <2>2. EchoInv' /\ Missed' \subseteq Missed
    BY <2>1, NoticedEcho DEF TreeInv
  <2>3. ASSUME NEW u \in Callers, call[u] # Idle
        PROVE  call[u].done /\ Performed(call[u])'
    <3>1. call[u].done
      BY <1>1, <2>1, <2>3 DEF Working, Intended
    <3>2. Performed(call[u])
      BY <2>1, <2>3, <3>1 DEF Working
    <3>3. call[u].op # "move"
      <4>1. SUFFICES ASSUME call[u].op = "move"
                     PROVE  FALSE
        OBVIOUS
      <4>2. call[u].to = p
        BY <1>1, <3>2, <4>1 DEF Performed
      <4>3. p \in Files
        BY <2>3, <4>1, <4>2, CallType
      <4> QED
        BY <2>3, <3>1, <4>2, <4>3, SeesAddCases DEF Noticed
    <3>4. call' = call
      BY <1>1
    <3> QED
      BY <1>1, <2>2, <3>1, <3>2, <3>3, <3>4 DEF Performed
  <2>4. Working'
    BY <1>1, <2>1, <2>3 DEF Working
  <2> QED
    BY <2>2, <2>4
<1> QED
  BY <1>4, <1>6, <1>7, <1>8 DEF TreeInv

(* A path is missed: a watched one is pending from now on.                  *)
LEMMA Appended ==
  ASSUME TreeTypeOK, NEW p \in Watched, pending' = Append(pending, p)
  PROVE  /\ Len(pending) \in Nat /\ DOMAIN pending = 1 .. Len(pending)
         /\ DOMAIN pending' = 1 .. (Len(pending) + 1)
         /\ \A i \in 1 .. Len(pending) : pending'[i] = pending[i]
         /\ pending'[Len(pending) + 1] = p
         /\ Pending' = Pending \cup {p}
         /\ \A x : Due(pending', x) = Due(pending, x) + One(x = p)
<1>1. /\ pending \in Seq(Watched) /\ Len(pending) \in Nat /\ DOMAIN pending = 1 .. Len(pending)
      /\ DOMAIN pending' = 1 .. (Len(pending) + 1)
      /\ \A i \in 1 .. Len(pending) : pending'[i] = pending[i]
      /\ pending'[Len(pending) + 1] = p
  BY DEF TreeTypeOK
<1>2. \A x : Due(pending', x) = Due(pending, x) + One(x = p)
  BY <1>1, DueAppended DEF One
<1>3. Pending' = Pending \cup {p}
  <2>1. ASSUME NEW i \in DOMAIN pending'
        PROVE  pending'[i] \in Pending \cup {p}
    BY <1>1 DEF Pending
  <2>2. ASSUME NEW i \in DOMAIN pending
        PROVE  i \in DOMAIN pending' /\ pending'[i] = pending[i]
    BY <1>1
  <2>3. Len(pending) + 1 \in DOMAIN pending'
    BY <1>1
  <2> QED
    BY <1>1, <2>1, <2>2, <2>3 DEF Pending
<1> QED
  BY <1>1, <1>2, <1>3

LEMMA MissedCounted ==
  ASSUME TreeTypeOK, Closed(seen), NEW p \in Paths, p \in seen, Below(p) \cap seen = {},
         seen' = seen \ {p}, pending' = IF p \in Ignored THEN pending ELSE Append(pending, p),
         tree' = tree, Counted, Sorted
  PROVE  Counted' /\ Sorted'
<1>1. CASE p \in Ignored
  <2>1. \A x \in Watched : (x \in seen' <=> x \in seen)
    BY <1>1 DEF Watched
  <2>2. Counted'
    BY <1>1, <2>1 DEF Counted, Times, Positions, Due, One
  <2> QED
    BY <1>1, <2>2 DEF Sorted
<1>2. CASE p \notin Ignored
  <2>1. p \in Watched /\ pending' = Append(pending, p)
    BY <1>2, WatchedPaths
  <2>2. ASSUME NEW x \in Watched
        PROVE  Times(tree', x) = One(x \in seen') + Due(pending', x)
    <3>1. Times(tree', x) = Times(tree, x) /\ Times(tree, x) = One(x \in seen) + Due(pending, x)
      BY DEF Counted
    <3>2. Due(pending', x) = Due(pending, x) + One(x = p) /\ Due(pending, x) \in Nat
      BY <2>1, Appended, CountTypes
    <3>3. One(x \in seen) = One(x \in seen') + One(x = p)
      BY DEF One
    <3>4. One(x \in seen') \in Nat /\ One(x = p) \in Nat
      BY DEF One
    <3> QED
      BY <3>1, <3>2, <3>3, <3>4
  <2>3. Counted'
    BY <2>2 DEF Counted
  <2>4. ASSUME NEW i \in DOMAIN pending', pending'[i] = Dir
        PROVE  Dir \notin seen' /\ \A j \in DOMAIN pending' : i < j => pending'[j] # Dir /\ Up(pending'[j]) = Root
    <3> DEFINE m == Len(pending)
    <3>1. /\ m \in Nat /\ DOMAIN pending = 1 .. m /\ DOMAIN pending' = 1 .. (m + 1)
          /\ (\A j \in 1 .. m : pending'[j] = pending[j]) /\ pending'[m + 1] = p
      BY <2>1, Appended
    <3> HIDE DEF m
    <3>2. CASE i = m + 1
      <4>1. p = Dir
        BY <2>4, <3>1, <3>2
      <4> QED
        BY <3>1, <3>2, <4>1
    <3>3. CASE i # m + 1
      <4>1. i \in 1 .. m /\ pending[i] = Dir
        BY <2>4, <3>1, <3>3
      <4>2. Dir \notin seen /\ \A j \in 1 .. m : i < j => pending[j] # Dir /\ Up(pending[j]) = Root
        BY <3>1, <4>1 DEF Sorted
      <4>3. p # Dir /\ Up(p) = Root
        BY <4>2, UpType DEF Closed
      <4> QED
        BY <3>1, <4>2, <4>3
    <3> QED
      BY <3>2, <3>3
  <2>5. Sorted'
    BY <2>4 DEF Sorted
  <2> QED
    BY <2>3, <2>5
<1> QED
  BY <1>1, <1>2

LEMMA MissedEcho ==
  ASSUME TreeTypeOK, NEW p \in Paths, p \in seen \ disk, seen' = seen \ {p},
         pending' = IF p \in Ignored THEN pending ELSE Append(pending, p),
         UNCHANGED <<disk, tree>>, EchoInv
  PROVE  EchoInv' /\ Missed' \subseteq Missed /\ Present' = Present /\ disk \ seen' = disk \ seen
<1>1. Present' = Present /\ disk \ seen' = disk \ seen /\ disk' = disk /\ Present \subseteq Watched
  BY DEF Present, Times, Positions
<1>2. Distinct /\ Single /\ Echo
  BY DEF EchoInv
<1>3. Pending \subseteq Watched /\ p \notin Pending /\ Pending \cap (disk \cup seen) = {}
  BY <1>2 DEF Distinct, Pending, TreeTypeOK
<1>4. /\ Missed' \subseteq Missed /\ Watched \cap Missed \subseteq Missed'
      /\ Pending' \cap (disk \cup seen') = {}
      /\ \A i, j \in DOMAIN pending' : i # j => pending'[i] # pending'[j]
  <2>1. CASE p \in Ignored
    <3>1. Pending' = Pending /\ pending' = pending /\ p \notin Watched
      BY <2>1 DEF Pending, Watched
    <3>2. Missed' = Missed \ {p}
      BY <1>1, <1>3, <3>1 DEF Missed
    <3> QED
      BY <1>2, <1>3, <3>1, <3>2 DEF Distinct
  <2>2. CASE p \notin Ignored
    <3>1. p \in Watched /\ pending' = Append(pending, p)
      BY <2>2, WatchedPaths
    <3> DEFINE m == Len(pending)
    <3>2. /\ m \in Nat /\ DOMAIN pending = 1 .. m /\ DOMAIN pending' = 1 .. (m + 1)
          /\ (\A j \in 1 .. m : pending'[j] = pending[j]) /\ pending'[m + 1] = p
          /\ Pending' = Pending \cup {p}
      BY <3>1, Appended
    <3> HIDE DEF m
    <3>3. Missed' = Missed
      BY <1>1, <3>2 DEF Missed
    <3>4. \A j \in 1 .. m : pending[j] # p
      BY <1>3, <3>2 DEF Pending
    <3>5. \A i, j \in DOMAIN pending' : i # j => pending'[i] # pending'[j]
      BY <1>2, <3>2, <3>4 DEF Distinct
    <3> QED
      BY <1>3, <3>2, <3>3, <3>5
  <2> QED
    BY <2>1, <2>2
<1>5. Distinct'
  BY <1>1, <1>4 DEF Distinct
<1>6. Single'
  BY <1>2 DEF Single, Times, Positions
<1>7. Echo'
  <2>1. (Watched \cap disk) \ Present \subseteq disk \ seen'
    BY <1>1, <1>2 DEF Echo
  <2>2. Present \ disk \subseteq Missed'
    BY <1>1, <1>2, <1>4 DEF Echo
  <2>3. \A y \in Watched \cap (disk \ seen'), x \in Watched \cap Missed' :
          SameKind(x, y) => (x \in Present <=> y \notin Present)
    BY <1>1, <1>2, <1>4 DEF Echo
  <2>4. Dir \in Missed' => disk \subseteq seen'
    BY <1>1, <1>2, <1>4 DEF Echo
  <2> QED
    BY <1>1, <2>1, <2>2, <2>3, <2>4 DEF Echo
<1> QED
  BY <1>1, <1>4, <1>5, <1>6, <1>7 DEF EchoInv

LEMMA SeesUnlinkTree ==
  ASSUME TreeTypeOK, TreeInv, NEW p \in Paths, SeesUnlink(p)
  PROVE  TreeInv'
<1>1. /\ p \in seen \ disk /\ Below(p) \cap seen = {} /\ seen' = seen \ {p}
      /\ pending' = IF p \in Ignored THEN pending ELSE Append(pending, p)
      /\ watch = "on"
      /\ UNCHANGED <<disk, tree, stage, scan, rebuild, watch, waiting, call, subscribers, source, blur>>
  BY DEF SeesUnlink, building, events
<1>2. Closed(seen')
  BY <1>1 DEF TreeInv, ClosedInv, Closed, Below, TreeTypeOK
<1>3. ClosedInv'
  <2>1. Closed(disk') /\ (rebuild # None => Closed(rebuild.disk) /\ Shallow(rebuild.scan, rebuild.disk))
    BY <1>1 DEF TreeInv, ClosedInv
  <2> QED
    BY <1>1, <1>2, <2>1 DEF TreeInv, ClosedInv
<1>4. ASSUME Promised'
      PROVE  Promised /\ Running /\ Running'
  <2>1. Promised
    BY <1>1, <1>4 DEF Promised
  <2>2. Running
    BY <1>1, <2>1, NoticedRuns
  <2> QED
    BY <1>1, <2>1, <2>2 DEF Running
<1>5. StartInv'
  BY <1>4 DEF StartInv
<1>6. OutsideInv'
  <2> SUFFICES ASSUME Promised', source = "outside"
               PROVE  Still' /\ Counted' /\ Sorted'
    BY <1>1 DEF OutsideInv
  <2>1. Still /\ Counted /\ Sorted /\ Closed(seen)
    BY <1>4 DEF TreeInv, OutsideInv, ClosedInv
  <2> QED
    BY <1>1, <2>1, MissedCounted DEF Still
<1>7. CallerInv'
  <2> SUFFICES ASSUME Promised', source = "caller"
               PROVE  EchoInv' /\ Working'
    BY <1>1 DEF CallerInv
  <2>1. EchoInv /\ Working
    BY <1>4 DEF TreeInv, CallerInv
  <2>2. EchoInv' /\ Missed' \subseteq Missed /\ Present' = Present /\ disk \ seen' = disk \ seen
    BY <1>1, <2>1, MissedEcho
  <2>3. ASSUME NEW u \in Callers, call[u] # Idle
        PROVE  call[u].done /\ Performed(call[u])'
    <3>1. call[u].done
      BY <1>1, <2>1, <2>3 DEF Working, Intended
    <3>2. Performed(call[u]) /\ call' = call /\ disk' = disk
      BY <1>1, <2>1, <2>3, <3>1 DEF Working
    <3>3. p \in Missed
      BY <1>1 DEF Missed
    <3> QED
      BY <1>1, <2>2, <3>1, <3>2, <3>3 DEF Performed
  <2>4. Working'
    BY <1>1, <2>1, <2>3 DEF Working
  <2> QED
    BY <2>2, <2>4
<1> QED
  BY <1>3, <1>5, <1>6, <1>7 DEF TreeInv

(* The first deletion is due: its path, with what is in it, leaves the tree. *)
LEMMA DeletionTimes ==
  ASSUME TreeTypeOK, DeletionIsDue
  PROVE  /\ 1 \in DOMAIN pending /\ pending[1] \in Watched /\ pending' = RemoveAt(pending, 1)
         /\ blur \subseteq blur'
         /\ UNCHANGED <<disk, seen, stage, scan, rebuild, watch, waiting, call, subscribers, source>>
         /\ \A x \in Watched : Times(tree', x)
              = IF ~Has(tree, pending[1]) THEN Times(tree, x)
                ELSE IF x = pending[1] THEN Times(tree, x) - 1
                ELSE IF pending[1] = Dir /\ Up(x) = Dir THEN 0 ELSE Times(tree, x)
<1>1. /\ pending # << >> /\ Follow(RemoveSync(tree, Head(pending)), {}) /\ pending' = Tail(pending)
      /\ UNCHANGED <<disk, seen, stage, scan, rebuild, watch, waiting, call, source>>
  BY DEF DeletionIsDue, building
<1>2. pending \in Seq(Watched) /\ Len(pending) \in Nat /\ tree \in Seq(Nodes) /\ Watched \subseteq Paths
  BY WatchedPaths DEF TreeTypeOK
<1>3. 1 \in DOMAIN pending /\ Head(pending) = pending[1] /\ pending[1] \in Watched
  BY <1>1, <1>2
<1>4. Tail(pending) = RemoveAt(pending, 1)
  <2> DEFINE a == Tail(pending)
             b == RemoveAt(pending, 1)
             m == Len(pending) - 1
  <2>1. a \in Seq(Watched) /\ Len(a) = m /\ \A j \in 1 .. m : a[j] = pending[j + 1]
    BY <1>1, <1>2, DueTail
  <2>2. b \in Seq(Watched) /\ Len(b) = m /\ \A j \in 1 .. m : b[j] = pending[IF j < 1 THEN j ELSE j + 1]
    BY <1>2, <1>3, DueRemoved
  <2>3. \A j \in 1 .. m : ~(j < 1)
    BY <1>2
  <2> HIDE DEF a, b, m
  <2>4. \A j \in 1 .. m : a[j] = b[j]
    BY <2>1, <2>2, <2>3
  <2>5. a = b
    BY <2>1, <2>2, <2>4, SeqEqual
  <2> QED
    BY <2>5 DEF a, b
<1>5. tree' = RemoveSync(tree, pending[1]).tree /\ blur \subseteq blur' /\ subscribers' = subscribers
  BY <1>1, <1>3 DEF Follow, Apply, Announce, events
<1>6. \A x \in Watched : Times(tree', x)
              = IF ~Has(tree, pending[1]) THEN Times(tree, x)
                ELSE IF x = pending[1] THEN Times(tree, x) - 1
                ELSE IF pending[1] = Dir /\ Up(x) = Dir THEN 0 ELSE Times(tree, x)
  BY <1>2, <1>3, <1>5, RemoveTimes
<1> QED
  BY <1>1, <1>3, <1>4, <1>5, <1>6

LEMMA DeletionCounted ==
  ASSUME TreeTypeOK, Closed(seen), DeletionIsDue, Counted, Sorted
  PROVE  Counted' /\ Sorted'
<1> DEFINE m == Len(pending) - 1
<1>0. PICK q : q = pending[1]
  OBVIOUS
<1>1. /\ 1 \in DOMAIN pending /\ q \in Watched /\ pending' = RemoveAt(pending, 1) /\ seen' = seen
      /\ pending \in Seq(Watched) /\ Len(pending) \in Nat
  BY <1>0, DeletionTimes DEF TreeTypeOK
<1>2. /\ DOMAIN pending = 1 .. (m + 1) /\ m \in Nat /\ DOMAIN pending' = 1 .. m
      /\ \A j \in 1 .. m : pending'[j] = pending[j + 1]
  <2>1. /\ Len(pending') = m /\ pending' \in Seq(Watched)
        /\ \A j \in 1 .. m : pending'[j] = pending[IF j < 1 THEN j ELSE j + 1]
    BY <1>1, DueRemoved
  <2>2. \A j \in 1 .. m : ~(j < 1)
    BY <1>1
  <2> QED
    BY <1>1, <2>1, <2>2
<1>3. \A x \in Watched : /\ Due(pending, x) = Due(pending', x) + One(q = x)
                         /\ Due(pending', x) \in Nat
  <2>1. pending' \in Seq(Watched) /\ Len(pending') \in Nat
    BY <1>1, DueRemoved
  <2> QED
    BY <1>0, <1>1, <2>1, DueRemoved, DueType
<1> HIDE DEF m
<1>4. \A x \in Watched : Times(tree, x) = One(x \in seen) + Due(pending, x)
  BY DEF Counted
<1>5. Has(tree, q)
  <2>1. Due(pending, q) \in Nat /\ Due(pending, q) # 0
    BY <1>0, <1>1, CountTypes DEF Pending
  <2> QED
    BY <1>1, <1>4, <2>1, CountTypes DEF One
<1>6. q = Dir => Dir \notin seen /\ \A j \in DOMAIN pending : 1 < j => pending[j] # Dir /\ Up(pending[j]) = Root
  BY <1>0, <1>1 DEF Sorted
<1>7. ASSUME NEW x \in Watched
      PROVE  Times(tree', x) = One(x \in seen') + Due(pending', x)
  <2>1. Times(tree', x) = IF x = q THEN Times(tree, x) - 1
                          ELSE IF q = Dir /\ Up(x) = Dir THEN 0 ELSE Times(tree, x)
    BY <1>0, <1>5, DeletionTimes
  <2>2. CASE x = q
    BY <1>1, <1>3, <1>4, <2>1, <2>2 DEF One
  <2>3. CASE x # q /\ q = Dir /\ Up(x) = Dir
    <3>1. x \notin seen
      BY <1>6, <2>3, UpType DEF Closed
    <3>2. x \notin Pending
      <4>1. ASSUME NEW j \in DOMAIN pending
            PROVE  pending[j] # x
        <5>1. j = 1 \/ 1 < j
          BY <1>2
        <5>2. Root # Dir
          BY UpType
        <5>3. CASE j = 1
          BY <1>0, <2>3, <5>3
        <5>4. CASE 1 < j
          BY <1>6, <2>3, <5>2, <5>4
        <5> QED
          BY <5>1, <5>3, <5>4
      <4> QED
        BY <4>1 DEF Pending
    <3>3. Due(pending, x) = 0
      BY <3>2, CountTypes
    <3> QED
      BY <1>1, <1>3, <2>1, <2>3, <3>1, <3>3 DEF One
  <2>4. CASE x # q /\ ~(q = Dir /\ Up(x) = Dir)
    BY <1>1, <1>3, <1>4, <2>1, <2>4 DEF One
  <2> QED
    BY <2>2, <2>3, <2>4
<1>8. Counted'
  BY <1>7 DEF Counted
<1>9. ASSUME NEW i \in DOMAIN pending', pending'[i] = Dir
      PROVE  Dir \notin seen' /\ \A j \in DOMAIN pending' : i < j => pending'[j] # Dir /\ Up(pending'[j]) = Root
  <2>1. i \in 1 .. m /\ pending[i + 1] = Dir /\ i + 1 \in DOMAIN pending
    BY <1>2, <1>9
  <2>2. Dir \notin seen /\ \A j \in DOMAIN pending : i + 1 < j => pending[j] # Dir /\ Up(pending[j]) = Root
    BY <2>1 DEF Sorted
  <2>3. \A j \in 1 .. m : i < j => i + 1 < j + 1 /\ j + 1 \in DOMAIN pending
    BY <1>2, <2>1
  <2> QED
    BY <1>1, <1>2, <2>2, <2>3
<1>10. Sorted'
  BY <1>9 DEF Sorted
<1> QED
  BY <1>8, <1>10

LEMMA DeletionEcho ==
  ASSUME TreeTypeOK, Closed(disk), DeletionIsDue, EchoInv
  PROVE  EchoInv' /\ Missed # {} /\ Missed' \subseteq Missed /\ Present' \subseteq Present
<1>0. PICK q : q = pending[1]
  OBVIOUS
<1>1. /\ 1 \in DOMAIN pending /\ q \in Watched /\ pending' = RemoveAt(pending, 1)
      /\ seen' = seen /\ disk' = disk
  BY <1>0, DeletionTimes
<1>2. Distinct /\ Single /\ Echo
  BY DEF EchoInv
<1>3. Pending' = Pending \ {q} /\ Distinct' /\ Missed' = Missed \ {q}
  BY <1>0, <1>1, <1>2, NoLongerPending
<1>4. q \in Pending /\ q \in Missed /\ q \notin disk /\ q \notin seen
  BY <1>0, <1>1, <1>2 DEF Pending, Missed, Distinct
<1>5. \A x \in Watched : /\ Times(tree, x) \in {0, 1}
                         /\ x \in Present <=> Times(tree, x) # 0
                         /\ Times(tree, x) # 0 <=> Has(tree, x)
  BY <1>2, CountTypes DEF Single, Present
<1> DEFINE now == {x \in Watched : Times(tree', x) # 0}
<1>6. \A x \in Watched : /\ Times(tree', x) \in {0, 1}
                         /\ x \in now <=> x \in Present /\ x # q /\ ~(q \in Present /\ q = Dir /\ Up(x) = Dir)
  <2>1. \A x \in Watched : Times(tree', x)
              = IF ~Has(tree, q) THEN Times(tree, x)
                ELSE IF x = q THEN Times(tree, x) - 1
                ELSE IF q = Dir /\ Up(x) = Dir THEN 0 ELSE Times(tree, x)
    BY <1>0, DeletionTimes
  <2> QED
    BY <1>1, <1>5, <2>1
<1>7. Present' = now /\ now \subseteq Watched /\ Present \subseteq Watched
  BY DEF Present
<1> HIDE DEF now
<1>8. Single'
  BY <1>6 DEF Single
<1>9. (Watched \cap disk) \ now \subseteq disk \ seen
  <2>1. \A x \in disk : ~(q = Dir /\ Up(x) = Dir)
    BY <1>4, UpType DEF Closed
  <2> QED
    BY <1>2, <1>4, <1>6, <2>1 DEF Echo
<1>10. now \subseteq Present /\ now \ disk \subseteq Missed'
  BY <1>2, <1>3, <1>6, <1>7 DEF Echo
<1>11. ASSUME NEW y \in Watched \cap (disk \ seen), NEW x \in Watched \cap Missed', SameKind(x, y)
       PROVE  x \in now <=> y \notin now
  <2>1. q # Dir
    BY <1>2, <1>4 DEF Echo
  <2>2. x \in Present <=> y \notin Present
    BY <1>2, <1>3, <1>11 DEF Echo
  <2>3. x # q /\ y # q
    BY <1>3, <1>4
  <2> QED
    BY <1>6, <2>1, <2>2, <2>3
<1>12. Dir \in Missed' => disk \subseteq seen
  BY <1>2, <1>3 DEF Echo
<1>13. Echo'
  BY <1>1, <1>7, <1>9, <1>10, <1>11, <1>12 DEF Echo
<1> QED
  BY <1>3, <1>4, <1>7, <1>8, <1>10, <1>13 DEF EchoInv

LEMMA DeletionTree ==
  ASSUME TreeTypeOK, TreeInv, DeletionIsDue
  PROVE  TreeInv'
<1>1. /\ pending # << >> /\ blur \subseteq blur'
      /\ UNCHANGED <<disk, seen, stage, scan, rebuild, watch, waiting, call, subscribers, source>>
  BY DeletionTimes DEF DeletionIsDue
<1>2. ClosedInv'
  BY <1>1, ClosedKept DEF TreeInv
<1>3. ASSUME Promised'
      PROVE  Promised /\ Running /\ Running'
  <2>1. Promised
    BY <1>1, <1>3 DEF Promised
  <2>2. Running
    BY <1>1, <2>1 DEF TreeInv, StartInv
  <2> QED
    BY <1>1, <2>1, <2>2 DEF Running
<1>4. StartInv'
  BY <1>3 DEF StartInv
<1>5. OutsideInv'
  <2> SUFFICES ASSUME Promised', source = "outside"
               PROVE  Still' /\ Counted' /\ Sorted'
    BY <1>1 DEF OutsideInv
  <2>1. Still /\ Counted /\ Sorted /\ Closed(seen)
    BY <1>3 DEF TreeInv, OutsideInv, ClosedInv
  <2> QED
    BY <1>1, <2>1, DeletionCounted DEF Still
<1>6. CallerInv'
  <2> SUFFICES ASSUME Promised', source = "caller"
               PROVE  EchoInv' /\ Working'
    BY <1>1 DEF CallerInv
  <2>1. EchoInv /\ Working /\ Closed(disk)
    BY <1>3 DEF TreeInv, CallerInv, ClosedInv
  <2>2. EchoInv' /\ Missed # {} /\ Missed' \subseteq Missed /\ Present' \subseteq Present
    BY <2>1, DeletionEcho
  <2>3. ASSUME NEW u \in Callers, call[u] # Idle
        PROVE  call[u].done /\ Performed(call[u])'
    <3>1. call[u].done
      BY <1>1, <2>1, <2>3 DEF Working, Intended
    <3>2. Performed(call[u]) /\ call' = call /\ disk' = disk /\ seen' = seen
      BY <1>1, <2>1, <2>3, <3>1 DEF Working
    <3> QED
      BY <2>2, <3>1, <3>2 DEF Performed
  <2>4. Working'
    BY <1>1, <2>1, <2>3 DEF Working
  <2> QED
    BY <2>2, <2>4
<1> QED
  BY <1>2, <1>4, <1>5, <1>6 DEF TreeInv

(* What the entries of the root and what a full scan of them leave, against *)
(* the directory                                                            *)
LEMMA EntriesShallow ==
  Entries(Root) \in Seq(Nodes) /\ Shallow(Entries(Root), disk)
<1>1. ASSUME NEW x \in Watched
      PROVE  Times(Entries(Root), x) = One(x \in disk /\ Up(x) = Root)
  <2>1. x \in Paths /\ x \notin GitIgnored
    BY WatchedPaths
  <2>2. Times(Entries(Root), x) = One(x \in disk \ GitIgnored /\ Up(x) = Root)
    BY <2>1, EntriesTimes
  <2> QED
    BY <2>1, <2>2 DEF One
<1>2. Entries(Root) \in Seq(Nodes)
  BY WatchedPaths, EntriesTimes
<1> QED
  BY <1>1, <1>2 DEF Shallow

LEMMA FullMatches ==
  ASSUME NEW t \in Seq(Nodes), Closed(disk), Shallow(t, disk)
  PROVE  Full(t) \in Seq(Nodes) /\ Matches(Full(t), disk)
<1>1. Full(t) \in Seq(Nodes)
  BY FullType
<1>2. Has(t, Dir) <=> Dir \in disk
  <2>1. Times(t, Dir) = One(Dir \in disk /\ Up(Dir) = Root)
    BY WatchedPaths DEF Shallow
  <2> QED
    BY <2>1, TimesType, UpType DEF One
<1>3. ASSUME NEW x \in Watched
      PROVE  Times(Full(t), x) = One(x \in disk)
  <2>1. x \in Paths /\ x \notin GitIgnored /\ Up(x) \in {Root, Dir} /\ Root # Dir
    BY WatchedPaths, UpType
  <2>2. Times(t, x) = One(x \in disk /\ Up(x) = Root)
    BY DEF Shallow
  <2>3. Times(Full(t), x) = IF Dir \in disk
              THEN Times(t, x) + One(x \in disk \ GitIgnored /\ Up(x) = Dir) ELSE Times(t, x)
    BY <1>2, <2>1, FullType
  <2>4. CASE Dir \in disk
    BY <2>1, <2>2, <2>3, <2>4 DEF One
  <2>5. CASE Dir \notin disk
    <3>1. x \in disk => Up(x) = Root
      BY <2>1, <2>5 DEF Closed
    <3> QED
      BY <2>2, <2>3, <2>5, <3>1 DEF One
  <2> QED
    BY <2>4, <2>5
<1> QED
  BY <1>1, <1>3 DEF Matches

(* After a step that leaves nothing under way and a tree that matches.      *)
LEMMA MatchingNext ==
  ASSUME pending' = << >>, seen' = disk', Matches(tree', disk'), Still'
  PROVE  OutsideInv' /\ CallerInv'
<1>1. Pending' = {} /\ Missed' = {} /\ DOMAIN pending' = {}
  BY DEF Pending, Missed
<1>2. \A p : Due(pending', p) = 0
  <2>1. \A p : Due(<< >>, p) = 0
    BY DueOne
  <2> QED
    BY <2>1
<1>3. \A p \in Watched : Times(tree', p) = One(p \in disk')
  BY DEF Matches
<1>4. Counted' /\ Sorted' /\ Distinct'
  BY <1>1, <1>2, <1>3 DEF Counted, Sorted, Distinct, One
<1>5. Present' = Watched \cap disk' /\ Single'
  BY <1>3 DEF Present, Single, One
<1>6. Echo'
  BY <1>1, <1>5 DEF Echo
<1>7. Working'
  BY DEF Still, Working
<1> QED
  BY <1>4, <1>5, <1>6, <1>7 DEF OutsideInv, CallerInv, EchoInv

LEMMA ReadyTree ==
  ASSUME TreeTypeOK, TreeInv, WatcherReady
  PROVE  TreeInv'
<1>1. /\ watch = "starting" /\ watch' = "on" /\ seen' = disk
      /\ subscribers' = subscribers \cup waiting /\ waiting' = {}
      /\ stage' = IF Indexer \in waiting THEN "watching" ELSE stage
      /\ UNCHANGED <<disk, tree, scan, rebuild, pending, call, source, blur>>
  BY DEF WatcherReady, Subscribe
<1>2. ClosedInv'
  BY <1>1 DEF TreeInv, ClosedInv
<1>3. ASSUME Promised'
      PROVE  /\ Still' /\ pending' = << >>
             /\ stage' = "scanning" => Shallow(scan', disk')
             /\ stage' \in {"starting", "watching", "unwatched"} => Matches(tree', disk')
  <2>1. Promised /\ ~Running
    BY <1>1, <1>3 DEF Promised, Running
  <2>2. /\ Still /\ pending = << >>
        /\ stage = "scanning" => Shallow(scan, disk)
        /\ stage \in {"starting", "watching", "unwatched"} => Matches(tree, disk)
    BY <2>1 DEF TreeInv, StartInv
  <2>3. Indexer \in waiting => stage = "starting"
    BY DEF TreeInv, ClosedInv
  <2>4. Still'
    BY <1>1, <2>2 DEF Still
  <2> QED
    BY <1>1, <2>2, <2>3, <2>4
<1>4. StartInv'
  BY <1>1, <1>3 DEF StartInv
<1>5. OutsideInv' /\ CallerInv'
  <2>1. CASE Promised' /\ Running'
    BY <1>1, <1>3, <2>1, MatchingNext DEF Running
  <2>2. CASE ~(Promised' /\ Running')
    BY <2>2 DEF OutsideInv, CallerInv
  <2> QED
    BY <2>1, <2>2
<1> QED
  BY <1>2, <1>4, <1>5 DEF TreeInv

LEMMA FailureTree ==
  ASSUME TreeTypeOK, TreeInv, WatcherFails
  PROVE  TreeInv'
<1>1. /\ watch = "starting" /\ watch' = "off" /\ subscribers = {} /\ waiting' = {}
      /\ stage' = IF Indexer \in waiting THEN "unwatched" ELSE stage
      /\ UNCHANGED <<disk, seen, tree, scan, rebuild, pending, call, subscribers, source, blur>>
  BY DEF WatcherFails, events
<1>2. ClosedInv'
  BY <1>1 DEF TreeInv, ClosedInv
<1>3. StartInv'
  <2> SUFFICES ASSUME Promised'
               PROVE  /\ Still' /\ pending' = << >>
                      /\ stage' = "scanning" => Shallow(scan', disk')
                      /\ stage' \in {"starting", "watching", "unwatched"} => Matches(tree', disk')
    BY <1>1 DEF StartInv
  <2>1. Promised /\ ~Running
    BY <1>1 DEF Promised, Running
  <2>2. /\ Still /\ pending = << >>
        /\ stage = "scanning" => Shallow(scan, disk)
        /\ stage \in {"starting", "watching", "unwatched"} => Matches(tree, disk)
    BY <2>1 DEF TreeInv, StartInv
  <2>3. Indexer \in waiting => stage = "starting"
    BY DEF TreeInv, ClosedInv
  <2>4. Still'
    BY <1>1, <2>2 DEF Still
  <2> QED
    BY <1>1, <2>2, <2>3, <2>4
<1> QED
  BY <1>1, <1>2, <1>3 DEF TreeInv, OutsideInv, CallerInv, Running

LEMMA ScanTree ==
  ASSUME TreeTypeOK, TreeInv, ScanRoot
  PROVE  TreeInv'
<1>1. /\ stage = "shallow" /\ stage' = "scanning" /\ scan' = Entries(Root)
      /\ UNCHANGED <<disk, seen, tree, rebuild, watch, waiting, pending, call, subscribers, source, blur>>
  BY DEF ScanRoot, events
<1>2. ClosedInv'
  BY <1>1 DEF TreeInv, ClosedInv
<1>3. StartInv'
  <2> SUFFICES ASSUME Promised'
               PROVE  /\ Still' /\ pending' = << >> /\ (watch' = "on" => seen' = disk')
                      /\ Shallow(scan', disk')
    BY <1>1 DEF StartInv
  <2>1. Promised /\ ~Running
    BY <1>1 DEF Promised, Running
  <2>2. Still /\ pending = << >> /\ (watch = "on" => seen = disk)
    BY <2>1 DEF TreeInv, StartInv
  <2>3. Still'
    BY <1>1, <2>2 DEF Still
  <2> QED
    BY <1>1, <2>2, <2>3, EntriesShallow
<1> QED
  BY <1>1, <1>2, <1>3 DEF TreeInv, OutsideInv, CallerInv, Running

LEMMA BuildTree ==
  ASSUME TreeTypeOK, TreeInv, FinishBuild
  PROVE  TreeInv'
<1>1. /\ stage = "scanning" /\ tree' = Full(scan)
      /\ stage' = IF Indexer \in subscribers' THEN "watching" ELSE "starting"
      /\ UNCHANGED <<disk, seen, rebuild, pending, call, source, blur>>
      /\ \/ /\ subscribers' = subscribers \cup {Indexer} /\ watch' = watch /\ waiting' = waiting
         \/ /\ watch # "on" /\ watch' = "starting" /\ subscribers' = subscribers
            /\ waiting' = waiting \cup {Indexer}
  BY FinishBuildParts DEF Ask, Subscribe
<1>2. Indexer \notin subscribers /\ Indexer \notin waiting
  BY <1>1 DEF TreeInv, ClosedInv
<1>3. ClosedInv'
  BY <1>1, <1>2 DEF TreeInv, ClosedInv
<1>4. ASSUME Promised'
      PROVE  Still' /\ pending' = << >> /\ Matches(tree', disk') /\ (watch' = "on" => seen' = disk')
  <2>1. Promised /\ ~Running
    BY <1>1, <1>4 DEF Promised, Running
  <2>2. Still /\ pending = << >> /\ (watch = "on" => seen = disk) /\ Shallow(scan, disk)
    BY <1>1, <2>1 DEF TreeInv, StartInv
  <2>3. Still'
    BY <1>1, <2>2 DEF Still
  <2>4. Matches(tree', disk)
    BY <1>1, <2>2, FullMatches DEF TreeTypeOK, TreeInv, ClosedInv
  <2> QED
    BY <1>1, <2>2, <2>3, <2>4
<1>5. StartInv'
  BY <1>1, <1>4 DEF StartInv
<1>6. OutsideInv' /\ CallerInv'
  <2>1. CASE Promised' /\ Running'
    BY <1>4, <2>1, MatchingNext DEF Running
  <2>2. CASE ~(Promised' /\ Running')
    BY <2>2 DEF OutsideInv, CallerInv
  <2> QED
    BY <2>1, <2>2
<1> QED
  BY <1>3, <1>5, <1>6 DEF TreeInv

LEMMA LookTree ==
  ASSUME TreeTypeOK, TreeInv, LookInto
  PROVE  TreeInv'
<1>1. /\ rebuild' = [scan |-> Entries(Root), disk |-> disk, tree |-> tree]
      /\ UNCHANGED <<disk, seen, tree, stage, scan, watch, waiting, pending, call, subscribers,
                     source, blur>>
  BY DEF LookInto, events
<1>2. ClosedInv'
  <2>1. Shallow(Entries(Root), disk)
    BY EntriesShallow
  <2>2. rebuild'.scan = Entries(Root) /\ rebuild'.disk = disk
    BY <1>1
  <2> QED
    BY <1>1, <2>1, <2>2 DEF TreeInv, ClosedInv
<1>3. StartInv' /\ OutsideInv' /\ CallerInv'
  BY <1>1, StartKept, OutsideKept, CallerKept DEF TreeInv
<1> QED
  BY <1>2, <1>3 DEF TreeInv

LEMMA ReplaceTree ==
  ASSUME TreeTypeOK, TreeInv, Replace
  PROVE  TreeInv'
<1>1. /\ rebuild # None /\ rebuild' = None /\ tree' = Full(rebuild.scan) /\ blur \subseteq blur'
      /\ (IF Settled /\ rebuild.disk = disk /\ rebuild.tree = tree THEN {} ELSE {"rebuilt"}) \subseteq blur'
      /\ UNCHANGED <<disk, seen, stage, scan, watch, waiting, pending, call, subscribers, source>>
  BY DEF Replace, events
<1>2. ClosedInv'
  BY <1>1 DEF TreeInv, ClosedInv
<1>3. ASSUME Promised'
      PROVE  /\ Promised /\ Still' /\ pending' = << >> /\ seen' = disk' /\ Matches(tree', disk')
  <2>1. Promised /\ Settled /\ rebuild.disk = disk
    BY <1>1, <1>3 DEF Promised
  <2>2. Still' /\ pending' = << >> /\ seen' = disk'
    BY <1>1, <2>1 DEF Settled, Still
  <2>3. rebuild.scan \in Seq(Nodes)
    BY <1>1 DEF TreeTypeOK, Rebuilds
  <2>4. Closed(disk) /\ Shallow(rebuild.scan, disk)
    BY <1>1, <2>1 DEF TreeInv, ClosedInv
  <2> QED
    BY <1>1, <2>1, <2>2, <2>3, <2>4, FullMatches
<1>4. StartInv'
  <2> SUFFICES ASSUME Promised', ~Running'
               PROVE  stage' = "scanning" => Shallow(scan', disk')
    BY <1>3 DEF StartInv
  <2>1. Promised /\ ~Running
    BY <1>1, <1>3 DEF Running
  <2> QED
    BY <1>1, <2>1 DEF TreeInv, StartInv
<1>5. OutsideInv' /\ CallerInv'
  <2>1. CASE Promised'
    BY <1>3, <2>1, MatchingNext
  <2>2. CASE ~Promised'
    BY <2>2 DEF OutsideInv, CallerInv
  <2> QED
    BY <2>1, <2>2
<1> QED
  BY <1>2, <1>4, <1>5 DEF TreeInv

LEMMA ConnectTree ==
  ASSUME TreeTypeOK, TreeInv, NEW s \in Sessions, Connect(s)
  PROVE  TreeInv'
<1>1. /\ UNCHANGED <<disk, seen, tree, stage, scan, rebuild, pending, call, source, blur>>
      /\ \/ /\ subscribers' = subscribers \cup {s} /\ watch' = watch /\ waiting' = waiting
         \/ /\ watch # "on" /\ watch' = "starting" /\ subscribers' = subscribers
            /\ waiting' = waiting \cup {s}
  BY DEF Connect, Ask, Subscribe
<1>2. s # Indexer
  BY FileExplorerAssumption
<1>3. CASE watch' = watch
  BY <1>1, <1>2, <1>3, TreeKept
<1>4. CASE watch # "on" /\ watch' = "starting"
  <2>1. ClosedInv'
    BY <1>1, <1>2, ClosedKept DEF TreeInv
  <2>2. StartInv'
    <3> SUFFICES ASSUME Promised'
                 PROVE  /\ Still' /\ pending' = << >>
                        /\ stage' = "scanning" => Shallow(scan', disk')
                        /\ stage' \in {"starting", "watching", "unwatched"} => Matches(tree', disk')
      BY <1>4 DEF StartInv
    <3>1. Promised /\ ~Running
      BY <1>1, <1>4 DEF Promised, Running
    <3>2. /\ Still /\ pending = << >>
          /\ stage = "scanning" => Shallow(scan, disk)
          /\ stage \in {"starting", "watching", "unwatched"} => Matches(tree, disk)
      BY <3>1 DEF TreeInv, StartInv
    <3>3. Still'
      BY <1>1, <3>2 DEF Still
    <3> QED
      BY <1>1, <3>2, <3>3
  <2> QED
    BY <1>4, <2>1, <2>2 DEF TreeInv, OutsideInv, CallerInv, Running
<1> QED
  BY <1>1, <1>3, <1>4

LEMMA ServingTree ==
  ASSUME TreeTypeOK, TreeInv, Serving
  PROVE  TreeInv'
<1>1. CASE Index
  <2>1. UNCHANGED <<disk, seen, tree, stage, scan, watch, rebuild, pending, call, source, blur,
                    subscribers, waiting>>
    BY <1>1, Zenon DEF Index, building
  <2> QED
    BY <2>1, TreeKept
<1>2. ASSUME NEW s \in Sessions, Forward(s)
      PROVE  TreeInv'
  <2>1. UNCHANGED <<disk, seen, tree, stage, scan, watch, rebuild, pending, call, source, blur, waiting>>
        /\ subscribers' \subseteq subscribers
    BY <1>2 DEF Forward, building
  <2> QED
    BY <2>1, TreeKept
<1>3. ASSUME NEW s \in Sessions, Send(s) \/ SendFails(s) \/ Leave(s)
      PROVE  TreeInv'
  <2>1. UNCHANGED <<disk, seen, tree, stage, scan, watch, rebuild, pending, call, source, blur,
                    subscribers, waiting>>
    BY <1>3 DEF Send, SendFails, Leave, building, events
  <2> QED
    BY <2>1, TreeKept
<1> QED
  BY <1>1, <1>2, <1>3, ConnectTree DEF Serving

(* Every step keeps the invariant of the tree.                              *)
LEMMA TreeStep ==
  ASSUME ExplorerTypeOK, TreeInv, [Next]_vars
  PROVE  TreeInv'
<1>0. TreeTypeOK
  BY DEF ExplorerTypeOK
<1>1. CASE Operation
  <2>1. ASSUME NEW u \in Callers, NEW op, NEW p, NEW q, Begin(u, op, p, q),
               op = "move" => p \in disk /\ q \notin disk
        PROVE  TreeInv'
    BY <1>0, <2>1, BeginTree
  <2>2. ASSUME NEW u \in Callers, NEW p \in Paths, Add(u, p) \/ Delete(u, p)
        PROVE  TreeInv'
    BY <2>1, <2>2 DEF Add, Delete
  <2>3. ASSUME NEW u \in Callers, NEW f \in Files, Write(u, f)
        PROVE  TreeInv'
    <3>1. Begin(u, IF f \in disk THEN "modify" ELSE "add", f, f)
      BY <2>3 DEF Write
    <3>2. (IF f \in disk THEN "modify" ELSE "add") # "move"
      OBVIOUS
    <3> QED
      BY <2>1, <3>1, <3>2
  <2>4. ASSUME NEW u \in Callers, NEW f \in Files, NEW g \in Files, Rename(u, f, g) \/ Move(u, f, g)
        PROVE  TreeInv'
    BY <2>1, <2>4 DEF Rename, Move
  <2> QED
    BY <1>0, <1>1, <2>2, <2>3, <2>4, PerformTree, AnswerTree DEF Operation
<1>2. CASE Environment
  BY <1>0, <1>2, EnvironmentTree
<1>3. CASE Watcher
  BY <1>0, <1>3, SeesAddTree, SeesUnlinkTree, DeletionTree, ReadyTree, FailureTree, ScanTree,
     BuildTree, LookTree, ReplaceTree DEF Watcher
<1>4. CASE Serving
  BY <1>0, <1>4, ServingTree
<1>5. CASE UNCHANGED vars
  <2>1. UNCHANGED <<disk, seen, tree, stage, scan, watch, rebuild, pending, call, source, blur,
                    subscribers, waiting>>
    BY <1>5 DEF vars, building, events
  <2> QED
    BY <2>1, TreeKept
<1> QED
  BY <1>1, <1>2, <1>3, <1>4, <1>5 DEF Next

(* Once nothing is under way the tree has every watched path of the         *)
(* directory, once.                                                         *)
THEOREM TreeFollowsDisk == Spec => []TreeIsDisk
<1>1. Init => ExplorerTypeOK /\ TreeInv
  BY InitialTypes, InitialTree
<1>2. (ExplorerTypeOK /\ TreeInv) /\ [Next]_vars => (ExplorerTypeOK /\ TreeInv)'
  BY TypesStep, TreeStep
<1>3. ExplorerTypeOK /\ TreeInv => TreeIsDisk
  BY TreeInvImplies DEF ExplorerTypeOK
<1> QED
  BY <1>1, <1>2, <1>3, PTL DEF Spec

(****************************************************************************)
(* The index                                                                *)
(****************************************************************************)
(* where the nodes of a tree are, and under which ids                       *)
Held(t) == {<<t[i].path, t[i].id>> : i \in DOMAIN t}
In(h, p) == \E m \in h : m[1] = p

Names == {NameOf[f] : f \in Files}
WatchedFiles == Watched \cap Files
Alone(f) == \A g \in Files \ {f} : NameOf[g] # NameOf[f]
Indexes == [names : [Names -> Files \cup {None}], ids : [Files -> Files \cup {None}]]

(* a node keeps its kind, and no two watched nodes have one id              *)
Known(h) == \A m \in h : (m[1] \in Watched <=> m[2] \in Watched) /\ (m[1] = Dir <=> m[2] = Dir)
OneEach(h) == \A m, n \in h : m[1] \in Watched /\ n[1] \in Watched /\ m[2] = n[2] => m = n

(* An index agrees with what is held: it finds watched files by their ids,  *)
(* and by their names if no other file has them; what it finds by a name    *)
(* has that name and is there, or is not watched.                           *)
Agrees(x, h) ==
  /\ x \in Indexes
  /\ \A m \in h : m[1] \in WatchedFiles => x.ids[m[2]] = m[1]
  /\ \A f \in WatchedFiles : x.ids[f] # None => \E m \in h : m[2] = f
  /\ \A n \in Names : x.names[n] # None =>
       /\ NameOf[x.names[n]] = n
       /\ x.names[n] \in Unwatched \/ (x.names[n] \in WatchedFiles /\ In(h, x.names[n]))
  /\ \A f \in WatchedFiles : Alone(f) /\ In(h, f) => x.names[NameOf[f]] = f

LEMMA NoneIsNoFile == None \notin Files /\ Dir \notin Files
BY FileExplorerAssumption

(* What is held of directories, and what is not watched, does not matter.   *)
LEMMA AgreesOfFiles ==
  ASSUME NEW h \in SUBSET (Paths \X Paths), NEW g \in SUBSET (Paths \X Paths), NEW x,
         Agrees(x, h), Known(h),
         \A m \in Paths \X Paths : m[1] \in WatchedFiles => (m \in h <=> m \in g)
  PROVE  Agrees(x, g)
<1>1. \A m \in g : m[1] \in WatchedFiles => m \in h
  OBVIOUS
<1>2. \A f \in WatchedFiles : In(h, f) <=> In(g, f)
  BY DEF In
<1>3. ASSUME NEW f \in WatchedFiles, x.ids[f] # None
      PROVE  \E m \in g : m[2] = f
  <2>1. PICK m \in h : m[2] = f
    BY <1>3 DEF Agrees
  <2>2. m[1] \in Watched /\ m[1] # Dir /\ m[1] \in Paths
    BY <2>1, NoneIsNoFile DEF Known, WatchedFiles
  <2>3. m[1] \in WatchedFiles
    BY <2>2 DEF WatchedFiles, Paths
  <2> QED
    BY <2>1, <2>3
<1> QED
  BY <1>1, <1>2, <1>3 DEF Agrees

(* What the indexer makes of a change                                       *)
LEMMA IndexedIs ==
  ASSUME NEW x \in Indexes, NEW id \in Paths, NEW p \in Files
  PROVE  /\ id = Dir => \A type, q : Indexed(x, Change(type, id, q)) = x
         /\ id # Dir => /\ id \in Files
                        /\ Indexed(x, Change("add", id, p))
                             = [names |-> [x.names EXCEPT ![NameOf[p]] = p], ids |-> [x.ids EXCEPT ![id] = p]]
                        /\ x.ids[id] = p => Indexed(x, Change("delete", id, p))
                             = [names |-> WithoutEntry(x.names, p), ids |-> [x.ids EXCEPT ![id] = None]]
                        /\ \A q \in Files : x.ids[id] = p => Indexed(x, Change("move", id, q))
                             = [names |-> [(IF p = q THEN x.names ELSE WithoutEntry(x.names, p)) EXCEPT ![NameOf[q]] = q],
                                ids |-> [x.ids EXCEPT ![id] = q]]
<1>1. id # Dir => id \in Files
  BY DEF Paths
<1>2. p # None
  BY NoneIsNoFile
<1>3. \A type, q : Change(type, id, q).id = id /\ Change(type, id, q).type = type /\ Change(type, id, q).path = q
  BY DEF Change
<1>4. id = Dir => \A type, q : Indexed(x, Change(type, id, q)) = x
  BY <1>3 DEF Indexed
<1>5. id # Dir => Indexed(x, Change("add", id, p))
                    = [names |-> [x.names EXCEPT ![NameOf[p]] = p], ids |-> [x.ids EXCEPT ![id] = p]]
  BY <1>3 DEF Indexed, WithEntry
<1>6. id # Dir /\ x.ids[id] = p => Indexed(x, Change("delete", id, p))
                    = [names |-> WithoutEntry(x.names, p), ids |-> [x.ids EXCEPT ![id] = None]]
  BY <1>2, <1>3 DEF Indexed
<1>7. ASSUME NEW q \in Files, id # Dir, x.ids[id] = p
      PROVE  Indexed(x, Change("move", id, q))
               = [names |-> [(IF p = q THEN x.names ELSE WithoutEntry(x.names, p)) EXCEPT ![NameOf[q]] = q],
                  ids |-> [x.ids EXCEPT ![id] = q]]
  BY <1>2, <1>3, <1>7 DEF Indexed, WithEntry
<1> QED
  BY <1>1, <1>4, <1>5, <1>6, <1>7

(* What remains of the names without the entry of a file                    *)
LEMMA NamesOf ==
  ASSUME NEW names \in [Names -> Files \cup {None}], NEW p \in Files
  PROVE  /\ NameOf[p] \in Names
         /\ WithoutEntry(names, p) \in [Names -> Files \cup {None}]
         /\ WithoutEntry(names, p)[NameOf[p]] # p
         /\ \A n \in Names \ {NameOf[p]} : WithoutEntry(names, p)[n] = names[n]
         /\ \A n \in Names : WithoutEntry(names, p)[n] \in {names[n], None}
<1>1. NameOf[p] \in Names /\ p # None
  BY NoneIsNoFile DEF Names
<1>2. CASE names[NameOf[p]] = p
  <2>1. WithoutEntry(names, p) = [names EXCEPT ![NameOf[p]] = None]
    BY <1>2 DEF WithoutEntry
  <2> QED
    BY <1>1, <2>1
<1>3. CASE names[NameOf[p]] # p
  <2>1. WithoutEntry(names, p) = names
    BY <1>3 DEF WithoutEntry
  <2> QED
    BY <1>1, <1>3, <2>1
<1> QED
  BY <1>2, <1>3

(* What is held with one node more                                          *)
LEMMA InWith ==
  ASSUME NEW h, NEW p, NEW e
  PROVE  /\ \A f : In(h \cup {<<p, e>>}, f) <=> In(h, f) \/ f = p
         /\ \E m \in h \cup {<<p, e>>} : m[2] = e
<1>1. <<p, e>> \in h \cup {<<p, e>>} /\ <<p, e>>[1] = p /\ <<p, e>>[2] = e
  OBVIOUS
<1>2. ASSUME NEW f, In(h \cup {<<p, e>>}, f)
      PROVE  In(h, f) \/ f = p
  <2>1. PICK m \in h \cup {<<p, e>>} : m[1] = f
    BY <1>2 DEF In
  <2> QED
    BY <1>1, <2>1 DEF In
<1>3. ASSUME NEW f, In(h, f) \/ f = p
      PROVE  In(h \cup {<<p, e>>}, f)
  BY <1>1, <1>3 DEF In
<1> QED
  BY <1>1, <1>2, <1>3

(* A file is added to what is held.                                         *)
LEMMA EntryAdded ==
  ASSUME NEW h \in SUBSET (Paths \X Paths), NEW x, Agrees(x, h), Known(h),
         NEW p \in WatchedFiles, ~In(h, p),
         NEW g, g = h \cup {<<p, p>>}, OneEach(g)
  PROVE  Agrees(Indexed(x, Change("add", p, p)), g)
<1> DEFINE y == Indexed(x, Change("add", p, p))
<1>1. x \in Indexes /\ p \in Files /\ p \in Paths /\ p # Dir /\ p \in Watched
  BY NoneIsNoFile DEF Agrees, WatchedFiles, Paths
<1>2. y = [names |-> [x.names EXCEPT ![NameOf[p]] = p], ids |-> [x.ids EXCEPT ![p] = p]]
  BY <1>1, IndexedIs
<1>3. x.names \in [Names -> Files \cup {None}] /\ x.ids \in [Files -> Files \cup {None}] /\ NameOf[p] \in Names
  BY <1>1 DEF Indexes, Names
<1>4. /\ y \in Indexes
      /\ y.names[NameOf[p]] = p /\ \A n \in Names \ {NameOf[p]} : y.names[n] = x.names[n]
      /\ y.ids[p] = p /\ \A f \in Files \ {p} : y.ids[f] = x.ids[f]
  BY <1>1, <1>2, <1>3 DEF Indexes
<1> HIDE DEF y
<1>5. \A f : In(g, f) <=> In(h, f) \/ f = p
  BY InWith
<1>6. ASSUME NEW m \in g, m[1] \in WatchedFiles
      PROVE  y.ids[m[2]] = m[1]
  <2>1. CASE m = <<p, p>>
    BY <1>4, <2>1
  <2>2. CASE m # <<p, p>>
    <3>1. m \in h /\ m[1] \in Watched /\ m[1] # p
      BY <1>6, <2>2 DEF WatchedFiles, In
    <3>2. m[2] # p
      <4>1. <<p, p>> \in g /\ <<p, p>>[1] = p /\ <<p, p>>[2] = p
        OBVIOUS
      <4> QED
        BY <1>1, <2>2, <3>1, <4>1 DEF OneEach
    <3>3. x.ids[m[2]] = m[1] /\ m[2] \in Paths
      BY <1>6, <3>1 DEF Agrees
    <3>4. m[2] # Dir
      BY <1>6, <3>1, NoneIsNoFile DEF Known, WatchedFiles
    <3> QED
      BY <1>4, <3>2, <3>3, <3>4 DEF Paths
  <2> QED
    BY <2>1, <2>2
<1>7. ASSUME NEW f \in WatchedFiles, y.ids[f] # None
      PROVE  \E m \in g : m[2] = f
  <2>1. CASE f = p
    <3>1. <<p, p>> \in g /\ <<p, p>>[2] = p
      OBVIOUS
    <3> QED
      BY <2>1, <3>1
  <2>2. CASE f # p
    <3>1. x.ids[f] # None
      BY <1>4, <1>7, <2>2 DEF WatchedFiles
    <3> QED
      BY <3>1 DEF Agrees
  <2> QED
    BY <2>1, <2>2
<1>8. ASSUME NEW n \in Names, y.names[n] # None
      PROVE  /\ NameOf[y.names[n]] = n
             /\ y.names[n] \in Unwatched \/ (y.names[n] \in WatchedFiles /\ In(g, y.names[n]))
  <2>1. CASE n = NameOf[p]
    BY <1>4, <1>5, <2>1
  <2>2. CASE n # NameOf[p]
    BY <1>4, <1>5, <1>8, <2>2 DEF Agrees
  <2> QED
    BY <2>1, <2>2
<1>9. ASSUME NEW f \in WatchedFiles, Alone(f), In(g, f)
      PROVE  y.names[NameOf[f]] = f
  <2>1. CASE f = p
    BY <1>4, <2>1
  <2>2. CASE f # p
    <3>1. In(h, f) /\ NameOf[p] # NameOf[f] /\ NameOf[f] \in Names
      BY <1>1, <1>5, <1>9, <2>2 DEF Alone, Names, WatchedFiles
    <3> QED
      BY <1>4, <1>9, <3>1 DEF Agrees
  <2> QED
    BY <2>1, <2>2
<1>10. Agrees(y, g)
  BY <1>4, <1>6, <1>7, <1>8, <1>9 DEF Agrees
<1> QED
  BY <1>10 DEF y

(* What is held without the node of a file p, whose id is e                 *)
Without(g, h, p, e) ==
  /\ <<p, e>> \in h /\ \A m \in h : m[1] = p => m[2] = e
  /\ g \subseteq h /\ \A m \in h : m[1] \in Watched => (m \in g <=> m[1] # p)

(* The entry of a file that goes: what remains of the index.                *)
LEMMA EntryGone ==
  ASSUME NEW h \in SUBSET (Paths \X Paths), NEW x, Agrees(x, h), Known(h), OneEach(h),
         NEW p \in WatchedFiles, NEW e, NEW g, Without(g, h, p, e)
  PROVE  /\ x \in Indexes /\ p \in Files /\ p # Dir /\ p \in Watched /\ ~In(g, p)
         /\ e \in WatchedFiles /\ x.ids[e] = p
         /\ \A m \in g : m[1] \in WatchedFiles => x.ids[m[2]] = m[1] /\ m[2] # e /\ m[2] \in WatchedFiles
         /\ \A f \in WatchedFiles : f # e /\ x.ids[f] # None => \E m \in g : m[2] = f
         /\ \A n \in Names : WithoutEntry(x.names, p)[n] # None =>
              /\ NameOf[WithoutEntry(x.names, p)[n]] = n
              /\ \/ WithoutEntry(x.names, p)[n] \in Unwatched
                 \/ WithoutEntry(x.names, p)[n] \in WatchedFiles /\ In(g, WithoutEntry(x.names, p)[n])
         /\ \A f \in WatchedFiles : Alone(f) /\ In(g, f) =>
              f # p /\ NameOf[f] # NameOf[p] /\ x.names[NameOf[f]] = f /\ WithoutEntry(x.names, p)[NameOf[f]] = f
<1>1. x \in Indexes /\ p \in Files /\ p \in Paths /\ p # Dir /\ p \in Watched
  BY NoneIsNoFile DEF Agrees, WatchedFiles, Paths
<1>2. <<p, e>> \in h /\ e \in Paths /\ e \in WatchedFiles /\ x.ids[e] = p
  <2>1. <<p, e>> \in h /\ e \in Paths
    BY DEF Without
  <2>2. (<<p, e>>[1] \in Watched <=> <<p, e>>[2] \in Watched) /\ (<<p, e>>[1] = Dir <=> <<p, e>>[2] = Dir)
    BY <2>1 DEF Known
  <2>3. e \in WatchedFiles
    BY <1>1, <2>1, <2>2 DEF WatchedFiles, Paths
  <2>4. <<p, e>>[1] \in WatchedFiles => x.ids[<<p, e>>[2]] = <<p, e>>[1]
    BY <2>1 DEF Agrees
  <2> QED
    BY <2>1, <2>3, <2>4
<1>3. ~In(g, p)
  BY <1>1 DEF Without, In
<1>4. ASSUME NEW m \in g, m[1] \in WatchedFiles
      PROVE  x.ids[m[2]] = m[1] /\ m[2] # e /\ m[2] \in WatchedFiles
  <2>1. m \in h /\ m[1] # p /\ m[1] \in Watched /\ m[1] # Dir /\ m[2] \in Paths
    BY <1>3, <1>4, NoneIsNoFile DEF Without, In, WatchedFiles
  <2>2. x.ids[m[2]] = m[1]
    BY <1>4, <2>1 DEF Agrees
  <2>3. m[2] \in Watched /\ m[2] # Dir
    BY <2>1 DEF Known
  <2>4. m[2] = e => m = <<p, e>>
    BY <1>1, <1>2, <2>1 DEF OneEach
  <2> QED
    BY <2>1, <2>2, <2>3, <2>4 DEF WatchedFiles, Paths
<1>5. ASSUME NEW f \in WatchedFiles, f # e, x.ids[f] # None
      PROVE  \E m \in g : m[2] = f
  <2>1. PICK m \in h : m[2] = f
    BY <1>5 DEF Agrees
  <2>2. m[1] \in Watched
    BY <2>1 DEF Known, WatchedFiles
  <2>3. m[1] # p
    BY <1>5, <2>1 DEF Without
  <2> QED
    BY <2>1, <2>2, <2>3 DEF Without
<1>6. ASSUME NEW f \in WatchedFiles, In(h, f), f # p
      PROVE  In(g, f)
  BY <1>6 DEF In, Without, WatchedFiles
<1> DEFINE w == WithoutEntry(x.names, p)
<1>7. /\ x.names \in [Names -> Files \cup {None}] /\ NameOf[p] \in Names
      /\ w[NameOf[p]] # p
      /\ \A n \in Names \ {NameOf[p]} : w[n] = x.names[n]
      /\ \A n \in Names : w[n] \in {x.names[n], None}
  <2>1. x.names \in [Names -> Files \cup {None}]
    BY <1>1 DEF Indexes
  <2> QED
    BY <1>1, <2>1, NamesOf
<1> HIDE DEF w
<1>8. ASSUME NEW n \in Names, w[n] # None
      PROVE  NameOf[w[n]] = n /\ (w[n] \in Unwatched \/ (w[n] \in WatchedFiles /\ In(g, w[n])))
  <2>1. w[n] = x.names[n]
    BY <1>7, <1>8
  <2>2. NameOf[w[n]] = n /\ (w[n] \in Unwatched \/ (w[n] \in WatchedFiles /\ In(h, w[n])))
    BY <1>8, <2>1 DEF Agrees
  <2>3. w[n] # p
    BY <1>7, <2>2
  <2> QED
    BY <1>6, <2>2, <2>3
<1>9. ASSUME NEW f \in WatchedFiles, Alone(f), In(g, f)
      PROVE  f # p /\ NameOf[f] # NameOf[p] /\ x.names[NameOf[f]] = f /\ w[NameOf[f]] = f
  <2>1. f # p /\ In(h, f)
    BY <1>3, <1>9 DEF In, Without
  <2>2. NameOf[f] # NameOf[p] /\ NameOf[f] \in Names
    BY <1>1, <1>9, <2>1 DEF Alone, Names, WatchedFiles
  <2>3. x.names[NameOf[f]] = f
    BY <1>9, <2>1 DEF Agrees
  <2> QED
    BY <1>7, <2>1, <2>2, <2>3
<1> QED
  BY <1>1, <1>2, <1>3, <1>4, <1>5, <1>8, <1>9 DEF w

LEMMA EntryRemoved ==
  ASSUME NEW h \in SUBSET (Paths \X Paths), NEW x, Agrees(x, h), Known(h), OneEach(h),
         NEW p \in WatchedFiles, NEW e, NEW g, Without(g, h, p, e)
  PROVE  Agrees(Indexed(x, Change("delete", e, p)), g)
<1> DEFINE y == Indexed(x, Change("delete", e, p))
           w == WithoutEntry(x.names, p)
<1>1. /\ x \in Indexes /\ p \in Files /\ e \in WatchedFiles /\ x.ids[e] = p
      /\ \A m \in g : m[1] \in WatchedFiles => x.ids[m[2]] = m[1] /\ m[2] # e /\ m[2] \in WatchedFiles
      /\ \A f \in WatchedFiles : f # e /\ x.ids[f] # None => \E m \in g : m[2] = f
      /\ \A n \in Names : w[n] # None =>
            NameOf[w[n]] = n /\ (w[n] \in Unwatched \/ (w[n] \in WatchedFiles /\ In(g, w[n])))
      /\ \A f \in WatchedFiles : Alone(f) /\ In(g, f) => w[NameOf[f]] = f
  BY EntryGone
<1>2. e \in Paths /\ e \in Files /\ e # Dir
  BY <1>1, NoneIsNoFile DEF WatchedFiles, Paths
<1>3. y = [names |-> w, ids |-> [x.ids EXCEPT ![e] = None]]
  BY <1>1, <1>2, IndexedIs
<1>4. w \in [Names -> Files \cup {None}] /\ x.ids \in [Files -> Files \cup {None}]
  BY <1>1, NamesOf DEF Indexes
<1> HIDE DEF w
<1>5. /\ y \in Indexes /\ y.names = w
      /\ y.ids[e] = None /\ \A f \in Files \ {e} : y.ids[f] = x.ids[f]
  BY <1>2, <1>3, <1>4 DEF Indexes
<1> HIDE DEF y
<1>6. Agrees(y, g)
  BY <1>1, <1>5 DEF Agrees, WatchedFiles
<1> QED
  BY <1>6 DEF y

LEMMA EntryMoved ==
  ASSUME NEW h \in SUBSET (Paths \X Paths), NEW x, Agrees(x, h), Known(h), OneEach(h),
         NEW p \in WatchedFiles, NEW q \in WatchedFiles, NEW e, NEW r, Without(r, h, p, e),
         NEW g, g = r \cup {<<q, e>>}
  PROVE  Agrees(Indexed(x, Change("move", e, q)), g)
<1> DEFINE y == Indexed(x, Change("move", e, q))
           w == WithoutEntry(x.names, p)
           k == IF p = q THEN x.names ELSE w
<1>1. /\ x \in Indexes /\ p \in Files /\ e \in WatchedFiles /\ x.ids[e] = p
      /\ \A m \in r : m[1] \in WatchedFiles => x.ids[m[2]] = m[1] /\ m[2] # e /\ m[2] \in WatchedFiles
      /\ \A f \in WatchedFiles : f # e /\ x.ids[f] # None => \E m \in r : m[2] = f
      /\ \A n \in Names : w[n] # None =>
            NameOf[w[n]] = n /\ (w[n] \in Unwatched \/ (w[n] \in WatchedFiles /\ In(r, w[n])))
      /\ \A f \in WatchedFiles : Alone(f) /\ In(r, f) =>
            f # p /\ NameOf[f] # NameOf[p] /\ x.names[NameOf[f]] = f /\ w[NameOf[f]] = f
  BY EntryGone
<1>2. e \in Paths /\ e \in Files /\ e # Dir /\ q \in Files /\ NameOf[q] \in Names
  BY <1>1, NoneIsNoFile DEF WatchedFiles, Paths, Names
<1>3. y = [names |-> [k EXCEPT ![NameOf[q]] = q], ids |-> [x.ids EXCEPT ![e] = q]]
  BY <1>1, <1>2, IndexedIs
<1>4. /\ w \in [Names -> Files \cup {None}] /\ x.ids \in [Files -> Files \cup {None}]
      /\ x.names \in [Names -> Files \cup {None}]
      /\ \A n \in Names \ {NameOf[p]} : w[n] = x.names[n]
  <2>1. x.ids \in [Files -> Files \cup {None}] /\ x.names \in [Names -> Files \cup {None}]
    BY <1>1 DEF Indexes
  <2> QED
    BY <1>1, <2>1, NamesOf
<1>5. k \in [Names -> Files \cup {None}] /\ \A n \in Names \ {NameOf[q]} : k[n] = w[n]
  BY <1>4
<1>6. \A f \in WatchedFiles : Alone(f) /\ In(r, f) => k[NameOf[f]] = f
  BY <1>1
<1> HIDE DEF w, k
<1>7. /\ y \in Indexes
      /\ y.names[NameOf[q]] = q /\ \A n \in Names \ {NameOf[q]} : y.names[n] = k[n]
      /\ y.ids[e] = q /\ \A f \in Files \ {e} : y.ids[f] = x.ids[f]
  BY <1>2, <1>3, <1>4, <1>5 DEF Indexes
<1> HIDE DEF y
<1>8. \A f : In(g, f) <=> In(r, f) \/ f = q
  BY InWith
<1>9. ASSUME NEW m \in g, m[1] \in WatchedFiles
      PROVE  y.ids[m[2]] = m[1]
  <2>1. CASE m = <<q, e>>
    BY <1>7, <2>1
  <2>2. CASE m # <<q, e>>
    BY <1>1, <1>7, <1>9, <2>2 DEF WatchedFiles
  <2> QED
    BY <2>1, <2>2
<1>10. ASSUME NEW f \in WatchedFiles, y.ids[f] # None
      PROVE  \E m \in g : m[2] = f
  <2>1. CASE f = e
    <3>1. <<q, e>> \in g /\ <<q, e>>[2] = e
      OBVIOUS
    <3> QED
      BY <2>1, <3>1
  <2>2. CASE f # e
    BY <1>1, <1>7, <1>10, <2>2 DEF WatchedFiles
  <2> QED
    BY <2>1, <2>2
<1>11. ASSUME NEW n \in Names, y.names[n] # None
      PROVE  /\ NameOf[y.names[n]] = n
             /\ y.names[n] \in Unwatched \/ (y.names[n] \in WatchedFiles /\ In(g, y.names[n]))
  <2>1. CASE n = NameOf[q]
    BY <1>7, <1>8, <2>1
  <2>2. CASE n # NameOf[q]
    <3>1. y.names[n] = w[n]
      BY <1>5, <1>7, <2>2
    <3> QED
      BY <1>1, <1>8, <1>11, <3>1
  <2> QED
    BY <2>1, <2>2
<1>12. ASSUME NEW f \in WatchedFiles, Alone(f), In(g, f)
      PROVE  y.names[NameOf[f]] = f
  <2>1. CASE f = q
    BY <1>7, <2>1
  <2>2. CASE f # q
    <3>1. In(r, f) /\ NameOf[q] # NameOf[f] /\ NameOf[f] \in Names
      BY <1>2, <1>8, <1>12, <2>2 DEF Alone, Names, WatchedFiles
    <3> QED
      BY <1>6, <1>7, <1>12, <3>1
  <2> QED
    BY <2>1, <2>2
<1>13. Agrees(y, g)
  BY <1>7, <1>9, <1>10, <1>11, <1>12 DEF Agrees
<1> QED
  BY <1>13 DEF y

(* What is held of trees                                                    *)
LEMMA HeldIs ==
  ASSUME NEW t \in Seq(Nodes)
  PROVE  /\ Held(t) \in SUBSET (Paths \X Paths)
         /\ \A p : In(Held(t), p) <=> Has(t, p)
         /\ \A i \in DOMAIN t : <<t[i].path, t[i].id>> \in Held(t)
<1>1. DOMAIN t = 1 .. Len(t) /\ \A i \in DOMAIN t : t[i] \in Nodes
  OBVIOUS
<1>2. \A i \in DOMAIN t : t[i].path \in Paths /\ t[i].id \in Paths
  BY <1>1 DEF Nodes
<1>3. Held(t) \in SUBSET (Paths \X Paths)
  BY <1>2 DEF Held
<1>4. ASSUME NEW p, Has(t, p)
      PROVE  In(Held(t), p)
  <2>1. PICK i \in DOMAIN t : t[i].path = p
    BY <1>4 DEF Has
  <2>2. <<t[i].path, t[i].id>> \in Held(t)
    BY DEF Held
  <2>3. <<t[i].path, t[i].id>>[1] = p
    BY <2>1
  <2> QED
    BY <2>2, <2>3 DEF In
<1>5. ASSUME NEW p, In(Held(t), p)
      PROVE  Has(t, p)
  <2>1. PICK m \in Held(t) : m[1] = p
    BY <1>5 DEF In
  <2>2. PICK i \in DOMAIN t : m = <<t[i].path, t[i].id>>
    BY DEF Held
  <2> QED
    BY <2>1, <2>2 DEF Has
<1> QED
  BY <1>3, <1>4, <1>5 DEF Held

LEMMA HeldConcat ==
  ASSUME NEW t \in Seq(Nodes), NEW r \in Seq(Nodes)
  PROVE  Held(t \o r) = Held(t) \cup Held(r)
<1> DEFINE l == Len(t)
           k == Len(r)
<1>1. /\ l \in Nat /\ k \in Nat /\ DOMAIN t = 1 .. l /\ DOMAIN r = 1 .. k
      /\ DOMAIN (t \o r) = 1 .. (l + k)
  BY ConcatProperties
<1>2. ASSUME NEW i \in 1 .. (l + k)
      PROVE  (t \o r)[i] = IF i <= l THEN t[i] ELSE r[i - l]
  BY ConcatProperties
<1> HIDE DEF l, k
<1>3. ASSUME NEW m \in Held(t \o r)
      PROVE  m \in Held(t) \cup Held(r)
  <2>1. PICK i \in 1 .. (l + k) : m = <<(t \o r)[i].path, (t \o r)[i].id>>
    BY <1>1 DEF Held
  <2>2. CASE i <= l
    <3>1. i \in 1 .. l /\ m = <<t[i].path, t[i].id>>
      BY <1>1, <1>2, <2>1, <2>2
    <3> QED
      BY <1>1, <3>1 DEF Held
  <2>3. CASE ~(i <= l)
    <3>1. i - l \in 1 .. k /\ m = <<r[i - l].path, r[i - l].id>>
      BY <1>1, <1>2, <2>1, <2>3
    <3> QED
      BY <1>1, <3>1 DEF Held
  <2> QED
    BY <2>2, <2>3
<1>4. ASSUME NEW m \in Held(t)
      PROVE  m \in Held(t \o r)
  <2>1. PICK i \in 1 .. l : m = <<t[i].path, t[i].id>>
    BY <1>1 DEF Held
  <2>2. i \in 1 .. (l + k) /\ i <= l
    BY <1>1
  <2>3. m = <<(t \o r)[i].path, (t \o r)[i].id>>
    BY <1>2, <2>1, <2>2
  <2> QED
    BY <1>1, <2>2, <2>3 DEF Held
<1>5. ASSUME NEW m \in Held(r)
      PROVE  m \in Held(t \o r)
  <2>1. PICK i \in 1 .. k : m = <<r[i].path, r[i].id>>
    BY <1>1 DEF Held
  <2>2. l + i \in 1 .. (l + k) /\ ~(l + i <= l) /\ (l + i) - l = i
    BY <1>1
  <2>3. m = <<(t \o r)[l + i].path, (t \o r)[l + i].id>>
    BY <1>2, <2>1, <2>2
  <2> QED
    BY <1>1, <2>2, <2>3 DEF Held
<1> QED
  BY <1>3, <1>4, <1>5

LEMMA HeldOne ==
  ASSUME NEW n \in Nodes
  PROVE  Held(<<n>>) = {<<n.path, n.id>>} /\ Held(<< >>) = {}
BY DEF Held

(* What is kept of a tree is held as it was.                                *)
LEMMA HeldKept ==
  ASSUME NEW t \in Seq(Nodes), NEW S \in SUBSET DOMAIN t
  PROVE  Held(Kept(t, S)) = {<<t[i].path, t[i].id>> : i \in S}
<1> DEFINE size == Cardinality(S)
           rank(i) == Cardinality({j \in S : j < i})
           at(n) == CHOOSE i \in S : rank(i) = n - 1
           kept == Kept(t, S)
<1>1. Len(t) \in Nat /\ DOMAIN t = 1 .. Len(t) /\ S \in SUBSET (1 .. Len(t)) /\ S \subseteq Int
  OBVIOUS
<1>2. IsFiniteSet(S) /\ size \in Nat
  BY <1>1, PositionsFinite
<1>3. ASSUME NEW n \in 1 .. size
      PROVE  at(n) \in S /\ rank(at(n)) = n - 1
  <2>1. \E i \in S : rank(i) = n - 1
    BY <1>1, Ranks
  <2> HIDE DEF rank
  <2> QED
    BY <2>1
<1>4. kept = [n \in 1 .. size |-> t[at(n)]]
  BY DEF Kept
<1> HIDE DEF size, at, kept
<1>5. DOMAIN kept = 1 .. size /\ \A n \in 1 .. size : kept[n] = t[at(n)]
  BY <1>4
<1>6. ASSUME NEW i \in S
      PROVE  \E n \in 1 .. size : at(n) = i
  <2> DEFINE low(k) == {j \in S : j < k}
  <2>1. i \notin low(i) /\ low(i) \in SUBSET S /\ i \in Int
    BY <1>1
  <2>2. rank(i) <= size /\ rank(i) # size /\ rank(i) \in Nat
    BY <1>2, <2>1, FS_Subset, FS_CardinalityType DEF size
  <2>3. rank(i) + 1 \in 1 .. size /\ (rank(i) + 1) - 1 = rank(i)
    <3> HIDE DEF rank
    <3> QED
      BY <1>2, <2>2
  <2>4. at(rank(i) + 1) \in S /\ rank(at(rank(i) + 1)) = rank(i)
    <3> HIDE DEF rank
    <3> QED
      BY <1>3, <2>3
  <2>5. ASSUME NEW k \in S, rank(k) = rank(i)
        PROVE  k = i
    <3>1. ASSUME NEW a \in S, NEW b \in S, a < b, rank(a) = rank(b)
          PROVE  FALSE
      <4>1. a \in Int /\ b \in Int
        BY <1>1
      <4>2. \A j \in low(a) : j \in low(b)
        BY <1>1, <3>1, <4>1
      <4>3. low(a) \in SUBSET low(b) /\ a \in low(b) /\ a \notin low(a)
        BY <3>1, <4>1, <4>2
      <4>4. low(b) \in SUBSET S
        OBVIOUS
      <4>5. IsFiniteSet(low(b))
        BY <1>2, <4>4, FS_Subset
      <4> HIDE DEF low
      <4>6. Cardinality(low(a)) # Cardinality(low(b))
        BY <4>3, <4>5, FS_Subset
      <4> QED
        BY <3>1, <4>6 DEF low
    <3>2. k \in Int /\ i \in Int
      BY <1>1
    <3> HIDE DEF rank
    <3> QED
      BY <2>5, <3>1, <3>2
  <2> HIDE DEF rank
  <2> QED
    BY <2>3, <2>4, <2>5
<1>7. ASSUME NEW m \in Held(kept)
      PROVE  m \in {<<t[i].path, t[i].id>> : i \in S}
  <2>1. PICK n \in 1 .. size : m = <<kept[n].path, kept[n].id>>
    BY <1>5 DEF Held
  <2>2. at(n) \in S /\ kept[n] = t[at(n)]
    BY <1>3, <1>5
  <2> QED
    BY <2>1, <2>2
<1>8. ASSUME NEW i \in S
      PROVE  <<t[i].path, t[i].id>> \in Held(kept)
  <2>1. PICK n \in 1 .. size : at(n) = i
    BY <1>6
  <2>2. <<kept[n].path, kept[n].id>> \in Held(kept)
    BY <1>5 DEF Held
  <2> QED
    BY <1>5, <2>1, <2>2
<1> QED
  BY <1>7, <1>8 DEF kept

(* A path that is in a tree once has one position there.                    *)
LEMMA OnePosition ==
  ASSUME NEW t \in Seq(Nodes), NEW p, Times(t, p) = 1
  PROVE  /\ Has(t, p) /\ Find(t, p) \in DOMAIN t /\ t[Find(t, p)].path = p
         /\ \A j \in DOMAIN t : t[j].path = p => j = Find(t, p)
<1>1. Has(t, p)
  BY TimesType
<1>2. Find(t, p) \in DOMAIN t /\ t[Find(t, p)].path = p
  BY <1>1, FindsNode
<1>3. IsFiniteSet(Positions(t, p)) /\ Cardinality(Positions(t, p)) = 1
  <2>1. Len(t) \in Nat /\ Positions(t, p) \in SUBSET (1 .. Len(t))
    BY DEF Positions
  <2> QED
    BY <2>1, PositionsFinite DEF Times
<1>4. PICK x : Positions(t, p) = {x}
  BY <1>3, FS_Singleton
<1> QED
  BY <1>1, <1>2, <1>4 DEF Positions

(* A file that is detached leaves all others, and a directory in which      *)
(* nothing is watched leaves the watched files.                             *)
LEMMA HeldDetached ==
  ASSUME NEW t \in Seq(Nodes), NEW p \in Watched, Times(t, p) = 1
  PROVE  /\ p \in Files => Without(Held(Detached(t, Find(t, p))), Held(t), p, t[Find(t, p)].id)
         /\ p = Dir /\ (\A f \in WatchedFiles : Up(f) = Dir => Times(t, f) = 0) =>
              \A m \in Paths \X Paths : m[1] \in WatchedFiles => (m \in Held(t) <=> m \in Held(Detached(t, Find(t, p))))
<1> DEFINE i == Find(t, p)
           S == DOMAIN t \ ({i} \cup (IF t[i].path = Dir THEN Children(t) ELSE {}))
<1>1. i \in DOMAIN t /\ t[i].path = p /\ \A j \in DOMAIN t : t[j].path = p => j = i
  BY OnePosition
<1>2. Held(Detached(t, i)) = {<<t[j].path, t[j].id>> : j \in S}
  <2>1. S \in SUBSET DOMAIN t
    OBVIOUS
  <2>2. Detached(t, i) = Kept(t, S)
    BY DEF Detached
  <2> HIDE DEF S, i
  <2> QED
    BY <2>1, <2>2, HeldKept
<1>3. S \subseteq DOMAIN t /\ i \notin S
  OBVIOUS
<1>4. p \in Files => S = DOMAIN t \ {i}
  BY <1>1, NoneIsNoFile
<1>5. p = Dir => \A j \in DOMAIN t \ S : j = i \/ Up(t[j].path) = Dir
  BY DEF Children
<1> HIDE DEF i, S
<1>6. Held(Detached(t, i)) \subseteq Held(t)
  BY <1>2, <1>3 DEF Held
<1>7. ASSUME p \in Files
      PROVE  Without(Held(Detached(t, i)), Held(t), p, t[i].id)
  <2>1. <<p, t[i].id>> \in Held(t)
    BY <1>1 DEF Held
  <2>2. ASSUME NEW m \in Held(t)
        PROVE  (m[1] = p => m[2] = t[i].id) /\ (m[1] # p => m \in Held(Detached(t, i)))
    <3>1. PICK j \in DOMAIN t : m = <<t[j].path, t[j].id>>
      BY DEF Held
    <3> QED
      BY <1>1, <1>2, <1>4, <1>7, <3>1
  <2>3. ASSUME NEW m \in Held(Detached(t, i))
        PROVE  m[1] # p
    <3>1. PICK j \in S : m = <<t[j].path, t[j].id>>
      BY <1>2
    <3> QED
      BY <1>1, <1>3, <3>1
  <2> QED
    BY <1>6, <2>1, <2>2, <2>3 DEF Without
<1>8. ASSUME p = Dir, \A f \in WatchedFiles : Up(f) = Dir => Times(t, f) = 0,
             NEW m \in Held(t), m[1] \in WatchedFiles
      PROVE  m \in Held(Detached(t, i))
  <2>1. PICK j \in DOMAIN t : m = <<t[j].path, t[j].id>>
    BY DEF Held
  <2>2. t[j].path \in WatchedFiles /\ t[j].path # p
    BY <1>8, <2>1, NoneIsNoFile DEF WatchedFiles
  <2>3. Has(t, t[j].path)
    BY DEF Has
  <2>4. Up(t[j].path) # Dir
    BY <1>8, <2>2, <2>3, TimesType
  <2>5. j \in S
    BY <1>1, <1>5, <1>8, <2>2, <2>4
  <2> QED
    BY <1>2, <2>1, <2>5
<1> QED
  BY <1>6, <1>7, <1>8 DEF i

(* Trees whose nodes are where they were made, without what is ignored      *)
Own(t) == \A m \in Held(t) : m[1] = m[2] /\ m[1] \notin GitIgnored

LEMMA OwnIsKnown ==
  ASSUME NEW t \in Seq(Nodes), \A m \in Held(t) : m[1] = m[2]
  PROVE  Known(Held(t)) /\ OneEach(Held(t))
<1>1. \A m \in Held(t) : m = <<m[1], m[2]>>
  BY HeldIs
<1> QED
  BY <1>1 DEF Known, OneEach

(* What is scanned is where it was made.                                    *)
LEMMA OwnEntries ==
  ASSUME NEW p
  PROVE  Own(Entries(p))
<1> DEFINE here == SetToSeq((Below(p) \cap disk) \ GitIgnored)
<1>1. ASSUME NEW m \in Held(Entries(p))
      PROVE  m[1] = m[2] /\ m[1] \notin GitIgnored
  <2>1. Entries(p) = [i \in DOMAIN here |-> Node(here[i])]
    BY DEF Entries
  <2>2. PICK i \in DOMAIN here : m = <<Node(here[i]).path, Node(here[i]).id>>
    BY <2>1 DEF Held
  <2>3. m[1] = m[2]
    BY <2>2 DEF Node
  <2>4. Entries(p) \in Seq(Nodes)
    BY UpType, EntriesTimes
  <2>5. m[1] \in Paths /\ Has(Entries(p), m[1])
    BY <2>4, HeldIs DEF In
  <2>6. One(m[1] \in disk \ GitIgnored /\ Up(m[1]) = p) # 0
    BY <2>4, <2>5, EntriesTimes, TimesType
  <2> QED
    BY <2>3, <2>6 DEF One
<1> QED
  BY <1>1 DEF Own

LEMMA OwnFull ==
  ASSUME NEW t \in Seq(Nodes), Own(t)
  PROVE  Own(Full(t))
<1>1. CASE ~Has(t, Dir) \/ Dir \notin disk
  BY <1>1 DEF Full
<1>2. CASE Has(t, Dir) /\ Dir \in disk
  <2> DEFINE r == [i \in DOMAIN t |-> [t[i] EXCEPT !.loaded = TRUE]]
  <2>1. Len(t) \in Nat /\ DOMAIN t = 1 .. Len(t)
    OBVIOUS
  <2>2. ASSUME NEW i \in 1 .. Len(t)
        PROVE  /\ [t[i] EXCEPT !.loaded = TRUE] \in Nodes
               /\ [t[i] EXCEPT !.loaded = TRUE].path = t[i].path /\ [t[i] EXCEPT !.loaded = TRUE].id = t[i].id
    <3>1. t[i] \in Nodes
      BY <2>1
    <3> QED
      BY <3>1 DEF Nodes
  <2>3. r \in Seq(Nodes) /\ DOMAIN r = DOMAIN t
    BY <2>1, <2>2
  <2>4. \A i \in DOMAIN t : r[i].path = t[i].path /\ r[i].id = t[i].id
    BY <2>1, <2>2
  <2>5. Full(t) = r \o Entries(Dir)
    BY <1>2 DEF Full
  <2> HIDE DEF r
  <2>6. Held(r) = Held(t)
    BY <2>3, <2>4 DEF Held
  <2>7. Entries(Dir) \in Seq(Nodes)
    BY EntriesTimes, UpType
  <2>8. Held(Full(t)) = Held(t) \cup Held(Entries(Dir))
    BY <2>3, <2>5, <2>6, <2>7, HeldConcat
  <2> QED
    BY <2>8, OwnEntries DEF Own
<1> QED
  BY <1>1, <1>2

(* What the synchronizers leave is held                                     *)
LEMMA AddHeld ==
  ASSUME NEW t \in Seq(Nodes), NEW p \in Paths, ~Has(t, p), Up(p) = Root \/ Has(t, Up(p))
  PROVE  /\ AddSync(t, p).changes = <<Change("add", p, p)>>
         /\ Held(AddSync(t, p).tree) = Held(t) \cup {<<p, p>>}
<1>1. Node(p) \in Nodes /\ Node(p).path = p /\ Node(p).id = p
  BY NodeType DEF Node
<1>2. MissingDirectories(t, p) \o <<Node(p)>> = <<Node(p)>>
  <2>1. MissingDirectories(t, p) = << >>
    BY DEF MissingDirectories
  <2>2. << >> \o <<Node(p)>> = <<Node(p)>>
    OBVIOUS
  <2> QED
    BY <2>1, <2>2
<1>3. AddSync(t, p).tree = t \o <<Node(p)>>
  BY <1>2 DEF AddSync, Sync
<1>4. AddSync(t, p).changes = [i \in DOMAIN <<Node(p)>> |-> Change("add", <<Node(p)>>[i].id, <<Node(p)>>[i].path)]
  BY <1>2 DEF AddSync, Sync
<1>5. AddSync(t, p).changes = <<Change("add", p, p)>>
  BY <1>1, <1>4
<1>6. <<Node(p)>> \in Seq(Nodes)
  BY <1>1
<1>7. Held(t \o <<Node(p)>>) = Held(t) \cup {<<p, p>>}
  BY <1>1, <1>6, HeldConcat, HeldOne
<1> QED
  BY <1>3, <1>5, <1>7

LEMMA RemoveHeld ==
  ASSUME NEW t \in Seq(Nodes), NEW p, Has(t, p)
  PROVE  /\ RemoveSync(t, p).changes = <<Change("delete", t[Find(t, p)].id, p)>>
         /\ RemoveSync(t, p).tree = Detached(t, Find(t, p))
BY DEF RemoveSync, Sync

LEMMA MoveHeldDirectory ==
  ASSUME NEW t \in Seq(Nodes), Times(t, Dir) = 1
  PROVE  /\ MoveSync(t, Dir, Dir).changes = <<Change("move", t[Find(t, Dir)].id, Dir)>>
         /\ Held(MoveSync(t, Dir, Dir).tree) = Held(t)
<1> DEFINE i == Find(t, Dir)
           node == [t[i] EXCEPT !.path = Dir]
           rest == Detached(t, i)
           S == DOMAIN t \ ({i} \cup Children(t))
<1>1. Has(t, Dir) /\ i \in DOMAIN t /\ t[i].path = Dir /\ t[i] \in Nodes /\ Up(Dir) = Root
  <2>1. Has(t, Dir) /\ i \in DOMAIN t /\ t[i].path = Dir
    BY OnePosition
  <2>2. t[i] \in Nodes
    BY <2>1
  <2> QED
    BY <2>1, <2>2, UpType
<1>2. node = t[i] /\ node \in Nodes
  BY <1>1 DEF Nodes
<1>3. rest = Kept(t, S)
  BY <1>1 DEF Detached
<1>4. MoveSync(t, Dir, Dir) = Sync(rest \o <<node>> \o Kept(t, Children(t)), <<Change("move", t[i].id, Dir)>>)
  BY <1>1 DEF MoveSync
<1>5. S \in SUBSET DOMAIN t /\ Children(t) \in SUBSET DOMAIN t /\ i \in DOMAIN t
      /\ \A j \in DOMAIN t : j \in S \/ j = i \/ j \in Children(t)
  BY <1>1 DEF Children
<1> HIDE DEF i, node, rest, S
<1>6. rest \in Seq(Nodes) /\ <<node>> \in Seq(Nodes) /\ Kept(t, Children(t)) \in Seq(Nodes)
  <2>1. Kept(t, S) \in Seq(Nodes)
    BY <1>5, KeptTimes
  <2>2. Kept(t, Children(t)) \in Seq(Nodes)
    BY <1>5, KeptTimes
  <2>3. <<node>> \in Seq(Nodes)
    BY <1>2
  <2> QED
    BY <1>3, <2>1, <2>2, <2>3
<1>7. /\ Held(rest) = {<<t[j].path, t[j].id>> : j \in S}
      /\ Held(Kept(t, Children(t))) = {<<t[j].path, t[j].id>> : j \in Children(t)}
      /\ Held(<<node>>) = {<<t[i].path, t[i].id>>}
  <2>1. Held(Kept(t, S)) = {<<t[j].path, t[j].id>> : j \in S}
    BY <1>5, HeldKept
  <2>2. Held(Kept(t, Children(t))) = {<<t[j].path, t[j].id>> : j \in Children(t)}
    BY <1>5, HeldKept
  <2>3. Held(<<node>>) = {<<t[i].path, t[i].id>>}
    BY <1>2, HeldOne
  <2> QED
    BY <1>3, <2>1, <2>2, <2>3
<1>8. Held(rest \o <<node>> \o Kept(t, Children(t))) = (Held(rest) \cup Held(<<node>>)) \cup Held(Kept(t, Children(t)))
  <2>1. rest \o <<node>> \in Seq(Nodes)
    BY <1>6
  <2>2. Held(rest \o <<node>>) = Held(rest) \cup Held(<<node>>)
    BY <1>6, HeldConcat
  <2> QED
    BY <1>6, <2>1, <2>2, HeldConcat
<1>9. Held(rest \o <<node>> \o Kept(t, Children(t))) = Held(t)
  BY <1>5, <1>7, <1>8 DEF Held
<1> DEFINE whole == rest \o <<node>> \o Kept(t, Children(t))
           told == <<Change("move", t[i].id, Dir)>>
<1>10. MoveSync(t, Dir, Dir) = Sync(whole, told)
  BY <1>4
<1> HIDE DEF whole, told
<1>11. MoveSync(t, Dir, Dir).tree = whole /\ MoveSync(t, Dir, Dir).changes = told
  BY <1>10 DEF Sync
<1> QED
  BY <1>9, <1>11 DEF i, whole, told

LEMMA MoveHeldFile ==
  ASSUME NEW t \in Seq(Nodes), NEW p \in WatchedFiles, NEW q \in WatchedFiles, Times(t, p) = 1,
         Up(q) = Root \/ Has(t, Up(q))
  PROVE  /\ MoveSync(t, p, q).changes = <<Change("move", t[Find(t, p)].id, q)>>
         /\ Held(MoveSync(t, p, q).tree) = Held(Detached(t, Find(t, p))) \cup {<<q, t[Find(t, p)].id>>}
<1> DEFINE i == Find(t, p)
           node == [t[i] EXCEPT !.path = q]
           rest == Detached(t, i)
<1>1. Has(t, p) /\ i \in DOMAIN t /\ t[i].path = p /\ t[i] \in Nodes
  <2>1. Has(t, p) /\ i \in DOMAIN t /\ t[i].path = p
    BY OnePosition
  <2>2. t[i] \in Nodes
    BY <2>1
  <2> QED
    BY <2>1, <2>2
<1>2. p \in Files /\ q \in Paths /\ p # Dir /\ q \in Files
  BY NoneIsNoFile DEF WatchedFiles, Paths
<1>3. node \in Nodes /\ node.path = q /\ node.id = t[i].id
  BY <1>1, <1>2 DEF Nodes
<1>4. rest \in Seq(Nodes) /\ \A x \in Paths : x # p => Times(rest, x) = Times(t, x)
  BY <1>1, <1>2, DetachedTimes, UpType
<1>5. Up(q) = Root \/ Has(rest, Up(q))
  <2>1. ASSUME Up(q) # Root
        PROVE  Has(rest, Up(q))
    <3>1. Up(q) = Dir /\ Dir \in Paths /\ Times(t, Dir) # 0
      BY <1>2, <2>1, UpType, TimesType
    <3> QED
      BY <1>2, <1>4, <3>1, TimesType
  <2> QED
    BY <2>1
<1> HIDE DEF i, rest
<1>6. MoveSync(t, p, q) = Sync(rest \o <<node>> \o << >>, <<Change("move", t[i].id, q)>>)
  BY <1>1, <1>2, <1>5 DEF MoveSync, i, rest
<1> HIDE DEF node
<1>7. <<node>> \in Seq(Nodes) /\ << >> \in Seq(Nodes) /\ rest \o <<node>> \in Seq(Nodes)
  BY <1>3, <1>4
<1>8. Held(rest \o <<node>> \o << >>) = Held(rest) \cup {<<q, t[i].id>>}
  <2>1. Held(rest \o <<node>>) = Held(rest) \cup {<<q, t[i].id>>}
    <3>1. Held(<<node>>) = {<<q, t[i].id>>}
      BY <1>3, HeldOne
    <3>2. Held(rest \o <<node>>) = Held(rest) \cup Held(<<node>>)
      BY <1>4, <1>7, HeldConcat
    <3> QED
      BY <3>1, <3>2
  <2>2. Held(rest \o <<node>> \o << >>) = Held(rest \o <<node>>) \cup Held(<< >>)
    BY <1>7, HeldConcat
  <2>3. Held(<< >>) = {}
    BY <1>3, HeldOne
  <2> QED
    BY <2>1, <2>2, <2>3
<1> QED
  BY <1>6, <1>8 DEF Sync, i, rest

(* A batch is indexed one change after the other.  What a recursive         *)
(* function is, is shown by the least number for which it would fail.       *)
LEMMA LeastNumber ==
  ASSUME NEW T \in SUBSET Nat, T # {}
  PROVE  \E n \in T : \A m \in T : n <= m
<1>1. PICK n \in T : \A m \in T : ~(<<m, n>> \in OpToRel(<, Nat))
  BY WFMin, NatLessThanWellFounded
<1>2. \A m \in T : ~(m < n)
  BY <1>1 DEF OpToRel
<1> QED
  BY <1>2

IsRun(f, x, q, n) ==
  f = [k \in 0 .. n |-> IF k = 0 THEN x ELSE Indexed(f[k - 1], q[k].change)]

LEMMA RunOf ==
  ASSUME NEW f, NEW x, NEW q, NEW n \in Nat, IsRun(f, x, q, n)
  PROVE  /\ DOMAIN f = 0 .. n /\ f[0] = x
         /\ \A k \in 1 .. n : k - 1 \in 0 .. n /\ f[k] = Indexed(f[k - 1], q[k].change)
<1>1. f = [k \in 0 .. n |-> IF k = 0 THEN x ELSE Indexed(f[k - 1], q[k].change)]
  BY DEF IsRun
<1>2. 0 \in 0 .. n /\ \A k \in 1 .. n : k \in 0 .. n /\ k # 0 /\ k - 1 \in 0 .. n
  OBVIOUS
<1>3. DOMAIN f = 0 .. n
  BY <1>1, Zenon
<1>4. \A k \in 0 .. n : f[k] = IF k = 0 THEN x ELSE Indexed(f[k - 1], q[k].change)
  BY <1>1, Zenon
<1> QED
  BY <1>2, <1>3, <1>4

LEMMA RunExists ==
  ASSUME NEW x, NEW q, NEW l \in Nat
  PROVE  \E f : IsRun(f, x, q, l)
<1> DEFINE T == {n \in Nat : ~ \E f : IsRun(f, x, q, n)}
<1>1. SUFFICES ASSUME T # {}
               PROVE  FALSE
  OBVIOUS
<1>2. PICK n \in T : \A m \in T : n <= m
  <2>1. T \in SUBSET Nat
    OBVIOUS
  <2> HIDE DEF T
  <2> QED
    BY <1>1, <2>1, LeastNumber
<1>3. n \in Nat /\ ~ \E f : IsRun(f, x, q, n)
  OBVIOUS
<1>4. CASE n = 0
  <2> DEFINE f == [k \in 0 .. 0 |-> x]
  <2>1. f = [k \in 0 .. 0 |-> IF k = 0 THEN x ELSE Indexed(f[k - 1], q[k].change)]
    OBVIOUS
  <2>2. IsRun(f, x, q, 0)
    BY <2>1 DEF IsRun
  <2> QED
    BY <1>3, <1>4, <2>2
<1>5. CASE n # 0
  <2>1. n - 1 \in Nat /\ ~(n <= n - 1)
    BY <1>3, <1>5
  <2>2. n - 1 \notin T
    BY <1>2, <2>1
  <2>3. PICK f : IsRun(f, x, q, n - 1)
    BY <2>1, <2>2
  <2> HIDE DEF T
  <2>4. /\ f[0] = x
        /\ \A k \in 1 .. (n - 1) : f[k] = Indexed(f[k - 1], q[k].change)
    BY <2>1, <2>3, RunOf
  <2> DEFINE last == Indexed(f[n - 1], q[n].change)
             g == [k \in 0 .. n |-> IF k = n THEN last ELSE f[k]]
  <2>5. ASSUME NEW k \in 0 .. n
        PROVE  g[k] = IF k = 0 THEN x ELSE Indexed(g[k - 1], q[k].change)
    <3>1. CASE k = 0
      BY <1>3, <1>5, <2>4, <3>1
    <3>2. CASE k # 0
      <4>1. k - 1 \in 0 .. n /\ k - 1 # n
        BY <1>3, <3>2
      <4>2. g[k - 1] = f[k - 1]
        BY <4>1
      <4>3. CASE k = n
        BY <3>2, <4>2, <4>3
      <4>4. CASE k # n
        <5>1. k \in 1 .. (n - 1) /\ g[k] = f[k]
          BY <1>3, <3>2, <4>4
        <5> QED
          BY <2>4, <3>2, <4>2, <5>1
      <4> QED
        BY <4>3, <4>4
    <3> QED
      BY <3>1, <3>2
  <2>6. g = [k \in 0 .. n |-> IF k = n THEN last ELSE f[k]]
    OBVIOUS
  <2> HIDE DEF g, last
  <2>7. DOMAIN g = 0 .. n /\ g = [k \in DOMAIN g |-> g[k]]
    BY <2>6
  <2>8. g = [k \in 0 .. n |-> IF k = 0 THEN x ELSE Indexed(g[k - 1], q[k].change)]
    BY <2>5, <2>7
  <2>9. IsRun(g, x, q, n)
    BY <2>8 DEF IsRun
  <2> QED
    BY <1>3, <2>9
<1> QED
  BY <1>4, <1>5

LEMMA RunsAgree ==
  ASSUME NEW f, NEW g, NEW x, NEW q, NEW r, NEW n \in Nat, NEW m \in Nat, n <= m,
         IsRun(f, x, q, n), IsRun(g, x, r, m), \A k \in 1 .. n : q[k] = r[k]
  PROVE  f[n] = g[n]
<1> DEFINE T == {k \in 0 .. n : f[k] # g[k]}
<1>1. SUFFICES ASSUME T # {}
               PROVE  FALSE
  <2>1. n \in 0 .. n
    OBVIOUS
  <2> QED
    BY <2>1
<1>2. PICK k \in T : \A j \in T : k <= j
  <2>1. T \in SUBSET Nat
    OBVIOUS
  <2> HIDE DEF T
  <2> QED
    BY <1>1, <2>1, LeastNumber
<1>3. k \in 0 .. n /\ f[k] # g[k]
  OBVIOUS
<1>4. /\ f[0] = x /\ \A j \in 1 .. n : f[j] = Indexed(f[j - 1], q[j].change)
      /\ g[0] = x /\ \A j \in 1 .. m : g[j] = Indexed(g[j - 1], r[j].change)
  BY RunOf
<1>5. k # 0
  BY <1>3, <1>4
<1>6. k \in 1 .. n /\ k \in 1 .. m /\ k - 1 \in 0 .. n /\ ~(k <= k - 1)
  BY <1>3, <1>5
<1>7. f[k - 1] = g[k - 1]
  BY <1>2, <1>6
<1>8. q[k] = r[k]
  BY <1>6
<1> HIDE DEF T
<1> QED
  BY <1>3, <1>4, <1>6, <1>7, <1>8

LEMMA IndexedAllIs ==
  ASSUME NEW x, NEW q, NEW l \in Nat, l = Len(q)
  PROVE  \E f : IsRun(f, x, q, l) /\ IndexedAll(x, q) = f[l]
<1>1. IndexedAll(x, q) = (CHOOSE f : IsRun(f, x, q, Len(q)))[Len(q)]
  BY Zenon DEF IndexedAll, IsRun
<1>2. \E f : IsRun(f, x, q, l)
  BY RunExists
<1>3. IsRun(CHOOSE f : IsRun(f, x, q, l), x, q, l)
  BY <1>2, Zenon
<1> QED
  BY <1>1, <1>3, Zenon

LEMMA NothingIndexed ==
  ASSUME NEW x
  PROVE  IndexedAll(x, << >>) = x
<1>1. Len(<< >>) = 0 /\ 0 \in Nat
  OBVIOUS
<1>2. PICK f : IsRun(f, x, << >>, 0) /\ IndexedAll(x, << >>) = f[0]
  BY <1>1, IndexedAllIs
<1> QED
  BY <1>1, <1>2, RunOf

(* A change more is indexed after the others.                               *)
LEMMA OneMoreIndexed ==
  ASSUME NEW x, NEW q \in Seq(Messages), NEW m \in Messages
  PROVE  IndexedAll(x, q \o <<m>>) = Indexed(IndexedAll(x, q), m.change)
<1> DEFINE r == q \o <<m>>
           l == Len(q)
<1>1. /\ l \in Nat /\ Len(r) = l + 1 /\ l + 1 \in Nat /\ r[l + 1] = m
      /\ \A k \in 1 .. l : r[k] = q[k]
  OBVIOUS
<1>2. l = Len(q)
  OBVIOUS
<1> HIDE DEF r, l
<1>3. PICK f : IsRun(f, x, q, l) /\ IndexedAll(x, q) = f[l]
  BY <1>1, <1>2, IndexedAllIs
<1>4. PICK g : IsRun(g, x, r, l + 1) /\ IndexedAll(x, r) = g[l + 1]
  BY <1>1, IndexedAllIs
<1>5. f[l] = g[l]
  <2>1. l <= l + 1
    BY <1>1
  <2> QED
    BY <1>1, <1>3, <1>4, <2>1, RunsAgree
<1>6. g[l + 1] = Indexed(g[l], m.change)
  <2>1. l + 1 \in 1 .. (l + 1) /\ (l + 1) - 1 = l
    BY <1>1
  <2> QED
    BY <1>1, <1>4, <2>1, RunOf
<1> QED
  BY <1>3, <1>4, <1>5, <1>6 DEF r

Clean == blur = {}
Caught == IndexedAll([names |-> index, ids |-> idMap], inbox[Indexer])

(* As long as files are only changed from outside, no deletion is pending   *)
(* twice or of a path that is seen.                                         *)
Uncrossed ==
  /\ \A i, j \in DOMAIN pending : i # j => pending[i] # pending[j]
  /\ Pending \cap seen = {}
CleanInv == Clean => source = "outside" /\ Still /\ Uncrossed

(* The indexer is told of changes from when it subscribes; until the tree   *)
(* is built the index is empty.                                             *)
ToldInv ==
  /\ Indexer \notin subscribers => inbox[Indexer] = << >>
  /\ stage = "watching" => Indexer \in subscribers
BuiltInv ==
  /\ Own(scan)
  /\ rebuild # None => Own(rebuild.scan)
  /\ stage \in {"shallow", "scanning"} => index = [n \in Names |-> None] /\ idMap = [f \in Files |-> None]

(* The index, once it has caught up, agrees with the tree.                  *)
Follows(x, t) == Known(Held(t)) /\ OneEach(Held(t)) /\ Agrees(x, Held(t))
AgreeInv == Clean /\ stage \notin {"shallow", "scanning"} => Follows(Caught, tree)

IndexInv == CleanInv /\ ToldInv /\ BuiltInv /\ AgreeInv

(* The invariant of the index implies the property.                         *)
LEMMA IndexInvImplies == TreeTypeOK /\ IndexInv => IndexIsTree
<1> DEFINE present == {f \in Files \ Ignored : Has(tree, f)}
<1> SUFFICES ASSUME TreeTypeOK, IndexInv, stage = "watching", Clean, inbox[Indexer] = << >>
             PROVE  /\ \A n \in DOMAIN index : index[n] \in present \cup Unwatched \cup {None}
                    /\ \A f \in {f \in present : \A g \in Files \ {f} : NameOf[g] # NameOf[f]} : index[NameOf[f]] = f
  BY DEF IndexIsTree, Clean
<1> DEFINE x == [names |-> index, ids |-> idMap]
<1>1. Caught = x
  BY NothingIndexed DEF Caught
<1>2. Agrees(x, Held(tree))
  BY <1>1 DEF IndexInv, AgreeInv, Follows
<1>3. x.names = index
  OBVIOUS
<1> HIDE DEF x
<1>4. DOMAIN index = Names /\ tree \in Seq(Nodes)
  BY <1>2, <1>3 DEF Agrees, Indexes, TreeTypeOK
<1>5. \A f \in Files : f \notin Ignored <=> f \in WatchedFiles
  BY DEF WatchedFiles, Watched, Paths
<1>6. \A f : In(Held(tree), f) <=> Has(tree, f)
  BY <1>4, HeldIs
<1>7. ASSUME NEW n \in DOMAIN index
      PROVE  index[n] \in present \cup Unwatched \cup {None}
  BY <1>2, <1>3, <1>4, <1>5, <1>6 DEF Agrees, WatchedFiles
<1>8. ASSUME NEW f \in present, \A g \in Files \ {f} : NameOf[g] # NameOf[f]
      PROVE  index[NameOf[f]] = f
  BY <1>2, <1>3, <1>5, <1>6, <1>8 DEF Agrees, Alone
<1> QED
  BY <1>7, <1>8

(* Steps after which the index and the tree are what they were              *)
LEMMA IndexKept ==
  ASSUME IndexInv, UNCHANGED <<tree, index, idMap, scan, rebuild, stage>>, inbox'[Indexer] = inbox[Indexer],
         Indexer \in subscribers' <=> Indexer \in subscribers, blur \subseteq blur', CleanInv'
  PROVE  IndexInv'
<1>1. Clean' => Clean
  BY DEF Clean
<1>2. ToldInv' /\ BuiltInv'
  BY DEF IndexInv, ToldInv, BuiltInv, Own, Held
<1>3. Caught' = Caught
  BY DEF Caught
<1>4. AgreeInv'
  BY <1>1, <1>3 DEF IndexInv, AgreeInv, Follows, Held
<1> QED
  BY <1>2, <1>4 DEF IndexInv

LEMMA IndexNotPromised ==
  ASSUME IndexInv, UNCHANGED <<index, idMap, scan, rebuild, stage, inbox, subscribers>>, blur' # {}
  PROVE  IndexInv'
<1>1. ToldInv' /\ BuiltInv'
  BY DEF IndexInv, ToldInv, BuiltInv, Own, Held
<1> QED
  BY <1>1 DEF IndexInv, CleanInv, AgreeInv, Clean

LEMMA CleanKept ==
  ASSUME IndexInv, UNCHANGED <<pending, seen, call>>, source' \in {source, "outside"}, blur \subseteq blur'
  PROVE  CleanInv'
BY DEF IndexInv, CleanInv, Clean, Uncrossed, Still, Pending

(* Operations are not promised anything.                                    *)
LEMMA CallerIndex ==
  ASSUME IndexInv, NEW u \in Callers, NEW op, NEW p, NEW q,
         Begin(u, op, p, q) \/ Perform(u) \/ PerformFails(u) \/ Answer(u)
  PROVE  IndexInv'
<1>1. CASE Begin(u, op, p, q)
  <2>1. UNCHANGED <<index, idMap, scan, rebuild, stage, inbox, subscribers>> /\ blur' # {}
    BY <1>1 DEF Begin, Called, building, events, indexing
  <2> QED
    BY <2>1, IndexNotPromised
<1>2. CASE Perform(u) \/ PerformFails(u) \/ Answer(u)
  <2>1. /\ UNCHANGED <<index, idMap, scan, rebuild, stage, inbox, subscribers>>
        /\ blur \subseteq blur' /\ call[u] # Idle
    BY <1>2 DEF Perform, PerformFails, Answer, building, events, indexing
  <2>2. blur # {}
    BY <2>1 DEF IndexInv, CleanInv, Clean, Still
  <2> QED
    BY <2>1, <2>2, IndexNotPromised
<1> QED
  BY <1>1, <1>2

LEMMA EnvironmentIndex ==
  ASSUME IndexInv, NEW d, Outside(d)
  PROVE  IndexInv'
<1>1. /\ UNCHANGED <<tree, index, idMap, scan, rebuild, stage, inbox, subscribers, pending, seen, call>>
      /\ source' = "outside" /\ blur \subseteq blur'
  BY DEF Outside, ChangedOutside, building, events, indexing
<1>2. CleanInv'
  BY <1>1, CleanKept
<1> QED
  BY <1>1, <1>2, IndexKept

(* What the indexer is told                                                 *)
LEMMA ToldOfOne ==
  ASSUME ServingTypeOK, NEW s, NEW more, Follow(s, more), NEW c \in Changes, s.changes = <<c>>,
         Indexer \in subscribers, UNCHANGED indexing
  PROVE  /\ Caught' = Indexed(Caught, c) /\ subscribers' = subscribers
         /\ tree' = s.tree /\ blur' = blur \cup more \cup Reused(s)
<1> DEFINE numbered == [i \in DOMAIN s.changes |-> [no |-> announced + i, change |-> s.changes[i]]]
           m == [no |-> announced + 1, change |-> c]
<1>1. Announce(s.changes) /\ tree' = s.tree /\ blur' = blur \cup more \cup Reused(s)
  BY DEF Follow, Apply
<1>2. numbered = <<m>>
  OBVIOUS
<1>3. m \in Messages /\ m.change = c
  BY DEF Messages, ServingTypeOK
<1>4. Indexer \in Subscribers
  BY DEF Subscribers
<1>5. subscribers' = subscribers
      /\ inbox' = [z \in Subscribers |-> IF z \in subscribers THEN inbox[z] \o numbered ELSE inbox[z]]
  BY <1>1 DEF Announce
<1> HIDE DEF numbered, m
<1>6. inbox'[Indexer] = inbox[Indexer] \o <<m>> /\ inbox[Indexer] \in Seq(Messages)
  BY <1>2, <1>4, <1>5 DEF ServingTypeOK
<1>7. index' = index /\ idMap' = idMap
  BY DEF indexing
<1> DEFINE x == [names |-> index, ids |-> idMap]
<1>8. Caught = IndexedAll(x, inbox[Indexer]) /\ Caught' = IndexedAll(x, inbox'[Indexer])
  BY <1>7 DEF Caught
<1> HIDE DEF x
<1>9. IndexedAll(x, inbox[Indexer] \o <<m>>) = Indexed(IndexedAll(x, inbox[Indexer]), m.change)
  BY <1>3, <1>6, OneMoreIndexed
<1> QED
  BY <1>1, <1>3, <1>5, <1>6, <1>8, <1>9

LEMMA ToldOfNone ==
  ASSUME ServingTypeOK, NEW s, NEW more, Follow(s, more), s.changes = << >>
  PROVE  /\ inbox'[Indexer] = inbox[Indexer] /\ subscribers' = subscribers
         /\ tree' = s.tree /\ blur \cup more \subseteq blur'
<1> DEFINE numbered == [i \in DOMAIN s.changes |-> [no |-> announced + i, change |-> s.changes[i]]]
<1>1. Announce(s.changes) /\ tree' = s.tree /\ blur \cup more \subseteq blur'
  BY DEF Follow, Apply
<1>2. numbered = << >>
  OBVIOUS
<1>3. Indexer \in Subscribers /\ inbox[Indexer] \in Seq(Messages)
  BY DEF Subscribers, ServingTypeOK
<1>4. CASE subscribers = {}
  BY <1>1, <1>4 DEF Announce, events
<1>5. CASE subscribers # {}
  <2>1. subscribers' = subscribers
        /\ inbox' = [z \in Subscribers |-> IF z \in subscribers THEN inbox[z] \o numbered ELSE inbox[z]]
    BY <1>1, <1>5 DEF Announce
  <2> HIDE DEF numbered
  <2>2. inbox[Indexer] \o << >> = inbox[Indexer]
    BY <1>3
  <2> QED
    BY <1>1, <1>2, <1>3, <2>1, <2>2
<1> QED
  BY <1>4, <1>5

(* No node was made under an id that another has.                           *)
LEMMA NotReused ==
  ASSUME NEW s, Reused(s) = {}
  PROVE  OneEach(Held(s.tree))
<1>1. \A i, j \in DOMAIN s.tree : s.tree[i].id = s.tree[j].id => i = j
  BY DEF Reused
<1>2. ASSUME NEW m \in Held(s.tree), NEW n \in Held(s.tree), m[2] = n[2]
      PROVE  m = n
  <2>1. PICK i \in DOMAIN s.tree : m = <<s.tree[i].path, s.tree[i].id>>
    BY DEF Held
  <2>2. PICK j \in DOMAIN s.tree : n = <<s.tree[j].path, s.tree[j].id>>
    BY DEF Held
  <2> QED
    BY <1>1, <1>2, <2>1, <2>2
<1> QED
  BY <1>2 DEF OneEach

(* While no deletion is pending twice a path is in the tree at most once.   *)
LEMMA CleanTimes ==
  ASSUME TreeTypeOK, Uncrossed, Counted, NEW p \in Watched
  PROVE  /\ Times(tree, p) \in {0, 1}
         /\ Times(tree, p) = 1 <=> p \in seen \cup Pending
         /\ Times(tree, p) = 1 <=> Has(tree, p)
<1>1. Times(tree, p) = One(p \in seen) + Due(pending, p) /\ Due(pending, p) \in Nat
      /\ (Due(pending, p) = 0 <=> p \notin Pending) /\ (Times(tree, p) # 0 <=> Has(tree, p))
  BY CountTypes DEF Counted
<1>2. p \in Pending => Due(pending, p) = 1
  <2> SUFFICES ASSUME p \in Pending
               PROVE  Due(pending, p) = 1
    OBVIOUS
  <2>1. PICK i \in DOMAIN pending : pending[i] = p
    BY DEF Pending
  <2>2. {j \in DOMAIN pending : pending[j] = p} = {i}
    BY <2>1 DEF Uncrossed
  <2> QED
    BY <2>2, FS_Singleton DEF Due
<1>3. p \in Pending => p \notin seen
  BY DEF Uncrossed
<1> QED
  BY <1>1, <1>2, <1>3 DEF One

(* A change that was announced, and the tree it left                        *)
LEMMA AgreeAfter ==
  ASSUME IndexInv, UNCHANGED <<index, idMap, scan, rebuild, stage, subscribers>>, Indexer \in subscribers,
         CleanInv', Clean' => Follows(Caught', tree')
  PROVE  IndexInv'
<1>1. BuiltInv'
  BY DEF IndexInv, BuiltInv, Own, Held
<1>2. ToldInv'
  BY DEF IndexInv, ToldInv
<1>3. AgreeInv'
  BY DEF AgreeInv
<1> QED
  BY <1>1, <1>2, <1>3 DEF IndexInv

(* What is true when the watcher reports anything in a clean history        *)
LEMMA CleanRuns ==
  ASSUME ExplorerTypeOK, TreeInv, IndexInv, Clean, watch = "on", seen # disk \/ pending # << >>
  PROVE  /\ Counted /\ Sorted /\ Uncrossed /\ Indexer \in subscribers /\ stage = "watching"
         /\ Known(Held(tree)) /\ OneEach(Held(tree)) /\ Agrees(Caught, Held(tree))
<1>1. Promised
  BY DEF Clean, Promised
<1>2. Running
  BY <1>1 DEF TreeInv, StartInv, Running
<1>3. source = "outside" /\ Uncrossed /\ stage = "watching" /\ Indexer \in subscribers
  BY <1>2 DEF IndexInv, CleanInv, ToldInv, Running
<1>4. Counted /\ Sorted
  BY <1>1, <1>2, <1>3 DEF TreeInv, OutsideInv
<1>5. Follows(Caught, tree)
  BY <1>3 DEF IndexInv, AgreeInv
<1> QED
  BY <1>3, <1>4, <1>5 DEF Follows

LEMMA PendingOnlyRuns ==
  ASSUME ExplorerTypeOK, TreeInv, Clean, pending # << >>
  PROVE  watch = "on"
<1>1. Promised
  BY DEF Clean, Promised
<1> QED
  BY <1>1 DEF TreeInv, StartInv, Running

(* A change of a directory is none of the index.                           *)
LEMMA DirectoryIndexed ==
  ASSUME NEW x, NEW type, NEW q
  PROVE  Indexed(x, Change(type, Dir, q)) = x
BY DEF Indexed, Change

(* A new path is added to the tree.                                         *)
LEMMA AddedFollows ==
  ASSUME NEW t \in Seq(Nodes), NEW x, NEW p \in Watched, Follows(x, t), ~Has(t, p), Up(p) = Root \/ Has(t, Up(p)),
         Reused(AddSync(t, p)) = {}
  PROVE  Follows(Indexed(x, Change("add", p, p)), AddSync(t, p).tree)
<1> DEFINE h == Held(t)
           g == Held(AddSync(t, p).tree)
<1>1. p \in Paths
  BY WatchedPaths
<1>2. g = h \cup {<<p, p>>} /\ OneEach(g)
  BY <1>1, AddHeld, NotReused
<1>3. h \in SUBSET (Paths \X Paths) /\ ~In(h, p) /\ Known(h) /\ OneEach(h) /\ Agrees(x, h) /\ x \in Indexes
  BY HeldIs DEF Follows, Agrees
<1> HIDE DEF g, h
<1>4. g \in SUBSET (Paths \X Paths)
  BY <1>1, <1>2, <1>3
<1>5. Known(g)
  BY <1>2, <1>3 DEF Known
<1>6. CASE p = Dir
  <2>1. Indexed(x, Change("add", p, p)) = x
    BY <1>6, DirectoryIndexed
  <2>2. \A m \in Paths \X Paths : m[1] \in WatchedFiles => (m \in h <=> m \in g)
    BY <1>2, <1>6, NoneIsNoFile DEF WatchedFiles
  <2>3. Agrees(x, g)
    BY <1>3, <1>4, <2>2, AgreesOfFiles
  <2> QED
    BY <1>2, <1>5, <2>1, <2>3 DEF Follows, g
<1>7. CASE p # Dir
  <2>1. p \in WatchedFiles
    BY <1>1, <1>7 DEF WatchedFiles, Paths
  <2>2. Agrees(Indexed(x, Change("add", p, p)), g)
    BY <1>2, <1>3, <2>1, EntryAdded
  <2> QED
    BY <1>2, <1>5, <2>2 DEF Follows, g
<1> QED
  BY <1>6, <1>7

(* The id of a node that is in a tree once                                  *)
LEMMA IdOfFound ==
  ASSUME NEW t \in Seq(Nodes), NEW p \in Watched, Times(t, p) = 1, Known(Held(t))
  PROVE  /\ t[Find(t, p)].id \in Paths /\ (t[Find(t, p)].id = Dir <=> p = Dir) /\ t[Find(t, p)].id \in Watched
         /\ <<p, t[Find(t, p)].id>> \in Held(t)
<1> DEFINE i == Find(t, p)
<1>1. i \in DOMAIN t /\ t[i].path = p
  BY OnePosition
<1> HIDE DEF i
<1>2. <<t[i].path, t[i].id>> \in Held(t) /\ <<p, t[i].id>> \in Held(t)
  BY <1>1, HeldIs
<1>3. t[i].id \in Paths
  BY <1>2, HeldIs
<1>4. /\ <<p, t[i].id>>[1] \in Watched <=> <<p, t[i].id>>[2] \in Watched
      /\ <<p, t[i].id>>[1] = Dir <=> <<p, t[i].id>>[2] = Dir
  BY <1>2 DEF Known
<1> QED
  BY <1>2, <1>3, <1>4 DEF i

(* A path is taken out of the tree.                                         *)
LEMMA RemovedFollows ==
  ASSUME NEW t \in Seq(Nodes), NEW x, NEW p \in Watched, Follows(x, t), Times(t, p) = 1,
         p = Dir => \A f \in WatchedFiles : Up(f) = Dir => Times(t, f) = 0
  PROVE  Follows(Indexed(x, Change("delete", t[Find(t, p)].id, p)), RemoveSync(t, p).tree)
<1> DEFINE h == Held(t)
           g == Held(RemoveSync(t, p).tree)
           e == t[Find(t, p)].id
<1>1. Has(t, p) /\ p \in Paths
  BY OnePosition, WatchedPaths
<1>2. g = Held(Detached(t, Find(t, p)))
  BY <1>1, RemoveHeld
<1>3. h \in SUBSET (Paths \X Paths) /\ Known(h) /\ OneEach(h) /\ Agrees(x, h)
  BY HeldIs DEF Follows
<1>4. e \in Paths /\ (e = Dir <=> p = Dir)
  BY <1>3, IdOfFound
<1>5. /\ p \in Files => Without(g, h, p, e)
      /\ p = Dir => \A m \in Paths \X Paths : m[1] \in WatchedFiles => (m \in h <=> m \in g)
  BY <1>2, HeldDetached
<1>6. g \subseteq h
  <2>1. DOMAIN t \ ({Find(t, p)} \cup (IF t[Find(t, p)].path = Dir THEN Children(t) ELSE {})) \in SUBSET DOMAIN t
    OBVIOUS
  <2> DEFINE S == DOMAIN t \ ({Find(t, p)} \cup (IF t[Find(t, p)].path = Dir THEN Children(t) ELSE {}))
  <2>2. g = Held(Kept(t, S))
    BY <1>2 DEF Detached
  <2> HIDE DEF S, g
  <2>3. S \in SUBSET DOMAIN t
    BY <2>1 DEF S
  <2>4. g = {<<t[j].path, t[j].id>> : j \in S}
    BY <2>2, <2>3, HeldKept
  <2> QED
    BY <2>3, <2>4 DEF Held
<1> HIDE DEF g, h, e
<1>7. Known(g) /\ OneEach(g) /\ g \in SUBSET (Paths \X Paths)
  BY <1>3, <1>6 DEF Known, OneEach
<1>8. Agrees(Indexed(x, Change("delete", e, p)), g)
  <2>1. CASE p = Dir
    <3>1. Agrees(x, g)
      BY <1>3, <1>5, <1>7, <2>1, AgreesOfFiles
    <3>2. Indexed(x, Change("delete", e, p)) = x
      BY <1>4, <2>1, DirectoryIndexed
    <3> QED
      BY <3>1, <3>2
  <2>2. CASE p # Dir
    <3>1. p \in Files /\ p \in WatchedFiles
      BY <1>1, <2>2 DEF WatchedFiles, Paths
    <3> QED
      BY <1>3, <1>5, <3>1, EntryRemoved
  <2> QED
    BY <2>1, <2>2
<1> QED
  BY <1>7, <1>8 DEF Follows, g, e

(* A node goes to another path.                                             *)
LEMMA MovedFollows ==
  ASSUME NEW t \in Seq(Nodes), NEW x, NEW p \in Watched, NEW q \in Watched, SameKind(p, q),
         Follows(x, t), Times(t, p) = 1, Up(q) = Root \/ Has(t, Up(q)), Reused(MoveSync(t, p, q)) = {}
  PROVE  /\ Follows(Indexed(x, Change("move", t[Find(t, p)].id, q)), MoveSync(t, p, q).tree)
         /\ MoveSync(t, p, q).changes = <<Change("move", t[Find(t, p)].id, q)>>
<1> DEFINE h == Held(t)
           g == Held(MoveSync(t, p, q).tree)
           r == Held(Detached(t, Find(t, p)))
           e == t[Find(t, p)].id
<1>1. p \in Paths /\ q \in Paths /\ (p = Dir <=> q = Dir)
  BY WatchedPaths DEF SameKind
<1>2. h \in SUBSET (Paths \X Paths) /\ Known(h) /\ OneEach(h) /\ Agrees(x, h)
  BY HeldIs DEF Follows
<1>3. e \in Paths /\ (e = Dir <=> p = Dir) /\ e \in Watched
  BY <1>2, IdOfFound
<1>4. OneEach(g)
  BY NotReused
<1>5. CASE p = Dir
  <2>1. q = Dir /\ g = h /\ MoveSync(t, p, q).changes = <<Change("move", e, q)>>
    BY <1>1, <1>5, MoveHeldDirectory
  <2>2. Indexed(x, Change("move", e, q)) = x
    BY <1>3, <1>5, DirectoryIndexed
  <2> HIDE DEF g, h, e
  <2>3. Known(g) /\ Agrees(Indexed(x, Change("move", e, q)), g)
    BY <1>2, <2>1, <2>2
  <2> QED
    BY <1>4, <2>1, <2>3 DEF Follows, g, e
<1>6. CASE p # Dir
  <2>1. p \in Files /\ p \in WatchedFiles /\ q \in WatchedFiles
    BY <1>1, <1>6 DEF WatchedFiles, Paths
  <2>2. g = r \cup {<<q, e>>} /\ MoveSync(t, p, q).changes = <<Change("move", e, q)>>
    BY <2>1, MoveHeldFile
  <2>3. Without(r, h, p, e)
    BY <2>1, HeldDetached
  <2> HIDE DEF g, h, e, r
  <2>4. Agrees(Indexed(x, Change("move", e, q)), g)
    BY <1>2, <2>1, <2>2, <2>3, EntryMoved
  <2>5. Known(g)
    <3>1. ASSUME NEW m \in g
          PROVE  (m[1] \in Watched <=> m[2] \in Watched) /\ (m[1] = Dir <=> m[2] = Dir)
      <4>1. CASE m = <<q, e>>
        BY <1>1, <1>3, <4>1
      <4>2. CASE m \in h
        BY <1>2, <4>2 DEF Known
      <4> QED
        BY <2>2, <2>3, <4>1, <4>2 DEF Without
    <3> QED
      BY <3>1 DEF Known
  <2> QED
    BY <1>4, <2>2, <2>4, <2>5 DEF Follows, g, e
<1> QED
  BY <1>5, <1>6

(* A new path is added, or a pending one goes to it; then the index follows.*)
LEMMA SeesAddIndex ==
  ASSUME ExplorerTypeOK, TreeInv, IndexInv, NEW p \in Paths, SeesAdd(p)
  PROVE  IndexInv'
<1>0. TreeTypeOK /\ ServingTypeOK /\ tree \in Seq(Nodes)
  BY DEF ExplorerTypeOK, TreeTypeOK
<1>1. /\ p \in disk /\ p \notin seen /\ seen' = seen \cup {p} /\ watch = "on"
      /\ Up(p) \in seen \cup {Root}
      /\ UNCHANGED <<disk, stage, scan, rebuild, watch, waiting, call, source, index, idMap>>
  BY SeesAddCases DEF Noticed, building, indexing
<1>2. UNCHANGED indexing
  BY <1>1 DEF indexing
<1>3. CASE ~Clean'
  <2>1. PICK s, more : Follow(s, more)
    BY SeesAddCases
  <2>2. subscribers' = subscribers
        /\ (Indexer \notin subscribers => inbox'[Indexer] = inbox[Indexer])
    BY <2>1 DEF Follow, Announce, events, Subscribers
  <2>3. ToldInv' /\ BuiltInv'
    BY <1>1, <2>2 DEF IndexInv, ToldInv, BuiltInv, Own, Held
  <2> QED
    BY <1>3, <2>3 DEF IndexInv, CleanInv, AgreeInv
<1>4. CASE Clean'
  <2>1. Clean /\ Promised'
    <3>1. PICK s, more : Follow(s, more)
      BY SeesAddCases
    <3> QED
      BY <1>4, <3>1 DEF Follow, Clean, Promised
  <2>2. /\ Counted /\ Uncrossed /\ Indexer \in subscribers /\ stage = "watching"
        /\ Follows(Caught, tree) /\ source = "outside" /\ Still
    <3>1. seen # disk
      BY <1>1
    <3> QED
      BY <1>1, <2>1, <3>1, CleanRuns DEF Follows, IndexInv, CleanInv
  <2>3. Still' /\ source' = "outside"
    BY <1>1, <2>2 DEF Still
  <2>4. Up(p) = Root \/ Has(tree, Up(p))
    <3>1. CASE Up(p) \in seen
      <4>1. Up(p) = Dir /\ Dir \in Watched
        <5>1. Up(p) \in {Root, Dir} /\ Root \notin Paths
          BY UpType
        <5>2. seen \subseteq Paths
          BY <1>0 DEF TreeTypeOK
        <5> QED
          BY <3>1, <5>1, <5>2, WatchedPaths
      <4> QED
        BY <1>0, <2>2, <3>1, <4>1, CleanTimes
    <3> QED
      BY <1>1, <3>1
  <2>5. CASE SameAs(p) = {}
    <3>1. /\ pending' = pending
          /\ Follow(IF p \in Ignored THEN Sync(tree, << >>) ELSE AddSync(tree, p), {})
      BY <2>5, SeesAddCases
    <3>2. p \notin Pending
      BY <2>5 DEF SameAs, SameKind, Pending
    <3>3. Uncrossed'
      BY <1>1, <2>2, <3>1, <3>2 DEF Uncrossed, Pending
    <3>4. CleanInv'
      BY <2>3, <3>3 DEF CleanInv
    <3>5. CASE p \in Ignored
      <4> DEFINE s == Sync(tree, << >>)
      <4>1. Follow(s, {}) /\ s.changes = << >> /\ s.tree = tree
        BY <3>1, <3>5 DEF Sync
      <4> HIDE DEF s
      <4>2. inbox'[Indexer] = inbox[Indexer] /\ subscribers' = subscribers /\ tree' = tree /\ blur \subseteq blur'
        BY <1>0, <4>1, ToldOfNone
      <4> QED
        BY <1>1, <3>4, <4>2, IndexKept
    <3>6. CASE p \notin Ignored
      <4> DEFINE s == AddSync(tree, p)
                 c == Change("add", p, p)
      <4>1. p \in Watched /\ ~Has(tree, p)
        <5>1. p \in Watched
          BY <3>6, WatchedPaths
        <5> QED
          BY <1>0, <1>1, <2>2, <3>2, <5>1, CleanTimes
      <4>2. Follow(s, {}) /\ s.changes = <<c>> /\ c \in Changes
        BY <1>0, <2>4, <3>1, <3>6, <4>1, AddHeld DEF Change, Changes
      <4>3. Caught' = Indexed(Caught, c) /\ subscribers' = subscribers /\ tree' = s.tree /\ Reused(s) \subseteq blur'
        <5> HIDE DEF s, c
        <5> QED
          BY <1>0, <1>2, <2>2, <4>2, ToldOfOne
      <4>4. Reused(s) = {}
        BY <1>4, <4>3 DEF Clean
      <4>5. Follows(Indexed(Caught, c), s.tree)
        BY <1>0, <2>2, <2>4, <4>1, <4>4, AddedFollows
      <4> HIDE DEF s, c
      <4>6. Follows(Caught', tree')
        BY <4>3, <4>5
      <4> QED
        BY <1>1, <2>2, <3>4, <4>3, <4>6, AgreeAfter
    <3> QED
      BY <3>5, <3>6
  <2>6. CASE SameAs(p) # {}
    <3> DEFINE k == First(p)
               more == IF \E i \in SameAs(p) \ {k} : pending[i] = p THEN {"crossed"} ELSE {}
    <3>1. /\ pending' = RemoveAt(pending, k)
          /\ IF p \in Ignored THEN Follow(Sync(tree, << >>), {"swallowed"})
             ELSE Follow(MoveSync(tree, pending[k], p), more)
      BY <2>6, SeesAddCases
    <3>2. k \in DOMAIN pending /\ SameKind(pending[k], p) /\ pending[k] \in Watched
      BY <1>0, <2>6, FirstPending
    <3>3. p \notin Ignored
      BY <1>4, <3>1 DEF Clean, Follow
    <3>4. p \in Watched
      BY <3>3, WatchedPaths
    <3>5. Follow(MoveSync(tree, pending[k], p), more)
      BY <3>1, <3>3
    <3>6. more = {}
      BY <1>4, <3>5 DEF Clean, Follow
    <3>7. Pending' = Pending \ {pending[k]}
          /\ \A i, j \in DOMAIN pending' : i # j => pending'[i] # pending'[j]
      BY <1>0, <2>2, <3>1, <3>2, PendingWithout DEF Uncrossed
    <3>8. p \notin Pending'
      <4>1. ASSUME NEW i \in DOMAIN pending, pending[i] = p
            PROVE  i = k
        <5>1. i \in SameAs(p)
          BY <4>1 DEF SameAs, SameKind
        <5> QED
          BY <3>6, <4>1, <5>1
      <4>2. p \in Pending => pending[k] = p
        BY <4>1 DEF Pending
      <4> QED
        BY <3>7, <4>2
    <3>9. Uncrossed'
      <4>1. Pending' \cap seen' = {}
        BY <1>1, <2>2, <3>7, <3>8 DEF Uncrossed
      <4> QED
        BY <3>7, <4>1 DEF Uncrossed
    <3>10. CleanInv'
      BY <2>3, <3>9 DEF CleanInv
    <3>11. PICK q : q = pending[k]
      OBVIOUS
    <3> DEFINE s == MoveSync(tree, q, p)
               c == Change("move", tree[Find(tree, q)].id, p)
    <3>12. q \in Watched /\ SameKind(q, p) /\ Times(tree, q) = 1
      <4>1. q \in Pending /\ q \in Watched
        BY <3>2, <3>11 DEF Pending
      <4> QED
        BY <1>0, <2>2, <3>2, <3>11, <4>1, CleanTimes
    <3>13. Follow(s, {})
      BY <3>5, <3>6, <3>11
    <3>14. Reused(s) = {}
      BY <1>4, <3>13 DEF Clean, Follow
    <3>15. Follows(Indexed(Caught, c), s.tree) /\ s.changes = <<c>>
      <4> HIDE DEF k, more
      <4> QED
        BY <1>0, <2>2, <2>4, <3>4, <3>12, <3>14, MovedFollows
    <3>16. c \in Changes
      <4>1. tree[Find(tree, q)].id \in Paths /\ p \in Paths
        BY <1>0, <2>2, <3>12, IdOfFound DEF Follows
      <4> QED
        BY <4>1 DEF Change, Changes
    <3> HIDE DEF s, c, k, more
    <3>17. Caught' = Indexed(Caught, c) /\ subscribers' = subscribers /\ tree' = s.tree
      BY <1>0, <1>2, <2>2, <3>13, <3>15, <3>16, ToldOfOne
    <3>18. Follows(Caught', tree')
      BY <3>15, <3>17
    <3> QED
      BY <1>1, <2>2, <3>10, <3>17, <3>18, AgreeAfter
  <2> QED
    BY <2>5, <2>6
<1> QED
  BY <1>3, <1>4

(* A deletion that is missed is pending once.                               *)
LEMMA SeesUnlinkIndex ==
  ASSUME ExplorerTypeOK, TreeInv, IndexInv, NEW p \in Paths, SeesUnlink(p)
  PROVE  IndexInv'
<1>1. /\ p \in seen /\ seen' = seen \ {p}
      /\ pending' = IF p \in Ignored THEN pending ELSE Append(pending, p)
      /\ UNCHANGED <<tree, index, idMap, scan, rebuild, stage, inbox, subscribers, call, source, blur>>
  BY DEF SeesUnlink, building, events, indexing
<1>2. TreeTypeOK
  BY DEF ExplorerTypeOK
<1>3. ASSUME Clean
      PROVE  Uncrossed'
  <2>1. Uncrossed /\ p \notin Pending
    BY <1>1, <1>3 DEF IndexInv, CleanInv, Uncrossed
  <2>2. CASE p \in Ignored
    BY <1>1, <2>1, <2>2 DEF Uncrossed, Pending
  <2>3. CASE p \notin Ignored
    <3>1. p \in Watched
      BY <2>3, WatchedPaths
    <3> DEFINE l == Len(pending)
    <3>2. pending' = Append(pending, p)
      BY <1>1, <2>3
    <3>3. /\ l \in Nat /\ DOMAIN pending = 1 .. l /\ DOMAIN pending' = 1 .. (l + 1)
          /\ pending'[l + 1] = p /\ Pending' = Pending \cup {p}
      BY <1>2, <3>1, <3>2, Appended
    <3>4. \A i \in 1 .. l : pending'[i] = pending[i]
      BY <1>2, <3>1, <3>2, Appended
    <3>5. \A i \in 1 .. l : pending[i] # p
      BY <2>1, <3>3 DEF Pending
    <3>6. \A i, j \in 1 .. l : i # j => pending[i] # pending[j]
      BY <2>1, <3>3 DEF Uncrossed
    <3> HIDE DEF l
    <3>7. ASSUME NEW i \in 1 .. (l + 1), NEW j \in 1 .. (l + 1), i # j
          PROVE  pending'[i] # pending'[j]
      <4>1. (i \in 1 .. l \/ i = l + 1) /\ (j \in 1 .. l \/ j = l + 1)
        BY <3>3
      <4> QED
        BY <3>3, <3>4, <3>5, <3>6, <3>7, <4>1
    <3>8. Pending' \cap seen' = {}
      BY <1>1, <2>1, <3>3 DEF Uncrossed
    <3> QED
      BY <3>3, <3>7, <3>8 DEF Uncrossed
  <2> QED
    BY <2>2, <2>3
<1>4. CleanInv'
  BY <1>1, <1>3 DEF IndexInv, CleanInv, Clean, Still
<1> QED
  BY <1>1, <1>4, IndexKept

(* A deletion that is due takes its node, and its entry.                    *)
LEMMA DeletionIndex ==
  ASSUME ExplorerTypeOK, TreeInv, IndexInv, DeletionIsDue
  PROVE  IndexInv'
<1>0. TreeTypeOK /\ ServingTypeOK /\ tree \in Seq(Nodes) /\ pending \in Seq(Watched)
  BY DEF ExplorerTypeOK, TreeTypeOK
<1>1. /\ pending # << >> /\ Follow(RemoveSync(tree, Head(pending)), {})
      /\ UNCHANGED <<disk, seen, scan, rebuild, stage, call, source, index, idMap>>
  BY DEF DeletionIsDue, building, indexing
<1>2. 1 \in DOMAIN pending /\ pending[1] \in Watched /\ pending' = RemoveAt(pending, 1) /\ subscribers' = subscribers
      /\ blur \subseteq blur'
  BY <1>0, DeletionTimes
<1>3. PICK p : p = pending[1] /\ p = Head(pending)
  BY <1>0, <1>1
<1>4. UNCHANGED indexing
  BY <1>1 DEF indexing
<1>5. CASE ~Clean'
  <2>1. Indexer \notin subscribers => inbox'[Indexer] = inbox[Indexer]
    BY <1>1 DEF Follow, Announce, events, Subscribers
  <2>2. ToldInv' /\ BuiltInv'
    BY <1>1, <1>2, <2>1 DEF IndexInv, ToldInv, BuiltInv, Own, Held
  <2> QED
    BY <1>5, <2>2 DEF IndexInv, CleanInv, AgreeInv
<1>6. CASE Clean'
  <2>1. Clean /\ watch = "on"
    BY <1>1, <1>2, <1>6, PendingOnlyRuns DEF Clean
  <2>2. /\ Counted /\ Sorted /\ Uncrossed /\ Indexer \in subscribers /\ stage = "watching"
        /\ Follows(Caught, tree) /\ source = "outside" /\ Still
    BY <1>1, <2>1, CleanRuns DEF Follows, IndexInv, CleanInv
  <2>3. Pending' = Pending \ {p} /\ \A i, j \in DOMAIN pending' : i # j => pending'[i] # pending'[j]
    BY <1>0, <1>2, <1>3, <2>2, PendingWithout DEF Uncrossed
  <2>4. Uncrossed'
    BY <1>1, <2>2, <2>3 DEF Uncrossed
  <2>5. CleanInv'
    BY <1>1, <2>2, <2>4 DEF CleanInv, Still
  <2>6. p \in Watched /\ p \in Pending
    BY <1>2, <1>3 DEF Pending
  <2>7. Times(tree, p) = 1 /\ Has(tree, p)
    BY <1>0, <2>2, <2>6, CleanTimes
  <2>8. ASSUME p = Dir, NEW f \in WatchedFiles, Up(f) = Dir
        PROVE  Times(tree, f) = 0
    <3>1. Dir \notin seen /\ \A j \in DOMAIN pending : 1 < j => Up(pending[j]) = Root
      BY <1>2, <1>3, <2>2, <2>8 DEF Sorted
    <3>2. f \notin seen
      BY <2>8, <3>1, UpType DEF TreeInv, ClosedInv, Closed
    <3>3. f \notin Pending
      <4>1. f # Dir /\ Root # Dir
        BY NoneIsNoFile, UpType DEF WatchedFiles
      <4>2. \A j \in DOMAIN pending : j = 1 \/ 1 < j
        BY <1>0
      <4> QED
        BY <1>3, <2>8, <3>1, <4>1, <4>2 DEF Pending
    <3>4. f \in Watched
      BY DEF WatchedFiles
    <3> QED
      BY <1>0, <2>2, <3>2, <3>3, <3>4, CleanTimes
  <2> DEFINE s == RemoveSync(tree, p)
             c == Change("delete", tree[Find(tree, p)].id, p)
  <2>9. s.changes = <<c>>
    BY <1>0, <2>7, RemoveHeld
  <2>10. Follows(Indexed(Caught, c), s.tree)
    BY <1>0, <2>2, <2>6, <2>7, <2>8, RemovedFollows
  <2>11. c \in Changes
    <3>1. tree[Find(tree, p)].id \in Paths /\ p \in Paths
      BY <1>0, <2>2, <2>6, <2>7, IdOfFound, WatchedPaths DEF Follows
    <3> QED
      BY <3>1 DEF Change, Changes
  <2>12. Follow(s, {})
    BY <1>1, <1>3
  <2> HIDE DEF s, c
  <2>13. Caught' = Indexed(Caught, c) /\ tree' = s.tree
    BY <1>0, <1>4, <2>2, <2>9, <2>11, <2>12, ToldOfOne
  <2>14. Follows(Caught', tree')
    BY <2>10, <2>13
  <2> QED
    BY <1>1, <1>2, <2>2, <2>5, <2>14, AgreeAfter
<1> QED
  BY <1>5, <1>6

(* Steps after which the index, and where it matters the tree, are the same *)
LEMMA AgreeKept ==
  ASSUME IndexInv, UNCHANGED <<tree, index, idMap>>, inbox'[Indexer] = inbox[Indexer], blur \subseteq blur',
         stage' \notin {"shallow", "scanning"} => stage \notin {"shallow", "scanning"}
  PROVE  AgreeInv'
<1>1. Caught' = Caught
  BY DEF Caught
<1> QED
  BY <1>1 DEF IndexInv, AgreeInv, Clean, Follows, Held

(* When the watcher is ready nothing is pending.                            *)
LEMMA ReadyIndex ==
  ASSUME TreeInv, IndexInv, WatcherReady
  PROVE  IndexInv'
<1>1. /\ watch = "starting" /\ seen' = disk /\ subscribers' = subscribers \cup waiting
      /\ stage' = IF Indexer \in waiting THEN "watching" ELSE stage
      /\ UNCHANGED <<tree, scan, rebuild, pending, call, inbox, index, idMap, source, blur>>
  BY DEF WatcherReady, Subscribe, indexing
<1>2. Indexer \in waiting => stage = "starting"
  BY DEF TreeInv, ClosedInv
<1>3. CleanInv'
  <2> SUFFICES ASSUME Clean'
               PROVE  source' = "outside" /\ Still' /\ Uncrossed'
    BY DEF CleanInv
  <2>1. Clean /\ Promised /\ ~Running
    BY <1>1 DEF Clean, Promised, Running
  <2>2. source = "outside" /\ Still /\ pending = << >>
    BY <2>1 DEF TreeInv, StartInv, IndexInv, CleanInv
  <2>3. pending' = << >> /\ DOMAIN pending' = {} /\ Pending' = {}
    BY <1>1, <2>2 DEF Pending
  <2> QED
    BY <1>1, <2>2, <2>3 DEF Still, Uncrossed
<1>4. ToldInv'
  BY <1>1 DEF IndexInv, ToldInv
<1>5. BuiltInv'
  BY <1>1, <1>2 DEF IndexInv, BuiltInv, Own, Held
<1>6. AgreeInv'
  BY <1>1, <1>2, AgreeKept
<1> QED
  BY <1>3, <1>4, <1>5, <1>6 DEF IndexInv

LEMMA FailureIndex ==
  ASSUME TreeInv, IndexInv, WatcherFails
  PROVE  IndexInv'
<1>1. /\ stage' = IF Indexer \in waiting THEN "unwatched" ELSE stage
      /\ UNCHANGED <<seen, tree, scan, rebuild, pending, call, subscribers, inbox, index, idMap, source, blur>>
  BY DEF WatcherFails, events, indexing
<1>2. Indexer \in waiting => stage = "starting"
  BY DEF TreeInv, ClosedInv
<1>3. CleanInv'
  BY <1>1, CleanKept
<1>4. ToldInv' /\ BuiltInv'
  BY <1>1, <1>2 DEF IndexInv, ToldInv, BuiltInv, Own, Held
<1>5. AgreeInv'
  BY <1>1, <1>2, AgreeKept
<1> QED
  BY <1>3, <1>4, <1>5 DEF IndexInv

(* Scans hold nodes under their own ids.                                    *)
LEMMA ScanIndex ==
  ASSUME IndexInv, ScanRoot
  PROVE  IndexInv'
<1>1. /\ stage = "shallow" /\ stage' = "scanning" /\ scan' = Entries(Root)
      /\ UNCHANGED <<seen, tree, rebuild, pending, call, subscribers, inbox, index, idMap, source, blur>>
  BY DEF ScanRoot, events, indexing
<1>2. CleanInv'
  BY <1>1, CleanKept
<1>3. Own(scan)'
  <2>1. Own(Entries(Root))
    BY OwnEntries
  <2> QED
    BY <1>1, <2>1 DEF Own, Held
<1>4. ToldInv' /\ BuiltInv'
  BY <1>1, <1>3 DEF IndexInv, ToldInv, BuiltInv, Own, Held
<1> QED
  BY <1>1, <1>2, <1>4 DEF IndexInv, AgreeInv

LEMMA LookIndex ==
  ASSUME IndexInv, LookInto
  PROVE  IndexInv'
<1>1. /\ rebuild' = [scan |-> Entries(Root), disk |-> disk, tree |-> tree]
      /\ UNCHANGED <<seen, tree, stage, scan, pending, call, subscribers, inbox, index, idMap, source, blur>>
  BY DEF LookInto, events, indexing, building
<1>2. CleanInv'
  BY <1>1, CleanKept
<1>3. Own(rebuild.scan)'
  <2>1. Own(Entries(Root)) /\ rebuild'.scan = Entries(Root)
    BY <1>1, OwnEntries
  <2> QED
    BY <2>1 DEF Own, Held
<1>4. ToldInv' /\ BuiltInv'
  BY <1>1, <1>3 DEF IndexInv, ToldInv, BuiltInv, Own, Held
<1>5. AgreeInv'
  BY <1>1, AgreeKept
<1> QED
  BY <1>2, <1>4, <1>5 DEF IndexInv

(* The index of a tree that was just built agrees with it.                  *)
LEMMA EnteredIs ==
  ASSUME NEW t, index = [n \in Names |-> None], NEW n \in Names
  PROVE  /\ DOMAIN Entered(t) = Names
         /\ \/ Entered(t)[n] = None /\ \A f \in Files : ~(Has(t, f) /\ NameOf[f] = n)
            \/ Entered(t)[n] \in {f \in Files : Has(t, f) /\ NameOf[f] = n}
<1> DEFINE named == {f \in Files : Has(t, f) /\ NameOf[f] = n}
           last == IF \E f \in named : Up(f) = Dir THEN {f \in named : Up(f) = Dir} ELSE named
<1>1. DOMAIN Entered(t) = Names
  BY DEF Entered
<1>2. Entered(t)[n] = IF named = {} THEN index[n] ELSE CHOOSE f \in last : TRUE
  BY DEF Entered
<1>3. last \subseteq named /\ (named # {} => last # {})
  OBVIOUS
<1>4. named # {} => (CHOOSE f \in last : TRUE) \in named
  <2> HIDE DEF named, last
  <2> QED
    BY <1>3
<1>5. CASE named = {}
  BY <1>1, <1>2, <1>5
<1>6. CASE named # {}
  BY <1>1, <1>2, <1>4, <1>6
<1> QED
  BY <1>5, <1>6

LEMMA EnteredAgrees ==
  ASSUME NEW t \in Seq(Nodes), Own(t), index = [n \in Names |-> None],
         NEW x, x = [names |-> Entered(t), ids |-> [f \in Files |-> IF Has(t, f) THEN f ELSE None]]
  PROVE  Agrees(x, Held(t))
<1> DEFINE h == Held(t)
<1>1. \A f : In(h, f) <=> Has(t, f)
  BY HeldIs
<1>2. \A m \in h : m[1] = m[2] /\ m[1] \notin GitIgnored
  BY DEF Own
<1>3. DOMAIN x.names = Names /\ x.names = [n \in Names |-> x.names[n]]
  BY EnteredIs DEF Entered
<1>4. \A n \in Names :
        \/ x.names[n] = None /\ \A f \in Files : ~(Has(t, f) /\ NameOf[f] = n)
        \/ x.names[n] \in {f \in Files : Has(t, f) /\ NameOf[f] = n}
  BY EnteredIs
<1>5. x.ids \in [Files -> Files \cup {None}] /\ \A f \in Files : x.ids[f] = IF Has(t, f) THEN f ELSE None
  OBVIOUS
<1>6. x \in Indexes
  <2>1. x = [names |-> x.names, ids |-> x.ids]
    OBVIOUS
  <2>2. x.names \in [Names -> Files \cup {None}]
    BY <1>3, <1>4
  <2> HIDE DEF h
  <2> QED
    BY <1>5, <2>1, <2>2 DEF Indexes
<1> HIDE DEF h
<1>7. ASSUME NEW f \in Files, Has(t, f)
      PROVE  f \in Unwatched \/ f \in WatchedFiles
  <2>1. f \notin GitIgnored
    BY <1>1, <1>2, <1>7 DEF In
  <2> QED
    BY <2>1 DEF WatchedFiles, Watched, Ignored, Paths
<1>8. ASSUME NEW m \in h, m[1] \in WatchedFiles
      PROVE  x.ids[m[2]] = m[1]
  <2>1. m[1] = m[2] /\ Has(t, m[1]) /\ m[1] \in Files
    BY <1>1, <1>2, <1>8 DEF In, WatchedFiles
  <2> QED
    BY <1>5, <2>1
<1>9. ASSUME NEW f \in WatchedFiles, x.ids[f] # None
      PROVE  \E m \in h : m[2] = f
  <2>1. In(h, f)
    BY <1>1, <1>5, <1>9 DEF WatchedFiles
  <2> QED
    BY <1>2, <2>1 DEF In
<1>10. ASSUME NEW n \in Names, x.names[n] # None
       PROVE  /\ NameOf[x.names[n]] = n
              /\ x.names[n] \in Unwatched \/ (x.names[n] \in WatchedFiles /\ In(h, x.names[n]))
  BY <1>1, <1>4, <1>7, <1>10
<1>11. ASSUME NEW f \in WatchedFiles, Alone(f), In(h, f)
       PROVE  x.names[NameOf[f]] = f
  <2>1. f \in Files /\ Has(t, f) /\ NameOf[f] \in Names
    BY <1>1, <1>11 DEF WatchedFiles, Names
  <2>2. \A g \in Files : NameOf[g] = NameOf[f] => g = f
    BY <1>11 DEF Alone
  <2> QED
    BY <1>4, <2>1, <2>2
<1>12. Agrees(x, h)
  BY <1>6, <1>8, <1>9, <1>10, <1>11 DEF Agrees
<1> QED
  BY <1>12 DEF h

(* The tree is built and indexed before the indexer is told anything.       *)
LEMMA BuildIndex ==
  ASSUME ExplorerTypeOK, TreeInv, IndexInv, FinishBuild
  PROVE  IndexInv'
<1>1. /\ stage = "scanning" /\ scan' = << >> /\ tree' = Full(scan) /\ index' = Entered(tree')
      /\ idMap' = [f \in Files |-> IF Has(tree', f) THEN f ELSE None]
      /\ stage' = (IF Indexer \in subscribers' THEN "watching" ELSE "starting")
      /\ UNCHANGED <<seen, rebuild, pending, call, inbox, source, blur>>
  BY Zenon DEF FinishBuild
<1>2. Indexer \notin subscribers /\ inbox[Indexer] = << >> /\ index = [n \in Names |-> None]
  BY <1>1 DEF TreeInv, ClosedInv, IndexInv, ToldInv, BuiltInv
<1>3. scan \in Seq(Nodes) /\ Own(scan)
  BY DEF ExplorerTypeOK, TreeTypeOK, IndexInv, BuiltInv
<1>4. PICK t : t = Full(scan)
  OBVIOUS
<1>5. t \in Seq(Nodes) /\ Own(t)
  BY <1>3, <1>4, FullType, OwnFull
<1>6. Known(Held(t)) /\ OneEach(Held(t))
  BY <1>5, OwnIsKnown DEF Own
<1> DEFINE x == [names |-> Entered(t), ids |-> [f \in Files |-> IF Has(t, f) THEN f ELSE None]]
<1>7. Agrees(x, Held(t))
  BY <1>2, <1>5, EnteredAgrees
<1>8. tree' = t /\ [names |-> index', ids |-> idMap'] = x /\ inbox'[Indexer] = << >>
  BY <1>1, <1>2, <1>4
<1> HIDE DEF x
<1>9. Caught' = x
  BY <1>8, NothingIndexed DEF Caught
<1>10. AgreeInv'
  BY <1>6, <1>7, <1>8, <1>9 DEF AgreeInv, Follows, Held
<1>11. CleanInv'
  BY <1>1, CleanKept
<1>12. ToldInv'
  BY <1>1, <1>8 DEF ToldInv
<1>13. BuiltInv'
  <2>1. Own(scan)'
    BY <1>1 DEF Own, Held
  <2> QED
    BY <1>1, <2>1 DEF IndexInv, BuiltInv, Own, Held
<1> QED
  BY <1>10, <1>11, <1>12, <1>13 DEF IndexInv

(* Two trees that have a directory's paths under their own ids hold the     *)
(* same.                                                                    *)
LEMMA OwnHeld ==
  ASSUME NEW t \in Seq(Nodes), \A m \in Held(t) : m[1] = m[2], NEW here, Matches(t, here)
  PROVE  \A m \in Paths \X Paths : m[1] \in Watched => (m \in Held(t) <=> m[1] = m[2] /\ m[1] \in here)
<1> SUFFICES ASSUME NEW m \in Paths \X Paths, m[1] \in Watched
             PROVE  m \in Held(t) <=> m[1] = m[2] /\ m[1] \in here
  OBVIOUS
<1>1. Times(t, m[1]) = One(m[1] \in here)
  BY DEF Matches
<1>2. In(Held(t), m[1]) <=> m[1] \in here
  <2>1. Has(t, m[1]) <=> m[1] \in here
    BY <1>1, TimesType DEF One
  <2> QED
    BY <2>1, HeldIs
<1>3. \A n \in Held(t) : n = <<n[1], n[2]>>
  BY HeldIs
<1>4. ASSUME m[1] = m[2], In(Held(t), m[1])
      PROVE  m \in Held(t)
  <2>1. PICK n \in Held(t) : n[1] = m[1]
    BY <1>4 DEF In
  <2>2. n = m
    BY <1>3, <1>4, <2>1
  <2> QED
    BY <2>1, <2>2
<1>5. m \in Held(t) => In(Held(t), m[1])
  BY DEF In
<1> QED
  BY <1>2, <1>4, <1>5

(* A tree that was built again, in a settled history, holds what it held.   *)
LEMMA ReplaceIndex ==
  ASSUME ExplorerTypeOK, TreeInv, IndexInv, Replace
  PROVE  IndexInv'
<1>0. TreeTypeOK /\ tree \in Seq(Nodes)
  BY DEF ExplorerTypeOK, TreeTypeOK
<1>1. /\ rebuild # None /\ rebuild' = None /\ tree' = Full(rebuild.scan) /\ blur \subseteq blur'
      /\ (IF Settled /\ rebuild.disk = disk /\ rebuild.tree = tree THEN {} ELSE {"rebuilt"}) \subseteq blur'
      /\ (IF \A n \in ToSet(tree) : n.id = n.path THEN {} ELSE {"reused"}) \subseteq blur'
      /\ UNCHANGED <<seen, stage, scan, pending, call, subscribers, inbox, index, idMap, source>>
  BY DEF Replace, events, indexing
<1>2. CleanInv'
  BY <1>1, CleanKept
<1>3. ToldInv' /\ BuiltInv'
  BY <1>1 DEF IndexInv, ToldInv, BuiltInv, Own, Held
<1>4. Caught' = Caught
  BY <1>1 DEF Caught
<1>5. ASSUME Clean', stage' \notin {"shallow", "scanning"}
      PROVE  Follows(Caught', tree')
  <2>1. Clean /\ Settled /\ rebuild.disk = disk /\ \A n \in ToSet(tree) : n.id = n.path
    BY <1>1, <1>5 DEF Clean
  <2>2. Promised /\ Follows(Caught, tree)
    BY <1>1, <1>5, <2>1 DEF Clean, Promised, IndexInv, AgreeInv
  <2>3. Matches(tree, disk)
    <3>1. CASE Running
      BY <1>0, <2>1, <2>2, <3>1, SettledMatches
    <3>2. CASE ~Running
      <4>1. stage \in {"starting", "watching", "unwatched"}
        BY <1>0, <1>1, <1>5 DEF TreeTypeOK, Stages
      <4> QED
        BY <2>2, <3>2, <4>1 DEF TreeInv, StartInv
    <3> QED
      BY <3>1, <3>2
  <2>4. \A m \in Held(tree) : m[1] = m[2]
    <3>1. \A i \in DOMAIN tree : tree[i].id = tree[i].path
      BY <2>1 DEF ToSet
    <3> QED
      BY <3>1 DEF Held
  <2>5. PICK t : t = Full(rebuild.scan)
    OBVIOUS
  <2>6. t \in Seq(Nodes) /\ Own(t) /\ Matches(t, disk)
    <3>1. rebuild.scan \in Seq(Nodes) /\ Own(rebuild.scan)
      BY <1>0, <1>1 DEF TreeTypeOK, Rebuilds, IndexInv, BuiltInv
    <3>2. Closed(disk) /\ Shallow(rebuild.scan, disk)
      BY <1>1, <2>1 DEF TreeInv, ClosedInv
    <3> QED
      BY <2>5, <3>1, <3>2, FullMatches, OwnFull
  <2>7. Known(Held(t)) /\ OneEach(Held(t))
    BY <2>6, OwnIsKnown DEF Own
  <2>8. \A m \in Paths \X Paths : m[1] \in WatchedFiles => (m \in Held(tree) <=> m \in Held(t))
    <3>1. \A m \in Paths \X Paths : m[1] \in Watched => (m \in Held(tree) <=> m[1] = m[2] /\ m[1] \in disk)
      BY <1>0, <2>3, <2>4, OwnHeld
    <3>2. \A m \in Paths \X Paths : m[1] \in Watched => (m \in Held(t) <=> m[1] = m[2] /\ m[1] \in disk)
      BY <2>6, OwnHeld DEF Own
    <3> QED
      BY <3>1, <3>2 DEF WatchedFiles
  <2>9. Agrees(Caught, Held(t))
    <3>1. Held(tree) \in SUBSET (Paths \X Paths) /\ Held(t) \in SUBSET (Paths \X Paths)
      BY <1>0, <2>6, HeldIs
    <3> QED
      BY <2>2, <2>8, <3>1, AgreesOfFiles DEF Follows
  <2>10. Follows(Caught, t)
    BY <2>7, <2>9 DEF Follows
  <2> QED
    BY <1>1, <1>4, <2>5, <2>10
<1>6. AgreeInv'
  BY <1>5 DEF AgreeInv
<1> QED
  BY <1>2, <1>3, <1>6 DEF IndexInv

(* A batch that is indexed has caught up.                                   *)
LEMMA BatchIndex ==
  ASSUME ServingTypeOK, TreeInv, IndexInv, Index
  PROVE  IndexInv'
<1>1. /\ inbox[Indexer] # << >> /\ inbox' = [inbox EXCEPT ![Indexer] = << >>]
      /\ index' = Caught.names /\ idMap' = Caught.ids
      /\ UNCHANGED <<seen, tree, stage, scan, rebuild, pending, call, subscribers, source, blur>>
  BY Zenon DEF Index, Caught, Batch, building
<1>2. Indexer \in subscribers /\ stage = "watching"
  BY <1>1 DEF TreeInv, ClosedInv, IndexInv, ToldInv
<1>3. inbox'[Indexer] = << >>
  BY <1>1 DEF ServingTypeOK, Subscribers
<1>4. CleanInv'
  BY <1>1, CleanKept
<1>5. ToldInv' /\ BuiltInv'
  BY <1>1, <1>2 DEF IndexInv, ToldInv, BuiltInv, Own, Held
<1>6. ASSUME Clean'
      PROVE  Follows(Caught', tree')
  <2>1. PICK c : c = Caught
    OBVIOUS
  <2>2. Follows(c, tree)
    BY <1>1, <1>2, <1>6, <2>1 DEF Clean, IndexInv, AgreeInv
  <2>3. [names |-> c.names, ids |-> c.ids] = c
    BY <2>2 DEF Follows, Agrees, Indexes
  <2>4. [names |-> index', ids |-> idMap'] = c
    BY <1>1, <2>1, <2>3
  <2>5. Caught' = c
    BY <1>3, <2>4, NothingIndexed DEF Caught
  <2> QED
    BY <1>1, <2>2, <2>5
<1>7. AgreeInv'
  BY <1>6 DEF AgreeInv
<1> QED
  BY <1>4, <1>5, <1>7 DEF IndexInv

LEMMA ServingIndex ==
  ASSUME ExplorerTypeOK, TreeInv, IndexInv, Serving
  PROVE  IndexInv'
<1>1. CASE Index
  BY <1>1, BatchIndex DEF ExplorerTypeOK
<1>2. ASSUME NEW s \in Sessions, Connect(s) \/ Forward(s) \/ Send(s) \/ SendFails(s) \/ Leave(s)
      PROVE  IndexInv'
  <2>1. s # Indexer
    BY FileExplorerAssumption
  <2>2. UNCHANGED <<seen, tree, stage, scan, rebuild, pending, call, index, idMap, source, blur>>
    BY <1>2 DEF Connect, Forward, Send, SendFails, Leave, building, indexing
  <2>3. inbox'[Indexer] = inbox[Indexer]
    BY <1>2, <2>1 DEF Connect, Forward, Send, SendFails, Leave, events, ExplorerTypeOK, ServingTypeOK, Subscribers
  <2>4. Indexer \in subscribers' <=> Indexer \in subscribers
    BY <1>2, <2>1 DEF Connect, Ask, Subscribe, Forward, Send, SendFails, Leave, events
  <2>5. CleanInv'
    BY <2>2, CleanKept
  <2> QED
    BY <2>2, <2>3, <2>4, <2>5, IndexKept
<1> QED
  BY <1>1, <1>2 DEF Serving

LEMMA InitialIndex == Init => IndexInv
<1> SUFFICES ASSUME Init
             PROVE  IndexInv
  OBVIOUS
<1>1. CleanInv
  BY DEF Init, CleanInv, Still, Uncrossed, Pending
<1>2. ToldInv
  BY DEF Init, ToldInv, Subscribers
<1>3. BuiltInv
  <2>1. scan = << >> /\ rebuild = None /\ index = [n \in Names |-> None] /\ idMap = [f \in Files |-> None]
    BY DEF Init, Names
  <2>2. Own(<< >>)
    BY DEF Own, Held
  <2> QED
    BY <2>1, <2>2 DEF BuiltInv
<1>4. AgreeInv
  BY DEF Init, AgreeInv
<1> QED
  BY <1>1, <1>2, <1>3, <1>4 DEF IndexInv

(* Every step keeps the invariant of the index.                             *)
LEMMA IndexStep ==
  ASSUME ExplorerTypeOK, TreeInv, IndexInv, [Next]_vars
  PROVE  IndexInv'
<1>1. CASE Operation
  <2>1. ASSUME NEW u \in Callers, NEW p \in Paths, Add(u, p) \/ Delete(u, p)
        PROVE  IndexInv'
    BY <2>1, CallerIndex DEF Add, Delete
  <2>2. ASSUME NEW u \in Callers, NEW f \in Files, Write(u, f)
        PROVE  IndexInv'
    <3>1. Begin(u, IF f \in disk THEN "modify" ELSE "add", f, f)
      BY <2>2 DEF Write
    <3> QED
      BY <3>1, CallerIndex
  <2>3. ASSUME NEW u \in Callers, NEW f \in Files, NEW g \in Files, Rename(u, f, g) \/ Move(u, f, g)
        PROVE  IndexInv'
    BY <2>3, CallerIndex DEF Rename, Move
  <2>4. ASSUME NEW u \in Callers, Perform(u) \/ PerformFails(u) \/ Answer(u)
        PROVE  IndexInv'
    BY <2>4, CallerIndex
  <2> QED
    BY <1>1, <2>1, <2>2, <2>3, <2>4 DEF Operation
<1>2. CASE Environment
  <2>1. PICK d : Outside(d)
    BY <1>2 DEF Environment, Appears, Disappears, MovesAway
  <2> QED
    BY <2>1, EnvironmentIndex
<1>3. CASE Watcher
  BY <1>3, SeesAddIndex, SeesUnlinkIndex, DeletionIndex, ReadyIndex, FailureIndex, ScanIndex,
     BuildIndex, LookIndex, ReplaceIndex DEF Watcher
<1>4. CASE Serving
  BY <1>4, ServingIndex
<1>5. CASE UNCHANGED vars
  <2>1. UNCHANGED <<tree, index, idMap, scan, rebuild, stage, inbox, subscribers, pending, seen, call,
                    source, blur>>
    BY <1>5 DEF vars, building, events, indexing
  <2> QED
    BY <2>1, CleanKept, IndexKept
<1> QED
  BY <1>1, <1>2, <1>3, <1>4, <1>5 DEF Next

(* As long as files are only changed from outside, and no file is made      *)
(* under an id that a moved one still has, the index names every watched    *)
(* file of the tree once it has caught up, and none that is gone.           *)
THEOREM IndexFollowsTree == Spec => []IndexIsTree
<1>1. Init => ExplorerTypeOK /\ TreeInv /\ IndexInv
  BY InitialTypes, InitialTree, InitialIndex
<1>2. (ExplorerTypeOK /\ TreeInv /\ IndexInv) /\ [Next]_vars => (ExplorerTypeOK /\ TreeInv /\ IndexInv)'
  BY TypesStep, TreeStep, IndexStep
<1>3. ExplorerTypeOK /\ TreeInv /\ IndexInv => IndexIsTree
  BY IndexInvImplies DEF ExplorerTypeOK
<1> QED
  BY <1>1, <1>2, <1>3, PTL DEF Spec

===============================================================================
