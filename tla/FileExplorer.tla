----------------------------- MODULE FileExplorer -----------------------------
(****************************************************************************)
(* The file explorer of a workspace: the tree of nodes the server keeps of  *)
(* a directory, the operations callers ask for, the watcher that follows    *)
(* what happens to the directory otherwise, the index of file names and the *)
(* sockets that are told of the changes.                                    *)
(*                                                                          *)
(* A node is [path, id, loaded]: its id is derived from the ids above it    *)
(* and its name when it is made, so it is the path it was made under, and   *)
(* it keeps that id when it moves; a directory is loaded if it was scanned. *)
(* The tree is the sequence of its nodes in the order of their parents'     *)
(* children; the root is not part of it.                                    *)
(*                                                                          *)
(* chokidar is modelled by the paths it has seen: it reports a path that it *)
(* has not seen and that is there, or the reverse, whenever it looks.       *)
(*                                                                          *)
(* Bounds: one directory below the root, files that move, contents left     *)
(* out; what is asked for, changes and fails may cost Budget: an operation  *)
(* two, a change from outside, a socket or a failure one.                   *)
(****************************************************************************)
EXTENDS Integers, FiniteSets, SequencesExt

CONSTANTS
  Files, Dir, Root,   \* paths of files, of the one directory, and the root's
  ParentOf, NameOf,   \* [Files -> {Root, Dir}], [Files -> names]
  GitIgnored,         \* files that a .gitignore names
  Unwatched,          \* files that only the watcher's default strategy ignores
  Disks,              \* what the directory may hold when the workspace is made
  Callers, Sessions, Indexer,
  Budget, None

Paths == Files \cup {Dir}
Subscribers == Sessions \cup {Indexer}
Up(p) == IF p = Dir THEN Root ELSE ParentOf[p]
Ignored == GitIgnored \cup Unwatched
ASSUME FileExplorerAssumption ==
  /\ Dir \notin Files /\ Root \notin Files \cup {Dir}
  /\ ParentOf \in [Files -> {Root, Dir}]
  /\ Ignored \subseteq Files
  /\ IsFiniteSet(Files)
  /\ Indexer \notin Sessions /\ None \notin Files
  /\ Disks \subseteq SUBSET Paths
  /\ \A here \in Disks : \A f \in here \cap Files : Up(f) \in here \cup {Root}
  /\ Budget \in Nat

VARIABLES
  disk, seen,    \* paths that are there, and that chokidar has seen
  tree,          \* rootNode of FileExplorer
  stage, scan,   \* of completeFullInitialization, and the tree it is building
  rebuild,       \* None, or the tree a folderChildren query is building
  watch,         \* fileWatcher: "off", "starting", "on"
  waiting,       \* subscribers that wait for the watcher to be ready
  pending,       \* pendingUnlinks
  call,          \* what each caller's operation is at
  subscribers,   \* queues of FileSystemWatcher
  inbox,         \* a subscriber's queue, and its batch window's
  outbox,        \* eventQueue of a FileExplorerSession
  socket,        \* of every session
  index, idMap,  \* fileNameIndex and idMap of FileNameIndexer
  announced,     \* history: changes announced so far
  heard,         \* history: the last of them a session's socket was sent
  source,        \* history: who changed the directory since it was settled
  blur,          \* history: the circumstances that nothing is promised under
  spent          \* of the budget

events == <<subscribers, inbox, announced>>
building == <<stage, scan, rebuild, watch, waiting>>
indexing == <<index, idMap>>
serving == <<outbox, socket, heard>>
vars == <<disk, seen, tree, building, pending, call, events, serving,
          indexing, source, blur, spent>>

Idle == [op |-> "none"]
Spend(n) == spent + n <= Budget /\ spent' = spent + n

(****************************************************************************)
(* The tree                                                                 *)
(****************************************************************************)
Node(p) == [path |-> p, id |-> p, loaded |-> p \in Files]
Has(t, p) == \E i \in DOMAIN t : t[i].path = p

(* findNodeByPath: the first child of that name                             *)
Find(t, p) == CHOOSE i \in DOMAIN t :
  t[i].path = p /\ \A j \in 1..(i - 1) : t[j].path # p

(* the nodes at the positions S, in their order                             *)
Kept(t, S) ==
  [n \in 1 .. Cardinality(S) |-> t[CHOOSE i \in S : Cardinality({j \in S : j < i}) = n - 1]]

Children(t) == {j \in DOMAIN t : Up(t[j].path) = Dir}

(* a node that is detached takes its children with it                       *)
Detached(t, i) ==
  Kept(t, DOMAIN t \ ({i} \cup (IF t[i].path = Dir THEN Children(t) ELSE {})))

(* What is told of a change: its node, under the id and the path it has now *)
Change(type, id, path) == [type |-> type, id |-> id, path |-> path]

(* What a synchronizer does: the tree it leaves and the changes it returns  *)
Sync(t, changes) == [tree |-> t, changes |-> changes]

(* createMissingDirectoriesInTree                                           *)
MissingDirectories(t, p) ==
  IF Up(p) = Root \/ Has(t, Up(p)) THEN <<>> ELSE <<Node(Up(p))>>

AddSync(t, p) ==
  LET added == MissingDirectories(t, p) \o <<Node(p)>>
  IN IF Has(t, p) THEN Sync(t, <<>>)
     ELSE Sync(t \o added,
               [i \in DOMAIN added |-> Change("add", added[i].id, added[i].path)])

(* a node that is not in the tree is deleted under the id its path gives    *)
RemoveSync(t, p) ==
  IF Has(t, p)
  THEN Sync(Detached(t, Find(t, p)),
            <<Change("delete", t[Find(t, p)].id, p)>>)
  ELSE Sync(t, <<Change("delete", p, p)>>)

(* the node is detached before the new parent is looked for: without one    *)
(* the synchronizer throws and the node is gone                             *)
MoveSync(t, p, q) ==
  IF ~Has(t, p) THEN Sync(t, <<>>)
  ELSE LET node == t[Find(t, p)]
           rest == Detached(t, Find(t, p))
           below == IF p = Dir THEN Kept(t, Children(t)) ELSE <<>>
       IN IF Up(q) # Root /\ ~Has(rest, Up(q)) THEN Sync(rest, <<>>)
          ELSE Sync(rest \o <<[node EXCEPT !.path = q]>> \o below,
                    <<Change("move", node.id, q)>>)

(* The tree takes what a synchronizer left                                  *)
Apply(s) == tree' = s.tree

(* handleChangeEvent: every subscriber is told, if there is one             *)
Announce(changes) ==
  LET numbered == [i \in DOMAIN changes |-> [no |-> announced + i, change |-> changes[i]]]
  IN IF subscribers = {} THEN UNCHANGED events
     ELSE /\ inbox' = [s \in Subscribers |->
               IF s \in subscribers THEN inbox[s] \o numbered ELSE inbox[s]]
          /\ announced' = announced + Len(changes)
          /\ UNCHANGED subscribers

(****************************************************************************)
(* What the properties do not promise anything under                        *)
(****************************************************************************)
Settled ==
  /\ \A u \in Callers : call[u] = Idle
  /\ watch = "on" /\ seen = disk /\ pending = <<>>

Early == IF stage = "watching" /\ watch = "on" THEN {} ELSE {"early"}

(* an outside change while an operation, or the watcher's echo of one, is   *)
(* still about                                                              *)
ChangedOutside ==
  /\ blur' = blur \cup Early \cup
       (IF Settled \/ source = "outside" THEN {} ELSE {"mixed"})
  /\ source' = "outside"

Called ==
  /\ blur' = blur \cup Early \cup {"inside"} \cup (IF Settled THEN {} ELSE {"mixed"})
  /\ source' = "caller"

(* a node is made under an id that a node which moved away still has        *)
Reused(s) ==
  IF \E i, j \in DOMAIN s.tree : i # j /\ s.tree[i].id = s.tree[j].id
  THEN {"reused"} ELSE {}

(****************************************************************************)
(* Operations of callers.  The event an operation ends with is its answer:  *)
(* the subscribers are not told.                                            *)
(****************************************************************************)
Begin(u, op, p, q) ==
  /\ call[u] = Idle /\ Spend(2)
  /\ call' = [call EXCEPT ![u] = [op |-> op, path |-> p, to |-> q, done |-> FALSE]]
  /\ Called
  /\ UNCHANGED <<disk, seen, tree, building, pending, events, serving, indexing>>

(* What is looked at before: an operation that is refused changes nothing   *)
Add(u, p) == p \notin disk /\ Begin(u, "add", p, p)
Write(u, f) == Begin(u, IF f \in disk THEN "modify" ELSE "add", f, f)
Delete(u, p) == p \in disk /\ Begin(u, "remove", p, p)
Rename(u, f, g) ==
  f \in disk /\ g \notin disk /\ Up(f) = Up(g) /\ Begin(u, "move", f, g)
Move(u, f, g) == f \in disk /\ g \notin disk /\ Begin(u, "move", f, g)

There(p) == p \in disk \cup {Root}
Below(p) == {q \in Paths : Up(q) = p}

(* the directory after the operation's change                               *)
AfterChange(c) ==
  CASE c.op = "add" -> disk \cup ({c.path, Up(c.path)} \ {Root})
    [] c.op = "modify" -> disk \cup {c.path}
    [] c.op = "remove" -> disk \ ({c.path} \cup Below(c.path))
    [] c.op = "move" -> (disk \ {c.path}) \cup {c.to}

Possible(c) ==
  CASE c.op = "add" -> TRUE
    [] c.op = "modify" -> There(Up(c.path))
    [] c.op = "remove" -> There(c.path)
    [] c.op = "move" -> There(c.path) /\ There(Up(c.to))

(* the change is made, or it is too late for it and the operation throws    *)
Perform(u) ==
  /\ call[u] # Idle /\ ~call[u].done
  /\ IF Possible(call[u])
     THEN disk' = AfterChange(call[u]) /\ call' = [call EXCEPT ![u].done = TRUE]
     ELSE UNCHANGED disk /\ call' = [call EXCEPT ![u] = Idle]
  /\ blur' = blur \cup Early
  /\ UNCHANGED <<seen, tree, building, pending, events, serving, indexing, source, spent>>

(* the parent directory of a new file is made and the file cannot be        *)
PerformFails(u) ==
  /\ call[u] # Idle /\ ~call[u].done /\ Spend(1)
  /\ call' = [call EXCEPT ![u] = Idle]
  /\ disk' = IF call[u].op = "add" THEN disk \cup ({Up(call[u].path)} \ {Root}) ELSE disk
  /\ blur' = blur \cup Early
  /\ UNCHANGED <<seen, tree, building, pending, events, serving, indexing, source>>

(* the synchronizer an operation ends with; ModifyNodeSynchronizer changes  *)
(* no node                                                                  *)
SyncOf(c) ==
  CASE c.op = "add" -> AddSync(tree, c.path)
    [] c.op = "modify" -> Sync(tree, <<>>)
    [] c.op = "remove" -> RemoveSync(tree, c.path)
    [] c.op = "move" -> MoveSync(tree, c.path, c.to)

Answer(u) ==
  /\ call[u] # Idle /\ call[u].done
  /\ Apply(SyncOf(call[u]))
  /\ call' = [call EXCEPT ![u] = Idle]
  /\ blur' = blur \cup Early \cup Reused(SyncOf(call[u]))
  /\ UNCHANGED <<disk, seen, building, pending, events, serving, indexing, source, spent>>

(****************************************************************************)
(* What happens to the directory otherwise                                  *)
(****************************************************************************)
Outside(d) ==
  /\ Spend(1) /\ disk' = d
  /\ ChangedOutside
  /\ UNCHANGED <<seen, tree, building, pending, call, events, serving, indexing>>

Appears(p) == p \notin disk /\ There(Up(p)) /\ Outside(disk \cup {p})
Disappears(p) == p \in disk /\ Below(p) \cap disk = {} /\ Outside(disk \ {p})
MovesAway(f, g) ==
  f \in disk /\ g \notin disk /\ There(Up(g)) /\ Outside((disk \ {f}) \cup {g})

(****************************************************************************)
(* The watcher                                                              *)
(****************************************************************************)
SameKind(p, q) == (p = Dir) = (q = Dir)

(* the event of a synchronizer the watcher calls is announced               *)
Follow(s, more) ==
  /\ Apply(s) /\ Announce(s.changes)
  /\ blur' = blur \cup more \cup Reused(s)

(* chokidar reports a file 200 ms after it was last written                 *)
(* (awaitWriteFinish), when the operation that made it has gone on, and     *)
(* what is in a directory after the directory                               *)
Noticed(p) ==
  /\ watch = "on" /\ p \in disk \ seen /\ Up(p) \in seen \cup {Root}
  /\ \A u \in Callers : (p \in Files /\ call[u] # Idle /\ call[u].to = p) => ~call[u].done

(* (slip: the deletion a new path is taken to be the other half of is       *)
(* forgotten to be one)                                                     *)
SeesAddKeepingTimer(p) ==
  /\ Noticed(p) /\ seen' = seen \cup {p}
  /\ LET same == {i \in DOMAIN pending : SameKind(pending[i], p)}
         first == CHOOSE i \in same : \A j \in same : i <= j
     IN IF same = {}
        THEN Follow(IF p \in Ignored THEN Sync(tree, <<>>) ELSE AddSync(tree, p), {})
        ELSE Follow(IF p \in Ignored THEN Sync(tree, <<>>)
                    ELSE MoveSync(tree, pending[first], p), {})
  /\ UNCHANGED <<disk, building, pending, call, serving, indexing, source, spent>>

(* handleAdd: a path that appears while a deletion of its kind is pending   *)
(* is taken for a move of that path.  An ignored one takes the deletion     *)
(* with it                                                                  *)
SeesAdd(p) ==
  /\ Noticed(p) /\ seen' = seen \cup {p}
  /\ LET same == {i \in DOMAIN pending : SameKind(pending[i], p)}
         first == CHOOSE i \in same : \A j \in same : i <= j
     IN \/ /\ same = {}
           /\ Follow(IF p \in Ignored THEN Sync(tree, <<>>) ELSE AddSync(tree, p), {})
           /\ UNCHANGED pending
        \/ /\ same # {}
           /\ IF p \in Ignored THEN Follow(Sync(tree, <<>>), {"swallowed"})
              ELSE Follow(MoveSync(tree, pending[first], p),
                          IF \E i \in same \ {first} : pending[i] = p THEN {"crossed"} ELSE {})
           /\ pending' = RemoveAt(pending, first)
  /\ UNCHANGED <<disk, building, call, serving, indexing, source, spent>>

(* handleUnlink: 200 ms in which the path may turn up again as a move       *)
SeesUnlink(p) ==
  /\ watch = "on" /\ p \in seen \ disk /\ Below(p) \cap seen = {}
  /\ seen' = seen \ {p}
  /\ pending' = IF p \in Ignored THEN pending ELSE Append(pending, p)
  /\ UNCHANGED <<disk, tree, building, call, events, serving, indexing, source, blur, spent>>

(* the window ends: timers of one length end in the order they began in     *)
DeletionIsDue ==
  /\ pending # <<>>
  /\ Follow(RemoveSync(tree, Head(pending)), {})
  /\ pending' = Tail(pending)
  /\ UNCHANGED <<disk, seen, building, call, serving, indexing, source, spent>>

(****************************************************************************)
(* The watcher starts when the first subscriber asks for it                 *)
(****************************************************************************)
Subscribe(who) ==
  /\ subscribers' = subscribers \cup who
  /\ heard' = [s \in Subscribers |-> IF s \in who THEN announced ELSE heard[s]]

(* ensureWatcherStarted: who comes while it starts waits for it, or, once   *)
(* fileWatcher is set, does not                                             *)
Ask(s) ==
  \/ /\ watch # "off" /\ Subscribe({s}) /\ UNCHANGED <<watch, waiting>>
  \/ /\ watch # "on" /\ watch' = "starting" /\ waiting' = waiting \cup {s}
     /\ UNCHANGED <<subscribers, heard>>

(* What is there before chokidar is ready is not reported                   *)
WatcherReady ==
  /\ watch = "starting" /\ watch' = "on"
  /\ seen' = disk
  /\ Subscribe(waiting) /\ waiting' = {}
  /\ stage' = IF Indexer \in waiting THEN "watching" ELSE stage
  /\ socket' = [s \in Sessions |->
       CASE s \in waiting /\ socket[s] = "waiting" -> "open"
         [] s \in waiting /\ socket[s] = "left" -> "orphan"
         [] OTHER -> socket[s]]
  /\ UNCHANGED <<disk, tree, scan, rebuild, pending, call, inbox, announced, outbox, indexing,
                 source, blur, spent>>

(* startWatcher throws: sockets are refused, the index is never kept up     *)
WatcherFails ==
  /\ watch = "starting" /\ subscribers = {} /\ Spend(1)
  /\ watch' = "off" /\ waiting' = {}
  /\ stage' = IF Indexer \in waiting THEN "unwatched" ELSE stage
  /\ socket' = [s \in Sessions |-> IF s \in waiting THEN "closed" ELSE socket[s]]
  /\ UNCHANGED <<disk, seen, tree, scan, rebuild, pending, call, events, outbox, heard,
                 indexing, source, blur>>

(****************************************************************************)
(* The tree is built: below the root at once, in full in the background     *)
(****************************************************************************)
(* a directory's entries, without the ignored ones                          *)
Entries(p) ==
  LET here == SetToSeq((Below(p) \cap disk) \ GitIgnored)
  IN [i \in DOMAIN here |-> Node(here[i])]

ScanRoot ==
  /\ stage = "shallow" /\ stage' = "scanning"
  /\ scan' = Entries(Root)
  /\ UNCHANGED <<disk, seen, tree, rebuild, watch, waiting, pending, call, events, serving,
                 indexing, source, blur, spent>>

(* the root's nodes with those of the directory, if that can be scanned     *)
Full(t) ==
  IF ~Has(t, Dir) \/ Dir \notin disk THEN t
  ELSE [i \in DOMAIN t |-> [t[i] EXCEPT !.loaded = TRUE]] \o Entries(Dir)

(* folderChildren: a folder that is not in the tree, or whose entries were  *)
(* not looked at, has the whole tree built again                            *)
LookInto ==
  /\ rebuild = None /\ Spend(1)
  /\ \A i \in DOMAIN tree : tree[i].path = Dir =>
       ~tree[i].loaded /\ \A n \in ToSet(tree) : Up(n.path) # Dir
  /\ rebuild' = [scan |-> Entries(Root), disk |-> disk, tree |-> tree]
  /\ UNCHANGED <<disk, seen, tree, stage, scan, watch, waiting, pending, call, events,
                 serving, indexing, source, blur>>

(* The new tree replaces the old one and what was synchronized to that      *)
(* meanwhile; its nodes have the ids of their paths again                   *)
Replace ==
  /\ rebuild # None /\ rebuild' = None
  /\ tree' = Full(rebuild.scan)
  /\ blur' = blur \cup
       (IF Settled /\ rebuild.disk = disk /\ rebuild.tree = tree THEN {} ELSE {"rebuilt"})
       \cup (IF \A n \in ToSet(tree) : n.id = n.path THEN {} ELSE {"reused"})
  /\ UNCHANGED <<disk, seen, stage, scan, watch, waiting, pending, call, events,
                 serving, indexing, source, spent>>

(* buildInitialIndex takes the last child first, and directories come first *)
(* among the children: a file in the directory is entered over one of its   *)
(* name in the root                                                         *)
Entered(t) ==
  [n \in DOMAIN index |->
     LET named == {f \in Files : Has(t, f) /\ NameOf[f] = n}
         last == IF \E f \in named : Up(f) = Dir THEN {f \in named : Up(f) = Dir} ELSE named
     IN IF named = {} THEN index[n] ELSE CHOOSE f \in last : TRUE]

(* addEntry and removeEntryByPath: one path for every name                  *)
WithEntry(x, f) == [x EXCEPT ![NameOf[f]] = f]
WithoutEntry(x, f) == IF x[NameOf[f]] = f THEN [x EXCEPT ![NameOf[f]] = None] ELSE x

(* The full tree replaces the one before, with what was synchronized to it  *)
(* meanwhile, and is indexed; then the indexer asks for the watcher         *)
FinishBuild ==
  /\ stage = "scanning"
  /\ tree' = Full(scan)
  /\ scan' = <<>>
  /\ index' = Entered(tree')
  /\ idMap' = [f \in Files |-> IF Has(tree', f) THEN f ELSE None]
  /\ Ask(Indexer)
  /\ stage' = IF Indexer \in subscribers' THEN "watching" ELSE "starting"
  /\ UNCHANGED <<disk, seen, rebuild, pending, call, inbox, announced, outbox, socket,
                 source, blur, spent>>

(****************************************************************************)
(* The subscribers                                                          *)
(****************************************************************************)
(* (slip: a moved file keeps its entry under the name it had)               *)
IndexedKeepingNames(x, c) ==
  CASE c.id = Dir -> x
    [] c.id # Dir /\ c.type = "delete" ->
         [names |-> IF x.ids[c.id] = None THEN x.names
                    ELSE WithoutEntry(x.names, x.ids[c.id]),
          ids |-> [x.ids EXCEPT ![c.id] = None]]
    [] c.id # Dir /\ c.type # "delete" ->
         [names |-> WithEntry(x.names, c.path), ids |-> [x.ids EXCEPT ![c.id] = c.path]]

(* handleEvent of the indexer; ids of directories name no entry             *)
Indexed(x, c) ==
  LET old == x.ids[c.id]
      kept == IF old = None \/ (old = c.path /\ c.type # "delete") THEN x.names
              ELSE WithoutEntry(x.names, old)
  IN CASE c.id = Dir -> x
       [] c.id # Dir /\ c.type = "delete" ->
            [names |-> kept, ids |-> [x.ids EXCEPT ![c.id] = None]]
       [] c.id # Dir /\ c.type = "add" ->
            [names |-> WithEntry(x.names, c.path), ids |-> [x.ids EXCEPT ![c.id] = c.path]]
       [] c.id # Dir /\ c.type = "move" ->
            [names |-> WithEntry(kept, c.path), ids |-> [x.ids EXCEPT ![c.id] = c.path]]

(* (slip: the changes of a window's other events are not in the batch)      *)
FirstOf(q) == <<Head(q)>>

(* createCompositeEvent: the changes of the window's events                 *)
Batch(q) == q

(* processEvents: the changes of a batch, one after the other               *)
IndexedAll(x, batch) ==
  LET upTo[n \in 0 .. Len(batch)] ==
        IF n = 0 THEN x ELSE Indexed(upTo[n - 1], batch[n].change)
  IN upTo[Len(batch)]

(* A batch window ends for the indexer                                      *)
Index ==
  /\ inbox[Indexer] # <<>> /\ inbox' = [inbox EXCEPT ![Indexer] = <<>>]
  /\ LET result == IndexedAll([names |-> index, ids |-> idMap], Batch(inbox[Indexer]))
     IN index' = result.names /\ idMap' = result.ids
  /\ UNCHANGED <<disk, seen, tree, building, pending, call, subscribers, announced,
                 serving, source, blur, spent>>

(* ... and for a session: one that was closed meanwhile only now stops      *)
(* subscribing                                                              *)
Forward(s) ==
  /\ inbox[s] # <<>> /\ inbox' = [inbox EXCEPT ![s] = <<>>]
  /\ IF socket[s] = "closed"
     THEN subscribers' = subscribers \ {s} /\ UNCHANGED outbox
     ELSE /\ outbox' = [outbox EXCEPT ![s] = Append(@, Batch(inbox[s]))]
          /\ UNCHANGED subscribers
  /\ UNCHANGED <<disk, seen, tree, building, pending, call, announced, socket, heard,
                 indexing, source, blur, spent>>

Connect(s) ==
  /\ socket[s] = "none" /\ Spend(1)
  /\ Ask(s)
  /\ socket' = [socket EXCEPT ![s] = IF s \in subscribers' THEN "open" ELSE "waiting"]
  /\ UNCHANGED <<disk, seen, tree, stage, scan, rebuild, pending, call, inbox, announced, outbox,
                 indexing, source, blur>>

(* streamLoop                                                               *)
Send(s) ==
  /\ socket[s] \in {"open", "orphan"} /\ outbox[s] # <<>>
  /\ heard' = [heard EXCEPT ![s] = Last(Head(outbox[s])).no]
  /\ outbox' = [outbox EXCEPT ![s] = Tail(@)]
  /\ UNCHANGED <<disk, seen, tree, building, pending, call, events, socket,
                 indexing, source, blur, spent>>

(* a failed send ends the loop, not the session: what comes is kept for it  *)
SendFails(s) ==
  /\ socket[s] = "open" /\ outbox[s] # <<>> /\ Spend(1)
  /\ socket' = [socket EXCEPT ![s] = "broken"]
  /\ UNCHANGED <<disk, seen, tree, building, pending, call, events, outbox, heard,
                 indexing, source, blur>>

(* disconnect, unless connect has not answered: then nothing ever closes    *)
(* the session it makes                                                     *)
Leave(s) ==
  /\ socket[s] \in {"open", "broken", "waiting"}
  /\ socket' = [socket EXCEPT ![s] = IF @ = "waiting" THEN "left" ELSE "closed"]
  /\ outbox' = [outbox EXCEPT ![s] = <<>>]
  /\ UNCHANGED <<disk, seen, tree, building, pending, call, events, heard,
                 indexing, source, blur, spent>>

(****************************************************************************)
(* The specification                                                        *)
(****************************************************************************)
(* initialize has built the tree below the root                             *)
Init ==
  /\ disk \in Disks /\ seen = {}
  /\ tree = Entries(Root)
  /\ stage = "shallow" /\ scan = <<>> /\ rebuild = None /\ watch = "off" /\ waiting = {}
  /\ pending = <<>>
  /\ call = [u \in Callers |-> Idle]
  /\ subscribers = {} /\ announced = 0
  /\ inbox = [s \in Subscribers |-> <<>>]
  /\ outbox = [s \in Sessions |-> <<>>]
  /\ socket = [s \in Sessions |-> "none"]
  /\ heard = [s \in Subscribers |-> 0]
  /\ index = [n \in {NameOf[f] : f \in Files} |-> None]
  /\ idMap = [f \in Files |-> None]
  /\ source = "outside" /\ blur = {}
  /\ spent = 0

Operation ==
  \E u \in Callers :
    \/ \E p \in Paths : Add(u, p) \/ Delete(u, p)
    \/ \E f \in Files : Write(u, f)
    \/ \E f, g \in Files : Rename(u, f, g) \/ Move(u, f, g)
    \/ Perform(u) \/ PerformFails(u) \/ Answer(u)

Environment ==
  \/ \E p \in Paths : Appears(p) \/ Disappears(p)
  \/ \E f, g \in Files : MovesAway(f, g)

Watcher ==
  \/ \E p \in Paths : SeesAdd(p) \/ SeesUnlink(p)
  \/ DeletionIsDue \/ WatcherReady \/ WatcherFails
  \/ ScanRoot \/ FinishBuild \/ LookInto \/ Replace

Serving ==
  \/ Index
  \/ \E s \in Sessions : Connect(s) \/ Forward(s) \/ Send(s) \/ SendFails(s) \/ Leave(s)

Next == Operation \/ Environment \/ Watcher \/ Serving

Spec == Init /\ [][Next]_vars

(****************************************************************************)
(* Properties                                                               *)
(****************************************************************************)
Watched == Paths \ Ignored
Positions(t, p) == {i \in DOMAIN t : t[i].path = p}

(* TreeIsDisk: once nothing is under way the tree has every watched path of *)
(* the directory, once - however the changes from outside were reported,    *)
(* reordered, taken for moves or overtaken by others, provided nothing      *)
(* changed before the watcher was ready, no operation shared the windows of *)
(* another change, no ignored path was made in the window of a deletion,    *)
(* and no tree was built again while anything was under way.                *)
TreeIsDisk ==
  (Settled /\ stage = "watching" /\ blur \cap {"early", "mixed", "swallowed", "rebuilt"} = {}) =>
    \A p \in Watched : Cardinality(Positions(tree, p)) = IF p \in disk THEN 1 ELSE 0

(* IndexIsTree: as long as files are only changed from outside, and no file *)
(* is made under an id that a moved one still has, the index the search     *)
(* asks names every watched file of the tree, by its name if no other has   *)
(* it, and none that is gone.                                               *)
IndexIsTree ==
  (Settled /\ stage = "watching" /\ blur = {} /\ inbox[Indexer] = <<>>) =>
    LET present == {f \in Files \ Ignored : Has(tree, f)}
        alone == {f \in present : \A g \in Files \ {f} : NameOf[g] # NameOf[f]}
    IN /\ \A n \in DOMAIN index : index[n] \in present \cup Unwatched \cup {None}
       /\ \A f \in alone : index[NameOf[f]] = f

(* the messages that follow the first n                                     *)
InOrder(q, n) == \A i \in DOMAIN q : q[i].no = n + i

(* EveryChangeIsHeard: what a session was sent, what its queues hold and    *)
(* what has been announced since it subscribed are the same changes in the  *)
(* same order, whoever else came, went or failed.                           *)
EveryChangeIsHeard ==
  \A s \in Sessions : (s \in subscribers /\ socket[s] \in {"open", "orphan", "broken"}) =>
    LET upTo(i) == IF i = 0 THEN heard[s] ELSE Last(outbox[s][i]).no
    IN /\ \A i \in DOMAIN outbox[s] : outbox[s][i] # <<>> /\ InOrder(outbox[s][i], upTo(i - 1))
       /\ InOrder(inbox[s], upTo(Len(outbox[s])))
       /\ upTo(Len(outbox[s])) + Len(inbox[s]) = announced
=============================================================================
