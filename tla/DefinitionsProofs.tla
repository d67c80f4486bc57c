--------------------------- MODULE DefinitionsProofs ---------------------------
(****************************************************************************)
(* Prompts, agents, teams and servers, for any number of callers, agendas,  *)
(* families, rows and failures: caches agree with the database, families    *)
(* have one active prompt, agents have prompts, templates are current and   *)
(* tools are those of enabled servers.  And skills: folders stay whole, and *)
(* what was disabled or added stays so.  And teams: members are what they   *)
(* were configured to be, over a restart and on the worker.                 *)
(*                                                                          *)
(* The history variables carry the argument.  As long as a family is not    *)
(* crowded, at most one call is at work on it: what this call has seen of   *)
(* it in the cache is what the database says, and stays so until its write. *)
(****************************************************************************)
EXTENDS Definitions, Skills, TeamMembers, FiniteSetTheorems, WellFoundedInduction, TLAPS

(* where a request may be, its writes, and the callers                      *)
Places == {"idle", "begin", "end", "write", "marking", "naming", "refer", "map", "unmap", "register", "reload"}

WritesOf(k) == [mode : {"create", "update", "delete"}, kind : {k}, key : Keys[k] \cup {0}, row : RowOf[k] \cup {None}]
Writes == WritesOf("prompt") \cup WritesOf("agent") \cup WritesOf("team") \cup WritesOf("mcp")

CallType ==
  [at : Places, req : Requests \cup {None}, job : Seq(Requests), agenda : Seq(Jobs), write : Writes \cup {None},
   rest : SUBSET (PromptIds \cup Servers), was : SUBSET PromptIds, raced : BOOLEAN]

(* the rows of the database, of the caches and of reads of the database     *)
AnyTable == Tables("prompt") \cup Tables("agent") \cup Tables("team") \cup Tables("mcp")
TablesOK ==
  /\ db \in [Kinds -> AnyTable]
  /\ cache \in [Kinds -> [known : BOOLEAN, rows : AnyTable]]
  /\ reading \in [Kinds -> [at : {"no", "reading", "broken"}, rows : AnyTable]]
  /\ \A k \in Kinds : db[k] \in Tables(k) /\ cache[k].rows \in Tables(k) /\ reading[k].rows \in Tables(k)

(* what the services keep is of its type                                    *)
DefsTypeOK ==
  /\ TablesOK
  /\ mapping \in [Agents -> Families \cup {None}]
  /\ template \in [Agents -> [known : BOOLEAN, text : Phrases, stale : BOOLEAN]]
  /\ registered \subseteq Servers
  /\ call \in [Callers -> CallType]
  /\ lastId \in 0 .. MaxPrompts

(* the requests that write rows of a kind                                   *)
PromptWriters == {"createPrompt", "revise", "updatePrompt", "markActive", "deletePrompt"}
AgentWriters == {"createAgent", "updateAgent", "deleteAgent"}
TeamWriters == {"createTeam", "updateTeam", "deleteTeam"}
ServerWriters == {"configure", "deleteServer"}

(* the write a request makes                                                *)
Fits(r, w) ==
  /\ r.do \in PromptWriters \cup AgentWriters \cup TeamWriters \cup ServerWriters
  /\ r.do \in PromptWriters <=> w.kind = "prompt"
  /\ r.do \in AgentWriters <=> w.kind = "agent"
  /\ r.do \in TeamWriters <=> w.kind = "team"
  /\ r.do \in ServerWriters <=> w.kind = "mcp"
  /\ w.kind # "prompt" => w.key = r.key
  /\ r.do \in {"createPrompt", "revise"} => w.mode = "create" /\ w.key = 0
  /\ r.do \in {"updatePrompt", "markActive"} => w.mode = "update" /\ w.key \in PromptIds
  /\ r.do \in {"updatePrompt", "deletePrompt"} => w.key = r.key
  /\ r.do \in {"deletePrompt", "deleteAgent", "deleteTeam", "deleteServer"} => w.mode = "delete"
  /\ r.do = "markActive" => (w.key = r.key <=> w.row.active)
  /\ r.do = "createAgent" => w.mode \in {"create", "delete"}
  /\ r.do \in {"updateAgent", "updateTeam"} => w.mode = "update"
  /\ r.do = "createTeam" => w.mode = "create"
  /\ r.do = "configure" => w.mode \in {"create", "update"}
  /\ w.mode = "delete" <=> w.row = None

(* a request is where requests of its kind may be                           *)
Placed(r) ==
  /\ r.at \in {"idle", "end"} <=> r.req = None
  /\ r.at = "write" => r.write \in Writes /\ Fits(r.req, r.write)
  /\ r.at = "marking" => r.req.do = "markActive"
  /\ r.at = "naming" => r.req.do = "load"
  /\ r.at = "refer" => r.req.do = "updateAgent" /\ r.req.family # None
  /\ r.at = "map" => r.req.do \in {"createAgent", "updateAgent"} /\ r.req.family # None
  /\ r.at = "unmap" => r.req.do = "deleteAgent"
  /\ r.at = "register" => r.req.do = "discover"
  /\ r.at = "reload" => r.req.do = "loadAll" /\ r.rest \subseteq Servers

(* what looked at the prompts found them, and those it found were created   *)
Informed(r) ==
  /\ r.at \in {"marking", "write"} /\ r.req.do \in {"revise", "updatePrompt", "markActive"} => cache.prompt.known
  /\ r.at = "naming" => cache.prompt.known
  /\ r.at \in {"marking", "write"} /\ r.req.do = "markActive" =>
       /\ r.rest \subseteq PromptIds /\ r.req.key \notin r.rest
       /\ \A p \in r.rest \cup {r.req.key} : p <= lastId
PlacesInv == \A c \in Callers : Placed(call[c]) /\ Informed(call[c])

(* the row of the cache that a write under way has changed                  *)
Changes(r, k, key) ==
  r.at = "write" /\ r.write.mode = "update" /\ k # "mcp" /\ r.write.kind = k /\ r.write.key = key
Changing(k, key) == \E c \in Callers : Changes(call[c], k, key)

(* a populated cache, and what was read to populate it, is the database,    *)
(* but for torn rows and those of writes under way                          *)
CacheInv ==
  \A k \in Kinds :
    /\ reading[k].at = "reading" => ~cache[k].known
    /\ \A key \in Keys[k] :
         /\ reading[k].at = "reading" => reading[k].rows[key] = db[k][key] \/ <<k, key>> \in torn
         /\ cache[k].known => \/ cache[k].rows[key] = db[k][key]
                              \/ <<k, key>> \in torn
                              \/ Changing(k, key) /\ cache[k].rows[key] # None

(* a prompt keeps its family in all copies, and ids are given in turn       *)
OfFamily(row, f) == row # None /\ row.family = f
Copies(r, p, f) == r.at = "write" /\ r.write.kind = "prompt" /\ r.write.key = p /\ OfFamily(r.write.row, f)
Has(p, f) ==
  \/ OfFamily(db.prompt[p], f) \/ OfFamily(cache.prompt.rows[p], f) \/ OfFamily(reading.prompt.rows[p], f)
  \/ \E c \in Callers : Copies(call[c], p, f)
CopiesInv ==
  \A p \in PromptIds : \A f \in Families : Has(p, f) =>
    /\ p <= lastId
    /\ \A g \in Families : Has(p, g) => g = f
SuitsInv == \A p \in PromptIds : db.prompt[p] # None => db.prompt[p].suits

(* an agent without a prompt is at work                                     *)
Excuses(r, a) ==
  /\ r.req # None /\ r.req.do \in {"createAgent", "deleteAgent"} /\ r.req.key = a
  /\ (r.at = "map") \/ (r.at = "write" /\ r.write.mode = "delete")
AgentInv ==
  \A a \in Agents : db.agent[a] # None /\ mapping[a] = None =>
    <<"agent", a>> \in torn \/ \E c \in Callers : Excuses(call[c], a)

(* requests at work on the same family or server have made it crowded       *)
CrowdInv ==
  /\ \A c, d \in Callers : c # d => Touched(call[c]) \cap Touched(call[d]) \subseteq crowded
  /\ \A c \in Callers : call[c].req # None /\ call[c].req.do = "updatePrompt" /\ call[c].req.active =>
       Touched(call[c]) \subseteq crowded

(* a server whose tools may be registered, and the requests about tools     *)
Offers(s) == (db.mcp[s] # None /\ db.mcp[s].enabled) \/ s \in crowded \/ <<"mcp", s>> \in torn
Tools(r) ==
  /\ r.at = "register" => Offers(r.req.key)
  /\ r.at = "reload" => \A s \in r.rest : Offers(s)
  /\ r.at = "write" /\ r.write.kind = "mcp" /\ r.write.mode = "delete" =>
       r.write.key \notin registered \/ r.write.key \in crowded
ToolsInv == (\A s \in registered : Offers(s)) /\ \A c \in Callers : Tools(call[c])

(* the active prompts of a family; a family that is not crowded, when       *)
(* nothing is torn                                                          *)
ActiveOf(f) == {p \in PromptIds : db.prompt[p] # None /\ db.prompt[p].family = f /\ db.prompt[p].active}
Calm(f) == f \notin crowded /\ \A p \in PromptIds : <<"prompt", p>> \notin torn

(* a calm family has one active prompt at most                              *)
OneInv == \A f \in Families : Calm(f) => \A p, q \in ActiveOf(f) : p = q
(* what is written is of a family at work on; what becomes active is alone  *)
Writer(r) ==
  r.at = "write" /\ r.write.kind = "prompt" /\ r.write.row # None =>
    /\ r.write.row.family \in Touched(r) \cup crowded
    /\ Calm(r.write.row.family) /\ r.write.row.active => ActiveOf(r.write.row.family) \subseteq {r.write.key}
(* what the loop over a family still has to deactivate                      *)
Marks(r, f) ==
  /\ f \in Touched(r) \cup crowded
  /\ \A p \in r.rest \cup {r.req.key} : \A g \in Families : Has(p, g) => g = f
  /\ Calm(f) => ActiveOf(f) \subseteq (r.rest \cap r.was) \cup {r.req.key}
                                        \cup (IF r.at = "write" THEN {r.write.key} ELSE {})
Marker(r) == r.at \in {"marking", "write"} /\ r.req.do = "markActive" => \E f \in Families : Marks(r, f)
FamilyInv == OneInv /\ \A c \in Callers : Writer(call[c]) /\ Marker(call[c])

(* no row of the cache differs from the database                            *)
Unwritten == torn = {} /\ \A p \in PromptIds : ~Changing("prompt", p)
Current(a) ==
  template[a].known /\ ~template[a].stale /\ db.agent[a] # None /\ mapping[a] # None =>
    IF ActiveOf(mapping[a]) = {} THEN template[a].text = None
    ELSE \E p \in ActiveOf(mapping[a]) : template[a].text = db.prompt[p].text
Found(r) ==
  r.at = "naming" /\ ~r.raced /\ mapping[r.req.key] # None =>
    r.was = ActiveOf(mapping[r.req.key]) /\ r.was # {}
TemplateInv == Unwritten => (\A a \in Agents : Current(a)) /\ \A c \in Callers : Found(call[c])

(* the inductive invariant                                                  *)
DefsInv ==
  /\ DefsTypeOK /\ PlacesInv /\ CacheInv /\ CopiesInv /\ SuitsInv
  /\ AgentInv /\ CrowdInv /\ ToolsInv /\ FamilyInv /\ TemplateInv

-----------------------------------------------------------------------------
(* The tables                                                               *)

(* There are four kinds of rows, each with its keys.                        *)
LEMMA FourKinds ==
  /\ Kinds = {"prompt", "agent", "team", "mcp"}
  /\ Keys["prompt"] = PromptIds /\ Keys["agent"] = Agents /\ Keys["team"] = Teams /\ Keys["mcp"] = Servers
  /\ RowOf["prompt"] = PromptRows /\ RowOf["agent"] = [text : Phrases] /\ RowOf["team"] = [text : Phrases]
  /\ RowOf["mcp"] = [enabled : BOOLEAN]
  /\ \A k \in Kinds : None \notin RowOf[k]
BY DefinitionsAssumption DEF Kinds, Keys, RowOf

(* The same of the keys only.                                               *)
LEMMA FourKeys ==
  /\ Kinds = {"prompt", "agent", "team", "mcp"}
  /\ Keys["prompt"] = PromptIds /\ Keys["agent"] = Agents /\ Keys["team"] = Teams /\ Keys["mcp"] = Servers
BY FourKinds

(* A write is of one of the kinds and has a row of that kind or none.       *)
LEMMA WritesAre ==
  \A w \in Writes : /\ w.mode \in {"create", "update", "delete"} /\ w.kind \in Kinds
                    /\ w.key \in Keys[w.kind] \cup {0} /\ w.row \in RowOf[w.kind] \cup {None}
BY FourKinds DEF Writes, WritesOf

(* What a request issues is a write.                                        *)
LEMMA IssuesWrite ==
  ASSUME NEW k \in Kinds, NEW mode \in {"create", "update", "delete"}, NEW key \in Keys[k] \cup {0},
         NEW row \in RowOf[k] \cup {None}
  PROVE  /\ Write(mode, k, key, row) \in Writes
         /\ Write(mode, k, key, row).mode = mode /\ Write(mode, k, key, row).kind = k
         /\ Write(mode, k, key, row).key = key /\ Write(mode, k, key, row).row = row
BY FourKinds DEF Writes, WritesOf, Write

(* A table of a kind is a table.                                            *)
LEMMA TableOfKind == \A k \in Kinds : Tables(k) \subseteq AnyTable
BY FourKinds DEF AnyTable

(* A row changed in one cache.                                              *)
LEMMA CacheRows ==
  ASSUME TablesOK, NEW k \in Kinds, NEW key \in Keys[k], NEW row \in RowOf[k] \cup {None},
         ChangeInPlace(k, key, row)
  PROVE  /\ cache' \in [Kinds -> [known : BOOLEAN, rows : AnyTable]]
         /\ \A j \in Kinds : cache'[j].rows \in Tables(j) /\ cache'[j].known = cache[j].known
         /\ \A j \in Kinds : \A x \in Keys[j] :
              cache'[j].rows[x] = IF j = k /\ x = key THEN row ELSE cache[j].rows[x]
<1>1. /\ cache \in [Kinds -> [known : BOOLEAN, rows : AnyTable]]
      /\ cache[k] \in [known : BOOLEAN, rows : AnyTable] /\ cache[k].rows \in Tables(k)
  BY DEF TablesOK
<1>2. DOMAIN cache[k].rows = Keys[k]
  BY <1>1 DEF Tables
<1>3. cache' = [cache EXCEPT ![k] = [cache[k] EXCEPT !.rows = [cache[k].rows EXCEPT ![key] = row]]]
  BY DEF ChangeInPlace
<1>4. [cache[k].rows EXCEPT ![key] = row] \in Tables(k)
  BY <1>1 DEF Tables
<1>5. [cache[k] EXCEPT !.rows = [cache[k].rows EXCEPT ![key] = row]] \in [known : BOOLEAN, rows : AnyTable]
  BY <1>1, <1>4, TableOfKind
<1>6. /\ cache' \in [Kinds -> [known : BOOLEAN, rows : AnyTable]]
      /\ \A j \in Kinds \ {k} : cache'[j] = cache[j]
      /\ cache'[k].known = cache[k].known /\ cache'[k].rows = [cache[k].rows EXCEPT ![key] = row]
  BY <1>1, <1>3, <1>5
<1>7. \A x \in Keys[k] : [cache[k].rows EXCEPT ![key] = row][x] = IF x = key THEN row ELSE cache[k].rows[x]
  BY <1>2
<1>8. \A j \in Kinds : cache[j].rows \in Tables(j)
  BY DEF TablesOK
<1> QED
  BY <1>4, <1>6, <1>7, <1>8

(* The same, where nothing else changes.                                    *)
LEMMA CacheChange ==
  ASSUME TablesOK, NEW k \in Kinds, NEW key \in Keys[k], NEW row \in RowOf[k] \cup {None},
         ChangeInPlace(k, key, row), UNCHANGED <<db, reading>>
  PROVE  /\ TablesOK'
         /\ \A j \in Kinds : cache'[j].known = cache[j].known
         /\ \A j \in Kinds : \A x \in Keys[j] :
              cache'[j].rows[x] = IF j = k /\ x = key THEN row ELSE cache[j].rows[x]
<1>2. /\ cache' \in [Kinds -> [known : BOOLEAN, rows : AnyTable]]
      /\ \A j \in Kinds : cache'[j].rows \in Tables(j) /\ cache'[j].known = cache[j].known
      /\ \A j \in Kinds : \A x \in Keys[j] :
           cache'[j].rows[x] = IF j = k /\ x = key THEN row ELSE cache[j].rows[x]
  BY CacheRows
<1> QED
  BY <1>2 DEF TablesOK

(* A row changed in the database.                                           *)
InTable(k, key, row) == db' = [db EXCEPT ![k][key] = row]
(* What such a change makes of the tables.                                  *)
LEMMA DbChange ==
  ASSUME TablesOK, NEW k \in Kinds, NEW key \in Keys[k], NEW row \in RowOf[k] \cup {None},
         InTable(k, key, row)
  PROVE  /\ db' \in [Kinds -> AnyTable]
         /\ \A j \in Kinds : db'[j] \in Tables(j)
         /\ \A j \in Kinds : \A x \in Keys[j] : db'[j][x] = IF j = k /\ x = key THEN row ELSE db[j][x]
<1>1. db \in [Kinds -> AnyTable] /\ \A j \in Kinds : db[j] \in Tables(j)
  BY DEF TablesOK
<1>2. DOMAIN db[k] = Keys[k]
  BY <1>1 DEF Tables
<1>3. db'[k] = [db[k] EXCEPT ![key] = row] /\ \A j \in Kinds \ {k} : db'[j] = db[j]
  BY <1>1 DEF InTable
<1>4. [db[k] EXCEPT ![key] = row] \in Tables(k)
  BY <1>1 DEF Tables
<1>5. db' \in [Kinds -> AnyTable]
  BY <1>1, <1>4, TableOfKind DEF InTable
<1>6. \A x \in Keys[k] : [db[k] EXCEPT ![key] = row][x] = IF x = key THEN row ELSE db[k][x]
  BY <1>2
<1> QED
  BY <1>1, <1>3, <1>4, <1>5, <1>6

(* The rows of a kind, by name.                                             *)
LEMMA TablesAre ==
  ASSUME TablesOK
  PROVE  /\ db.prompt = db["prompt"] /\ db.agent = db["agent"] /\ db.mcp = db["mcp"]
         /\ cache.prompt = cache["prompt"] /\ reading.prompt = reading["prompt"]
         /\ \A k \in Kinds : \A key \in Keys[k] : /\ db[k][key] \in RowOf[k] \cup {None}
                                                   /\ cache[k].rows[key] \in RowOf[k] \cup {None}
                                                   /\ reading[k].rows[key] \in RowOf[k] \cup {None}
         /\ \A p \in PromptIds : /\ db.prompt[p] \in PromptRows \cup {None}
                                 /\ cache.prompt.rows[p] \in PromptRows \cup {None}
                                 /\ reading.prompt.rows[p] \in PromptRows \cup {None}
         /\ \A a \in Agents : db.agent[a] \in [text : Phrases] \cup {None}
         /\ \A s \in Servers : db.mcp[s] \in [enabled : BOOLEAN] \cup {None}
<1>1. \A k \in Kinds : \A key \in Keys[k] : /\ db[k][key] \in RowOf[k] \cup {None}
                                             /\ cache[k].rows[key] \in RowOf[k] \cup {None}
                                             /\ reading[k].rows[key] \in RowOf[k] \cup {None}
  BY DEF TablesOK, Tables
<1> QED
  BY <1>1, FourKinds

-----------------------------------------------------------------------------
(* Requests that end                                                        *)

(* A request that has not begun, or a caller that has no more of them.      *)
Settled(r) == r \in CallType /\ r.at \in {"begin", "end"} /\ (r.at = "end" <=> r.req = None)

Fresh(at, req, job, agenda) ==
  [at |-> at, req |-> req, job |-> job, agenda |-> agenda, write |-> None, rest |-> {}, was |-> {}, raced |-> FALSE]

(* A caller at the beginning of a request, or at the end.                   *)
LEMMA FreshPlaces ==
  /\ \A req \in Requests, job \in Seq(Requests), agenda \in Seq(Jobs) :
       Settled(Fresh("begin", req, job, agenda))
  /\ Settled(Fresh("end", None, <<>>, <<>>))
<1>1. "begin" \in Places /\ "end" \in Places
  BY DEF Places
<1>2. None \notin Requests
  BY DefinitionsAssumption
<1>3. <<>> \in Seq(Requests) /\ <<>> \in Seq(Jobs)
  OBVIOUS
<1> QED
  BY <1>1, <1>2, <1>3 DEF Fresh, CallType, Settled

(* When a request is done or throws, its caller is at the beginning of the  *)
(* next one or at the end.                                                  *)
LEMMA Ends ==
  ASSUME NEW r \in CallType
  PROVE  Settled(Done(r)) /\ Settled(Thrown(r))
<1>1. ASSUME NEW q \in CallType PROVE Settled(Done(q))
  <2>1. CASE q.job # <<>>
    <3>1. q.job \in Seq(Requests) /\ Head(q.job) \in Requests /\ Tail(q.job) \in Seq(Requests) /\ q.agenda \in Seq(Jobs)
      BY <2>1 DEF CallType
    <3>2. Done(q) = Fresh("begin", Head(q.job), Tail(q.job), q.agenda)
      BY <2>1 DEF Done, NoCall, Fresh
    <3> QED
      BY <3>1, <3>2, FreshPlaces, Zenon
  <2>2. CASE q.job = <<>> /\ q.agenda # <<>>
    <3>1. q.agenda \in Seq(Jobs) /\ Head(q.agenda) \in Jobs /\ Tail(q.agenda) \in Seq(Jobs)
      BY <2>2 DEF CallType
    <3>2. Head(q.agenda) \in Seq(Requests) /\ Head(q.agenda) # <<>>
      BY <3>1, DefinitionsAssumption
    <3>3. Head(Head(q.agenda)) \in Requests /\ Tail(Head(q.agenda)) \in Seq(Requests)
      BY <3>2
    <3>4. Done(q) = Fresh("begin", Head(Head(q.agenda)), Tail(Head(q.agenda)), Tail(q.agenda))
      BY <2>2 DEF Done, NoCall, Fresh
    <3> QED
      BY <3>1, <3>3, <3>4, FreshPlaces, Zenon
  <2>3. CASE q.job = <<>> /\ q.agenda = <<>>
    <3>1. Done(q) = Fresh("end", None, <<>>, <<>>)
      BY <2>3 DEF Done, NoCall, Fresh
    <3> QED
      BY <3>1, FreshPlaces, Zenon
  <2> QED
    BY <2>1, <2>2, <2>3
<1>2. [r EXCEPT !.job = <<>>] \in CallType
  <2>1. <<>> \in Seq(Requests)
    OBVIOUS
  <2> QED
    BY <2>1 DEF CallType
<1>3. Settled(Done([r EXCEPT !.job = <<>>]))
  BY <1>1, <1>2
<1> QED
  BY <1>1, <1>3 DEF Thrown

-----------------------------------------------------------------------------
(* Numbers: induction by the least number for which something fails         *)

(* A set of numbers that is not empty has a least one.                      *)
LEMMA Least ==
  ASSUME NEW T \in SUBSET Nat, T # {}
  PROVE  \E n \in T : \A m \in T : n <= m
<1>1. PICK n \in T : \A m \in T : ~(<<m, n>> \in OpToRel(<, Nat))
  BY WFMin, NatLessThanWellFounded
<1>2. \A m \in T : ~(m < n)
  BY <1>1 DEF OpToRel
<1> QED
  BY <1>2

(* As many numbers as there are prompts have a bound.                       *)
LEMMA Bounded ==
  ASSUME NEW v \in [PromptIds -> Nat]
  PROVE  \E b \in Nat : \A p \in PromptIds : v[p] <= b
<1> DEFINE T == {n \in 0 .. MaxPrompts : ~ \E b \in Nat : \A p \in 1 .. n : v[p] <= b}
<1>0. MaxPrompts \in Nat
  BY DefinitionsAssumption
<1>1. SUFFICES ASSUME T # {} PROVE FALSE
  <2> SUFFICES ASSUME T = {} PROVE \E b \in Nat : \A p \in 1 .. MaxPrompts : v[p] <= b
    BY DEF PromptIds
  <2>1. MaxPrompts \in 0 .. MaxPrompts
    BY <1>0
  <2>2. MaxPrompts \notin T
    <3> HIDE DEF T
    <3> QED
      OBVIOUS
  <2> QED
    BY <2>1, <2>2
<1>2. PICK n \in T : \A m \in T : n <= m
  <2>1. T \in SUBSET Nat
    BY <1>0
  <2> HIDE DEF T
  <2> QED
    BY <1>1, <2>1, Least
<1>3. n \in 1 .. MaxPrompts
  <2>1. ASSUME n = 0 PROVE FALSE
    <3>1. \A p \in 1 .. n : v[p] <= 0
      BY <2>1
    <3>2. 0 \in Nat /\ \E b \in Nat : \A p \in 1 .. n : v[p] <= b
      BY <3>1
    <3> QED
      BY <3>2, <1>2
  <2> QED
    BY <2>1, <1>0, <1>2
<1>4. n - 1 \in 0 .. MaxPrompts
  BY <1>0, <1>3
<1>5. n - 1 \notin T
  <2> HIDE DEF T
  <2> QED
    BY <1>2, <1>3
<1>6. PICK b \in Nat : \A p \in 1 .. (n - 1) : v[p] <= b
  BY <1>4, <1>5
<1>7. v[n] \in Nat
  BY <1>3 DEF PromptIds
<1>8. PICK d \in Nat : b <= d /\ v[n] <= d
  BY <1>7
<1>9. \A p \in 1 .. n : v[p] <= d
  <2> SUFFICES ASSUME NEW p \in 1 .. n PROVE v[p] <= d
    OBVIOUS
  <2>1. v[p] \in Nat
    BY <1>0, <1>3 DEF PromptIds
  <2>2. CASE p = n
    BY <2>2, <1>8
  <2>3. CASE p # n
    <3>1. p \in 1 .. (n - 1)
      BY <2>3, <1>3
    <3> QED
      BY <3>1, <1>6, <1>8, <2>1
  <2> QED
    BY <2>2, <2>3
<1> QED
  BY <1>9, <1>2

(* The largest version of some prompts is a number.                         *)
LEMMA LargestIsANumber ==
  ASSUME NEW v \in [PromptIds -> Nat], NEW P \in SUBSET PromptIds
  PROVE  Largest({v[p] : p \in P}) \in Nat
<1> DEFINE S == {v[p] : p \in P}
           T == {b \in Nat : \A m \in S : m <= b}
<1>1. S \subseteq Nat
  OBVIOUS
<1>2. T \in SUBSET Nat /\ T # {}
  BY Bounded
<1>3. PICK b \in T : \A d \in T : b <= d
  <2> HIDE DEF T
  <2> QED
    BY <1>2, Least
<1>4. b \in Nat /\ \A m \in S : m <= b
  OBVIOUS
<1>5. b \in S \cup {0}
  <2> HIDE DEF S
  <2>1. SUFFICES ASSUME b \notin S, b # 0 PROVE FALSE
    OBVIOUS
  <2>2. b - 1 \in Nat
    BY <1>4, <2>1
  <2>3. \A m \in S : m <= b - 1
    BY <1>1, <1>4, <2>1
  <2>4. b - 1 \in T
    BY <2>2, <2>3
  <2> QED
    BY <2>4, <1>3, <1>4
<1>6. \E n \in S \cup {0} : \A m \in S : n >= m
  BY <1>1, <1>4, <1>5
<1>7. Largest(S) \in S \cup {0}
  <2> HIDE DEF S
  <2> QED
    BY <1>6 DEF Largest
<1> QED
  BY <1>1, <1>7

-----------------------------------------------------------------------------
(* What a step leaves as it was.  A request r is good if everything the     *)
(* invariant says of a caller's request holds of it.                        *)

Good(r) ==
  /\ r \in CallType /\ Placed(r) /\ Informed(r)
  /\ Tools(r) /\ Writer(r) /\ Marker(r) /\ (Unwritten => Found(r))

(* The invariant says that all requests are good, and the rest of it is     *)
(* about the tables.                                                        *)
TablesInv ==
  /\ TablesOK
  /\ mapping \in [Agents -> Families \cup {None}]
  /\ template \in [Agents -> [known : BOOLEAN, text : Phrases, stale : BOOLEAN]]
  /\ registered \subseteq Servers
  /\ lastId \in 0 .. MaxPrompts
  /\ CacheInv /\ CopiesInv /\ SuitsInv /\ AgentInv /\ CrowdInv /\ OneInv
  /\ \A s \in registered : Offers(s)
  /\ Unwritten => \A a \in Agents : Current(a)

(* The two together are the invariant.                                      *)
LEMMA DefsInvIs ==
  DefsInv <=> TablesInv /\ call \in [Callers -> CallType] /\ \A c \in Callers : Good(call[c])
BY DEF DefsInv, TablesInv, Good, DefsTypeOK, PlacesInv, ToolsInv, FamilyInv, TemplateInv

(* The same of the next state.                                              *)
LEMMA DefsInvNext ==
  ASSUME TablesInv', call' \in [Callers -> CallType], \A c \in Callers : Good(call[c])'
  PROVE  DefsInv'
BY DEF DefsInv, TablesInv, Good, DefsTypeOK, PlacesInv, ToolsInv, FamilyInv, TemplateInv

(* histories grow, and nobody works on a family or server unseen            *)
Onward == torn \subseteq torn' /\ crowded \subseteq crowded' /\ CrowdInv'

(* what a step leaves alone that only moves a request                       *)
Still == UNCHANGED <<db, cache, reading, mapping, template, registered, lastId, torn>>

(* No prompt changes its family when there are no new copies of rows.       *)
LEMMA CopiesFrame ==
  ASSUME CopiesInv, lastId \in 0 .. MaxPrompts, lastId' \in Nat, lastId <= lastId',
         \A p \in PromptIds : \A f \in Families : Has(p, f)' => Has(p, f)
  PROVE  CopiesInv'
BY DefinitionsAssumption DEF CopiesInv, PromptIds

(* Agents keep what excuses them.                                           *)
LEMMA AgentFrame ==
  ASSUME AgentInv, db'.agent = db.agent, mapping' = mapping, torn \subseteq torn',
         \A c \in Callers : \A a \in Agents : Excuses(call[c], a) => Excuses(call'[c], a) \/ <<"agent", a>> \in torn'
  PROVE  AgentInv'
BY DEF AgentInv

(* A family has no two active prompts when none becomes active.             *)
LEMMA OneFrame ==
  ASSUME OneInv, Onward, \A f \in Families : Calm(f)' => ActiveOf(f)' \subseteq ActiveOf(f)
  PROVE  OneInv'
BY DEF OneInv, Onward, Calm

(* A family that is calm was so before.                                     *)
LEMMA CalmBefore ==
  ASSUME Onward, NEW f, Calm(f)'
  PROVE  Calm(f)
BY DEF Onward, Calm

(* A request that stays is good as long as its family is left alone.        *)
LEMMA WriterFrame ==
  ASSUME Onward, NEW r, Writer(r), Placed(r), Touched(r) \subseteq Touched(r)' \cup crowded',
         \A f \in Families : Calm(f)' /\ f \in Touched(r) => ActiveOf(f)' \subseteq ActiveOf(f)
  PROVE  Writer(r)'
<1>0. r.at = "write" /\ r.write.kind = "prompt" /\ r.write.row # None => r.write.row.family \in Families
  <2> SUFFICES ASSUME r.at = "write", r.write.kind = "prompt", r.write.row # None PROVE r.write.row.family \in Families
    OBVIOUS
  <2>1. r.write \in Writes
    BY DEF Placed
  <2>2. r.write.row \in RowOf["prompt"] \cup {None}
    BY <2>1, WritesAre
  <2>3. r.write.row \in PromptRows
    BY <2>2, FourKinds
  <2> QED
    BY <2>3 DEF PromptRows
<1>1. SUFFICES ASSUME r.at = "write", r.write.kind = "prompt", r.write.row # None,
                      NEW f \in Families, f = r.write.row.family
               PROVE  /\ f \in Touched(r)' \cup crowded'
                      /\ Calm(f)' /\ r.write.row.active => ActiveOf(f)' \subseteq {r.write.key}
  BY <1>0 DEF Writer
<1>2. f \in Touched(r) \cup crowded /\ (Calm(f) /\ r.write.row.active => ActiveOf(f) \subseteq {r.write.key})
  BY <1>1 DEF Writer
<1>3. Calm(f)' => Calm(f) /\ f \notin crowded
  BY CalmBefore DEF Calm
<1> QED
  BY <1>2, <1>3 DEF Onward

(* Nor has a loop more to deactivate.                                       *)
LEMMA MarkerFrame ==
  ASSUME Onward, NEW r, Marker(r), Touched(r) \subseteq Touched(r)' \cup crowded',
         \A f \in Families : Calm(f)' /\ f \in Touched(r) => ActiveOf(f)' \subseteq ActiveOf(f),
         \A p \in r.rest \cup {r.req.key} : \A f \in Families : Has(p, f)' => Has(p, f)
  PROVE  Marker(r)'
<1>1. SUFFICES ASSUME NEW f \in Families, Marks(r, f) PROVE Marks(r, f)'
  BY DEF Marker
<1>2. Calm(f)' => Calm(f) /\ f \notin crowded
  BY CalmBefore DEF Calm
<1>3. f \in Touched(r)' \cup crowded'
  BY <1>1 DEF Onward, Marks
<1>4. Calm(f)' => ActiveOf(f)' \subseteq ActiveOf(f)
  BY <1>1, <1>2 DEF Marks
<1>5. \A p \in r.rest \cup {r.req.key} : \A g \in Families : Has(p, g)' => g = f
  BY <1>1 DEF Marks
<1> QED
  BY <1>1, <1>2, <1>3, <1>4, <1>5 DEF Marks

(* Requests about tools are right as long as servers are left alone.        *)
LEMMA ToolsFrame ==
  ASSUME Onward, db'.mcp = db.mcp, registered' \subseteq registered, NEW r, Tools(r)
  PROVE  Tools(r)'
BY DEF Onward, Tools, Offers

(* And servers keep offering what they did.                                 *)
LEMMA OffersFrame ==
  ASSUME Onward, db'.mcp = db.mcp, NEW s, Offers(s)
  PROVE  Offers(s)'
BY DEF Onward, Offers

(* Of the tables nothing changes, nor which rows writes have.               *)
LEMMA TouchedFrame ==
  ASSUME UNCHANGED <<db, cache>>, NEW r
  PROVE  Touched(r)' = Touched(r)
BY DEF Touched, Rows

(* A request that a step neither moves nor contradicts stays good.          *)
LEMMA GoodFrame ==
  ASSUME Onward, UNCHANGED <<db, cache, mapping, lastId>>, registered' \subseteq registered, NEW r, Good(r),
         \A p \in PromptIds : \A f \in Families : Has(p, f)' => Has(p, f),
         Unwritten' => Unwritten
  PROVE  Good(r)'
<1>1. Informed(r)'
  BY DEF Informed, Good
<1>2. Tools(r)'
  BY ToolsFrame DEF Good
<1>3. Touched(r)' = Touched(r)
  BY TouchedFrame
<1>4. \A f : ActiveOf(f)' = ActiveOf(f)
  BY DEF ActiveOf
<1>5. Writer(r)'
  BY <1>3, <1>4, WriterFrame DEF Good
<1>6. Marker(r)'
  <2>1. CASE r.at \in {"marking", "write"} /\ r.req.do = "markActive"
    <3>1. r.rest \subseteq PromptIds /\ r.req.key \in PromptIds
      BY <2>1, DefinitionsAssumption DEF Good, Informed, CallType, Placed, WellFormed
    <3> QED
      BY <3>1, <1>3, <1>4, MarkerFrame DEF Good
  <2> QED
    BY <2>1 DEF Marker
<1>7. Unwritten' => Found(r)'
  BY <1>4 DEF Good, Found
<1> QED
  BY <1>1, <1>2, <1>5, <1>6, <1>7 DEF Good

-----------------------------------------------------------------------------
(* Steps that change requests only                                          *)

(* Whoever has ended a request, or is idle, is good.                        *)
LEMMA SettledIsGood ==
  ASSUME NEW r, Settled(r)
  PROVE  Good(r)
BY DEF Settled, Good, Placed, Informed, Tools, Writer, Marker, Found

(* The callers become f: each request stays or is good, none that holds a   *)
(* row or excuses an agent is dropped, and none brings a row of its own.    *)
LEMMA CallsStep ==
  ASSUME DefsInv, Onward, UNCHANGED <<db, cache, mapping, template, lastId>>, registered' \subseteq registered,
         TablesOK',
         \A k \in Kinds : reading'[k].at = "reading" =>
           /\ ~cache[k].known
           /\ \A key \in Keys[k] : reading'[k].rows[key] = db[k][key] \/ <<k, key>> \in torn',
         \A p \in PromptIds : \A g \in Families : OfFamily(reading'.prompt.rows[p], g) => Has(p, g),
         NEW f \in [Callers -> CallType], call' = f,
         \A d \in Callers : f[d] = call[d] \/ Good(f[d]),
         \A d \in Callers : \A a \in Agents : Excuses(call[d], a) => Excuses(f[d], a) \/ <<"agent", a>> \in torn',
         \A d \in Callers : \A k \in Kinds : \A key \in Keys[k] :
           Changes(call[d], k, key) => Changes(f[d], k, key) \/ <<k, key>> \in torn',
         \A d \in Callers : \A p \in PromptIds : \A g \in Families : Copies(f[d], p, g) => Has(p, g)
  PROVE  DefsInv'
<1>0. TablesInv /\ \A c \in Callers : Good(call[c])
  BY DefsInvIs
<1>1. \A k \in Kinds : \A key \in Keys[k] : Changing(k, key) => Changing(k, key)' \/ <<k, key>> \in torn'
  BY DEF Changing
<1>2. CacheInv'
  BY <1>0, <1>1 DEF TablesInv, CacheInv, Onward
<1>3. \A p \in PromptIds : \A g \in Families : Has(p, g)' => Has(p, g)
  BY DEF Has
<1>4. CopiesInv'
  BY <1>0, <1>3, CopiesFrame DEF TablesInv
<1>5. AgentInv'
  BY <1>0, AgentFrame DEF TablesInv, Onward
<1>6. \A g : ActiveOf(g)' = ActiveOf(g)
  BY DEF ActiveOf
<1>7. OneInv'
  BY <1>0, <1>6, OneFrame DEF TablesInv
<1>8. Unwritten' => Unwritten
  <2> SUFFICES ASSUME Unwritten' PROVE Unwritten
    OBVIOUS
  <2>1. torn = {} /\ torn' = {}
    BY DEF Unwritten, Onward
  <2>2. ASSUME NEW p \in PromptIds, Changing("prompt", p) PROVE FALSE
    BY <2>1, <2>2, <1>1, FourKinds DEF Unwritten
  <2> QED
    BY <2>1, <2>2 DEF Unwritten
<1>9. Unwritten' => \A a \in Agents : Current(a)'
  BY <1>0, <1>6, <1>8 DEF TablesInv, Current
<1>10. \A s \in registered' : Offers(s)'
  BY <1>0, OffersFrame DEF TablesInv
<1>11. TablesInv'
  BY <1>0, <1>2, <1>4, <1>5, <1>7, <1>9, <1>10 DEF TablesInv, TablesOK, SuitsInv, Onward
<1>12. ASSUME NEW d \in Callers PROVE Good(call[d])'
  <2>1. Good(f[d])
    BY <1>0
  <2>2. Good(f[d])'
    BY <2>1, <1>3, <1>8, GoodFrame
  <2> QED
    BY <2>2
<1> QED
  BY <1>11, <1>12, DefsInvNext

(* One caller's request becomes r, and nothing else changes.                *)
LEMMA CallStep ==
  ASSUME DefsInv, Onward, Still, NEW c \in Callers, NEW r, call' = [call EXCEPT ![c] = r], Good(r),
         call[c].at # "write",
         call[c].at = "map" /\ call[c].req.do = "createAgent" => Excuses(r, call[c].req.key),
         \A p \in PromptIds : \A g \in Families : Copies(r, p, g) => Has(p, g)
  PROVE  DefsInv'
<1>1. call \in [Callers -> CallType] /\ r \in CallType
  BY DEF DefsInv, DefsTypeOK, Good
<1>0. TablesOK /\ TablesOK'
  BY DEF DefsInv, DefsTypeOK, TablesOK, Still
<1>11. \A k \in Kinds : reading'[k].at = "reading" =>
         ~cache[k].known /\ \A key \in Keys[k] : reading'[k].rows[key] = db[k][key] \/ <<k, key>> \in torn'
  BY DEF DefsInv, CacheInv, Still
<1>12. \A p \in PromptIds : \A g \in Families : OfFamily(reading'.prompt.rows[p], g) => Has(p, g)
  BY DEF Has, Still
<1>2. PICK f : f = [call EXCEPT ![c] = r]
  OBVIOUS
<1>3. f \in [Callers -> CallType] /\ f[c] = r /\ \A d \in Callers \ {c} : f[d] = call[d]
  BY <1>1, <1>2
<1>4. call' = f
  BY <1>2
<1>5. \A d \in Callers : f[d] = call[d] \/ Good(f[d])
  BY <1>3
<1>6. Placed(call[c])
  BY DEF DefsInv, PlacesInv
<1>7. ASSUME NEW a \in Agents, Excuses(call[c], a) PROVE Excuses(r, a)
  BY <1>6, <1>7 DEF Excuses, Placed
<1>8. \A d \in Callers : \A a \in Agents : Excuses(call[d], a) => Excuses(f[d], a)
  BY <1>3, <1>7
<1>9. \A d \in Callers : \A k, key : Changes(call[d], k, key) => Changes(f[d], k, key)
  BY <1>3 DEF Changes
<1>10. \A d \in Callers : \A p \in PromptIds : \A g \in Families : Copies(f[d], p, g) => Has(p, g)
  BY <1>3 DEF Has
<1> QED
  BY <1>3, <1>4, <1>5, <1>8, <1>9, <1>10, <1>0, <1>11, <1>12, CallsStep DEF Still

(* A request that is done, or throws, without having been about to write or *)
(* to give an agent its prompt.                                             *)
LEMMA EndStep ==
  ASSUME DefsInv, Onward, Still, NEW c \in Callers, Finish(c) \/ Fail(c),
         call[c].at # "write", call[c].at = "map" => call[c].req.do # "createAgent"
  PROVE  DefsInv'
<1>1. call[c] \in CallType
  BY DEF DefsInv, DefsTypeOK
<1>2. ASSUME NEW r, r = Done(call[c]) \/ r = Thrown(call[c]), call' = [call EXCEPT ![c] = r]
      PROVE  DefsInv'
  <2>1. Settled(r)
    BY <1>1, <1>2, Ends
  <2>2. \A p, g : ~Copies(r, p, g)
    BY <2>1 DEF Copies, Settled
  <2> QED
    BY <1>2, <2>1, <2>2, SettledIsGood, CallStep
<1> QED
  BY <1>2 DEF Finish, Fail, To

-----------------------------------------------------------------------------
(* What a caller sees of a family                                           *)

(* What a request that is not done is about.                                *)
LEMMA RequestsAre ==
  ASSUME DefsInv, NEW c \in Callers
  PROVE  /\ call[c] \in CallType /\ Good(call[c])
         /\ call[c].at \notin {"idle", "end"} => call[c].req \in Requests /\ WellFormed(call[c].req)
<1>1. call[c] \in CallType /\ Good(call[c])
  BY DefsInvIs DEF Good
<1>2. call[c].at \notin {"idle", "end"} => call[c].req # None
  BY <1>1 DEF Good, Placed
<1>3. call[c].req \in Requests \cup {None}
  BY <1>1 DEF CallType
<1> QED
  BY <1>1, <1>2, <1>3, DefinitionsAssumption

(* A prompt of a calm family that a call is at work on, and nobody else,    *)
(* is in the cache as it is in the database.                                *)
LEMMA CalmView ==
  ASSUME DefsInv, NEW c \in Callers, call[c].at # "write", cache["prompt"].known,
         NEW f \in Families, Calm(f), f \in Touched(call[c]), NEW p \in PromptIds, Has(p, f)
  PROVE  cache.prompt.rows[p] = db.prompt[p]
<1>1. TablesOK /\ CacheInv /\ CrowdInv /\ CopiesInv /\ \A d \in Callers : Good(call[d])
  BY DefsInvIs DEF TablesInv
<1>2. SUFFICES ASSUME NEW d \in Callers, Changes(call[d], "prompt", p) PROVE FALSE
  <2>1. "prompt" \in Kinds /\ p \in Keys["prompt"] /\ <<"prompt", p>> \notin torn
    BY FourKinds DEF Calm
  <2> QED
    BY <1>1, <2>1, TablesAre DEF CacheInv, Changing
<1>3. d # c
  BY <1>2 DEF Changes
<1>4. call[d].at = "write" /\ call[d].write.mode = "update" /\ call[d].write.kind = "prompt" /\ call[d].write.key = p
  BY <1>2 DEF Changes
<1>5. call[d].write.row # None /\ call[d].write \in Writes
  BY <1>1, <1>4 DEF Good, Placed, Fits, CallType
<1>6. call[d].write.row \in PromptRows
  BY <1>4, <1>5, WritesAre, FourKinds
<1>7. Has(p, call[d].write.row.family) /\ call[d].write.row.family \in Families
  BY <1>4, <1>5, <1>6 DEF Has, Copies, OfFamily, PromptRows
<1>8. call[d].write.row.family = f
  BY <1>1, <1>7 DEF CopiesInv
<1>9. f \in Touched(call[d])
  BY <1>1, <1>4, <1>5, <1>8 DEF Good, Writer, Calm
<1> QED
  BY <1>1, <1>3, <1>9 DEF CrowdInv, Calm

(* Active prompts of such a family are seen, with their models.             *)
LEMMA CalmActive ==
  ASSUME DefsInv, NEW c \in Callers, call[c].at # "write", cache["prompt"].known,
         NEW f \in Families, Calm(f), f \in Touched(call[c]), NEW p \in ActiveOf(f)
  PROVE  p \in Family(f) /\ p \in Suited(Family(f)) /\ p \in Active(Family(f)) /\ p \in Active(PromptIds)
<1>1. p \in PromptIds /\ db.prompt[p] # None /\ db.prompt[p].family = f /\ db.prompt[p].active
  BY DEF ActiveOf
<1>2. Has(p, f)
  BY <1>1 DEF Has, OfFamily
<1>3. cache.prompt.rows[p] = db.prompt[p]
  BY <1>1, <1>2, CalmView
<1>4. db.prompt[p].suits
  BY <1>1 DEF DefsInv, SuitsInv
<1>5. Rows("prompt") = cache.prompt.rows
  BY TablesAre DEF Rows, DefsInv, DefsTypeOK
<1> QED
  BY <1>1, <1>3, <1>4, <1>5 DEF Family, Suited, Active, Present

-----------------------------------------------------------------------------
(* Requests that end without having changed anything                        *)

(* Requests that begin, fail or end and change nothing.                     *)
LEMMA EndsQuietly ==
  ASSUME DefsInv, Onward, NEW c \in Callers, Begin(c) \/ StillBroken(c) \/ Preview(c) \/ Read(c)
  PROVE  DefsInv'
<1>1. Still /\ (Finish(c) \/ Fail(c))
  BY DEF Begin, StillBroken, Preview, Read, Still, Others
<1>2. call[c].at \notin {"write", "map"}
  BY DEF Begin, StillBroken, Preview, Read, Needs, Doing
<1> QED
  BY <1>1, <1>2, EndStep

(* A step that fails at the beginning of a request.                         *)
LEMMA FailsAtOnce ==
  ASSUME DefsInv, Onward, NEW c \in Callers, NEW what, Doing(c, what), Others(c), UNCHANGED cache, Fail(c) \/ Finish(c)
  PROVE  DefsInv'
BY EndStep DEF Doing, Others, Still

-----------------------------------------------------------------------------
(* Requests that go on without a change of the tables                       *)

(* A request that goes on is about the same.                                *)
LEMMA TouchedAt ==
  ASSUME NEW r, NEW q, q.req = r.req, r.at \notin {"idle", "end", "naming"}, q.at \notin {"idle", "end", "naming"}
  PROVE  Touched(q) = Touched(r)
BY DEF Touched

(* What a write that is issued makes of its request.                        *)
Writing(r, w) == [r EXCEPT !.at = "write", !.write = w]
(* Such a request is of its type and about the same.                        *)
LEMMA WritingIs ==
  ASSUME NEW r \in CallType, NEW w \in Writes
  PROVE  /\ Writing(r, w) \in CallType /\ Writing(r, w).at = "write" /\ Writing(r, w).write = w
         /\ Writing(r, w).req = r.req /\ Writing(r, w).rest = r.rest /\ Writing(r, w).was = r.was
<1>1. "write" \in Places
  BY DEF Places
<1> QED
  BY <1>1 DEF Writing, CallType

(* It is what issuing a write makes of the request.                         *)
LEMMA WritingAt ==
  ASSUME DefsInv, NEW c \in Callers, NEW w, Issue(c, w)
  PROVE  call' = [call EXCEPT ![c] = Writing(call[c], w)]
BY DEF Issue, To, At, Writing

(* A write is issued and no row of the cache changed.                       *)
LEMMA IssueStep ==
  ASSUME DefsInv, Onward, Still, NEW c \in Callers, NEW w \in Writes, Issue(c, w),
         call[c].at \in {"begin", "map", "unmap"}, Fits(call[c].req, w),
         w.kind = "prompt" => w.key = 0 \/ w.row = None,
         call[c].req.do = "revise" => cache["prompt"].known,
         Tools(Writing(call[c], w)), Writer(Writing(call[c], w)),
         call[c].at = "map" => call[c].req.do \in {"createAgent", "deleteAgent"} /\ w.mode = "delete"
  PROVE  DefsInv'
<1> DEFINE r == Writing(call[c], w)
<1>1. call[c] \in CallType /\ Good(call[c]) /\ call[c].req \in Requests
  BY RequestsAre
<1>2. r \in CallType /\ r.at = "write" /\ r.write = w /\ r.req = call[c].req
  BY <1>1, WritingIs
<1>3. r.req.do \notin {"markActive", "updatePrompt"}
  BY <1>2, DefinitionsAssumption DEF Fits, PromptIds, PromptWriters
<1> HIDE DEF r
<1>4. r.req # None
  BY <1>1, <1>2, DefinitionsAssumption
<1>5. Placed(r)
  BY <1>2, <1>4 DEF Placed
<1>6. cache.prompt.known = cache["prompt"].known
  BY TablesAre DEF DefsInv, DefsTypeOK
<1>7. Informed(r)
  BY <1>2, <1>3, <1>6 DEF Informed
<1>8. Marker(r) /\ (Unwritten => Found(r))
  BY <1>2, <1>3 DEF Marker, Found
<1>9. Good(r)
  BY <1>2, <1>5, <1>7, <1>8 DEF Good, r
<1>10. \A p \in PromptIds : \A g \in Families : Copies(r, p, g) => Has(p, g)
  BY <1>2, DefinitionsAssumption DEF Copies, OfFamily, PromptIds
<1>11. call[c].at = "map" /\ call[c].req.do = "createAgent" => Excuses(r, call[c].req.key)
  BY <1>2, <1>4 DEF Excuses
<1>12. call' = [call EXCEPT ![c] = r] /\ call[c].at # "write"
  BY WritingAt DEF r
<1> QED
  BY <1>9, <1>10, <1>11, <1>12, CallStep

(* Writes of agents, teams and servers that change nothing in the cache.    *)
LEMMA IssueOther ==
  ASSUME DefsInv, Onward, Still, NEW c \in Callers, NEW w \in Writes, Issue(c, w),
         call[c].at \in {"begin", "map", "unmap"}, Fits(call[c].req, w),
         w.kind # "prompt" \/ w.mode = "delete", w.kind = "mcp" => w.mode # "delete",
         call[c].at = "map" => call[c].req.do \in {"createAgent", "deleteAgent"} /\ w.mode = "delete"
  PROVE  DefsInv'
<1>1. call[c] \in CallType
  BY RequestsAre
<1>2. Tools(Writing(call[c], w))
  BY <1>1, WritingIs DEF Tools
<1>3. Writer(Writing(call[c], w))
  BY <1>1, WritingIs DEF Writer, Fits
<1>4. call[c].req.do # "revise" /\ (w.kind = "prompt" => w.key = 0 \/ w.row = None)
  BY DEF Fits, PromptWriters
<1> QED
  BY <1>2, <1>3, <1>4, IssueStep


(* What a request to begin is, and that it has looked at its caches.        *)
LEMMA DoingIs ==
  ASSUME DefsInv, NEW c \in Callers, NEW what, Doing(c, what)
  PROVE  /\ call[c] \in CallType /\ Good(call[c]) /\ call[c].at = "begin"
         /\ call[c].req \in Requests /\ WellFormed(call[c].req) /\ call[c].req.do = what
         /\ \A k \in Needs(call[c]) : cache[k].known
BY RequestsAre DEF Doing, Req

(* Actions of the services that leave the caches alone.                     *)
LEMMA OthersStill ==
  ASSUME NEW c \in Callers, Others(c), UNCHANGED cache
  PROVE  Still
BY DEF Others, Still

(* Teams are created and deleted, and agents created.                       *)
LEMMA TeamsAndAgentsIssue ==
  ASSUME DefsInv, Onward, NEW c \in Callers, CreateTeam(c) \/ DeleteTeam(c) \/ CreateAgent(c)
  PROVE  DefsInv'
<1>1. CASE CreateTeam(c)
  <2>0. PICK row : row = [text |-> Req(c).text]
    OBVIOUS
  <2> DEFINE w == Write("create", "team", Req(c).key, row)
  <2>1. /\ call[c].at = "begin" /\ WellFormed(call[c].req) /\ call[c].req.do = "createTeam" /\ Still /\ Issue(c, w)
    BY <1>1, <2>0, DoingIs, OthersStill DEF CreateTeam
  <2>2. Req(c).key \in Teams /\ row \in [text : Phrases]
    BY <2>0, <2>1 DEF WellFormed, Req
  <2>3. row \in RowOf["team"] /\ row # None
    BY <2>2, FourKinds DEF RowOf
  <2>4. w \in Writes /\ w.mode = "create" /\ w.kind = "team" /\ w.key = Req(c).key /\ w.row # None
    BY <2>2, <2>3, IssuesWrite, FourKeys
  <2> HIDE DEF w
  <2>5. Fits(call[c].req, w)
    BY <2>1, <2>4 DEF Fits, Req, PromptWriters, AgentWriters, TeamWriters, ServerWriters
  <2> QED
    BY <2>1, <2>4, <2>5, IssueOther
<1>2. CASE DeleteTeam(c) /\ Present("team", Req(c).key)
  <2> DEFINE w == Write("delete", "team", Req(c).key, None)
  <2>1. /\ call[c].at = "begin" /\ WellFormed(call[c].req) /\ call[c].req.do = "deleteTeam" /\ Still /\ Issue(c, w)
    BY <1>2, DoingIs, OthersStill DEF DeleteTeam
  <2>2. Req(c).key \in Teams
    BY <2>1 DEF WellFormed, Req
  <2>3. w \in Writes /\ w.mode = "delete" /\ w.kind = "team" /\ w.key = Req(c).key /\ w.row = None
    BY <2>2, IssuesWrite, FourKeys
  <2> HIDE DEF w
  <2>4. Fits(call[c].req, w)
    BY <2>1, <2>3 DEF Fits, Req, PromptWriters, AgentWriters, TeamWriters, ServerWriters
  <2> QED
    BY <2>1, <2>3, <2>4, IssueOther
<1>3. CASE DeleteTeam(c) /\ ~Present("team", Req(c).key)
  BY <1>3, FailsAtOnce DEF DeleteTeam
<1>4. CASE CreateAgent(c) /\ Family(Req(c).family) # {}
  <2>0. PICK row : row = [text |-> None]
    OBVIOUS
  <2> DEFINE w == Write("create", "agent", Req(c).key, row)
  <2>1. /\ call[c].at = "begin" /\ WellFormed(call[c].req) /\ call[c].req.do = "createAgent" /\ Still /\ Issue(c, w)
    BY <1>4, <2>0, DoingIs, OthersStill DEF CreateAgent
  <2>2. Req(c).key \in Agents /\ row \in [text : Phrases]
    BY <2>0, <2>1 DEF WellFormed, Req, Phrases
  <2>3. row \in RowOf["agent"] /\ row # None
    BY <2>2, FourKinds DEF RowOf
  <2>4. w \in Writes /\ w.mode = "create" /\ w.kind = "agent" /\ w.key = Req(c).key /\ w.row # None
    BY <2>2, <2>3, IssuesWrite, FourKeys
  <2> HIDE DEF w
  <2>5. Fits(call[c].req, w)
    BY <2>1, <2>4 DEF Fits, Req, PromptWriters, AgentWriters, TeamWriters, ServerWriters
  <2> QED
    BY <2>1, <2>4, <2>5, IssueOther
<1>5. CASE CreateAgent(c) /\ ~(Family(Req(c).family) # {})
  BY <1>5, FailsAtOnce DEF CreateAgent
<1> QED
  BY <1>1, <1>2, <1>3, <1>4, <1>5

(* A server is configured.                                                  *)
LEMMA ConfigureStep ==
  ASSUME DefsInv, Onward, NEW c \in Callers, Configure(c)
  PROVE  DefsInv'
<1> DEFINE mode == IF Present("mcp", Req(c).key) THEN "update" ELSE "create"
<1>0. PICK row : row = [enabled |-> Req(c).enabled]
  OBVIOUS
<1> DEFINE w == Write(mode, "mcp", Req(c).key, row)
<1>1. /\ call[c].at = "begin" /\ WellFormed(call[c].req) /\ call[c].req.do = "configure" /\ Still /\ Issue(c, w)
  BY <1>0, DoingIs, OthersStill DEF Configure
<1>2. Req(c).key \in Servers /\ row \in [enabled : BOOLEAN]
  BY <1>0, <1>1 DEF WellFormed, Req
<1>3. row \in RowOf["mcp"] /\ row # None
  BY <1>2, FourKinds DEF RowOf
<1>4. mode \in {"create", "update"}
  OBVIOUS
<1> HIDE DEF mode
<1>5. w \in Writes /\ w.mode = mode /\ w.kind = "mcp" /\ w.key = Req(c).key /\ w.row # None
  BY <1>2, <1>3, <1>4, IssuesWrite, FourKeys
<1> HIDE DEF w
<1>6. Fits(call[c].req, w)
  BY <1>1, <1>4, <1>5 DEF Fits, Req, PromptWriters, AgentWriters, TeamWriters, ServerWriters
<1> QED
  BY <1>1, <1>4, <1>5, <1>6, IssueOther

(* A prompt is deleted without a look at the cache.                         *)
LEMMA DeletePromptStep ==
  ASSUME DefsInv, Onward, NEW c \in Callers, DeletePrompt(c)
  PROVE  DefsInv'
<1> DEFINE w == Write("delete", "prompt", Req(c).key, None)
<1>1. /\ call[c].at = "begin" /\ WellFormed(call[c].req) /\ call[c].req.do = "deletePrompt" /\ Still /\ Issue(c, w)
  BY DoingIs, OthersStill DEF DeletePrompt
<1>2. Req(c).key \in PromptIds
  BY <1>1 DEF WellFormed, Req
<1>3. w \in Writes /\ w.mode = "delete" /\ w.kind = "prompt" /\ w.key = Req(c).key /\ w.row = None
  BY <1>2, IssuesWrite, FourKeys
<1> HIDE DEF w
<1>4. Fits(call[c].req, w)
  BY <1>1, <1>3 DEF Fits, Req, PromptWriters, AgentWriters, TeamWriters, ServerWriters
<1> QED
  BY <1>1, <1>3, <1>4, IssueOther

(* A removal of an agent's row, of one that is deleted or could not be      *)
(* given its prompt.                                                        *)
LEMMA RemovalOfAgent ==
  ASSUME DefsInv, NEW c \in Callers, call[c].at \in {"map", "unmap"}, call[c].req.do \in {"createAgent", "deleteAgent"},
         NEW w, w = Write("delete", "agent", Req(c).key, None)
  PROVE  /\ w \in Writes /\ w.mode = "delete" /\ w.kind = "agent" /\ w.key = Req(c).key /\ w.row = None
         /\ Fits(call[c].req, w) /\ Req(c).key \in Agents /\ call[c].req # None
<1>1. call[c].req \in Requests /\ WellFormed(call[c].req)
  BY RequestsAre
<1>2. Req(c).key \in Agents
  BY <1>1 DEF WellFormed, Req
<1>3. w \in Writes /\ w.mode = "delete" /\ w.kind = "agent" /\ w.key = Req(c).key /\ w.row = None
  BY <1>2, IssuesWrite, FourKeys
<1>4. Fits(call[c].req, w)
  BY <1>1, <1>3 DEF Fits, Req, PromptWriters, AgentWriters, TeamWriters, ServerWriters
<1> QED
  BY <1>1, <1>2, <1>3, <1>4, DefinitionsAssumption

(* The mapping fails, and a new agent is taken back.                        *)
LEMMA MapFailsStep ==
  ASSUME DefsInv, Onward, NEW c \in Callers, MapFails(c)
  PROVE  DefsInv'
<1>1. Still /\ call[c].at = "map"
  BY DEF MapFails, Still
<1>2. CASE Req(c).do = "createAgent"
  <2>1. PICK w : w = Write("delete", "agent", Req(c).key, None)
    OBVIOUS
  <2>2. Issue(c, w)
    BY <1>2, <2>1 DEF MapFails
  <2> QED
    BY <1>1, <1>2, <2>1, <2>2, RemovalOfAgent, IssueOther DEF Req
<1>3. CASE Req(c).do # "createAgent"
  BY <1>1, <1>3, EndStep DEF MapFails, Req
<1> QED
  BY <1>2, <1>3

(* A request that goes on to something else than a write or a loop.         *)
LEMMA MoveStep ==
  ASSUME DefsInv, Onward, Still, NEW c \in Callers, NEW r \in CallType, call' = [call EXCEPT ![c] = r],
         call[c].at \in {"begin", "refer"}, r.at \in {"unmap", "map", "register", "reload", "naming"},
         Placed(r), Tools(r), r.at = "naming" => cache.prompt.known, Unwritten => Found(r)
  PROVE  DefsInv'
<1>1. Good(r)
  BY DEF Good, Informed, Writer, Marker
<1>2. \A p, g : ~Copies(r, p, g)
  BY DEF Copies
<1> QED
  BY <1>1, <1>2, CallStep

(* An agent is deleted: its mapping goes first.                             *)
LEMMA DeleteAgentStep ==
  ASSUME DefsInv, Onward, NEW c \in Callers, DeleteAgent(c)
  PROVE  DefsInv'
<1>1. CASE ~Present("agent", Req(c).key)
  BY <1>1, FailsAtOnce DEF DeleteAgent
<1>2. CASE Present("agent", Req(c).key)
  <2>1. PICK r : r = At(c, "unmap")
    OBVIOUS
  <2>2. call[c] \in CallType /\ call[c].at = "begin" /\ call[c].req # None /\ call[c].req.do = "deleteAgent" /\ Still
    BY <1>2, DoingIs, OthersStill, DefinitionsAssumption DEF DeleteAgent
  <2>3. r \in CallType /\ r.at = "unmap" /\ r.req = call[c].req
    BY <2>1, <2>2 DEF At, CallType, Places
  <2>4. call' = [call EXCEPT ![c] = r]
    BY <1>2, <2>1 DEF DeleteAgent, To
  <2>5. Placed(r) /\ Tools(r) /\ Found(r)
    BY <2>2, <2>3 DEF Placed, Tools, Found
  <2> QED
    BY <2>2, <2>3, <2>4, <2>5, MoveStep
<1> QED
  BY <1>1, <1>2

(* The new family of an agent is looked up.                                 *)
LEMMA ReferStep ==
  ASSUME DefsInv, Onward, NEW c \in Callers, Refer(c)
  PROVE  DefsInv'
<1>1. Still /\ call[c].at = "refer"
  BY DEF Refer, Others, Still
<1>2. CASE Family(Req(c).family) # {}
  <2>1. PICK r : r = At(c, "map")
    OBVIOUS
  <2>2. /\ call[c] \in CallType /\ call[c].req # None
        /\ call[c].req.do = "updateAgent" /\ call[c].req.family # None
    BY <1>1, RequestsAre, DefinitionsAssumption DEF Good, Placed
  <2>3. r \in CallType /\ r.at = "map" /\ r.req = call[c].req
    BY <2>1, <2>2 DEF At, CallType, Places
  <2>4. call' = [call EXCEPT ![c] = r]
    BY <1>2, <2>1 DEF Refer, To
  <2>5. Placed(r) /\ Tools(r) /\ Found(r)
    BY <2>2, <2>3 DEF Placed, Tools, Found
  <2> QED
    BY <1>1, <2>3, <2>4, <2>5, MoveStep
<1>3. CASE Family(Req(c).family) = {}
  BY <1>1, <1>3, EndStep DEF Refer
<1> QED
  BY <1>2, <1>3

(* What the cache says of a server the database says, or its row is torn.   *)
LEMMA ServersSeen ==
  ASSUME DefsInv, cache["mcp"].known, NEW s \in Servers, Present("mcp", s), Rows("mcp")[s].enabled
  PROVE  Offers(s)
<1>1. cache["mcp"].rows[s] = db["mcp"][s] \/ <<"mcp", s>> \in torn \/ Changing("mcp", s)
  BY FourKeys DEF DefsInv, CacheInv
<1>2. ~Changing("mcp", s)
  BY DEF Changing, Changes
<1>3. db.mcp = db["mcp"]
  BY TablesAre DEF DefsInv, DefsTypeOK
<1> QED
  BY <1>1, <1>2, <1>3 DEF Offers, Present, Rows

(* The tools of all enabled servers are asked for.                          *)
LEMMA LoadAllStep ==
  ASSUME DefsInv, Onward, NEW c \in Callers, LoadAll(c)
  PROVE  DefsInv'
<1> DEFINE rest == {s \in Servers : Present("mcp", s) /\ Rows("mcp")[s].enabled}
<1>1. PICK r : r = [At(c, "reload") EXCEPT !.rest = rest]
  OBVIOUS
<1>2. /\ call[c] \in CallType /\ call[c].at = "begin" /\ call[c].req # None /\ call[c].req.do = "loadAll" /\ Still
      /\ \A k \in Needs(call[c]) : cache[k].known
  BY DoingIs, OthersStill, DefinitionsAssumption DEF LoadAll
<1>3. cache["mcp"].known
  BY <1>2 DEF Needs
<1>4. \A s \in rest : Offers(s)
  BY <1>3, ServersSeen
<1>5. rest \in SUBSET (PromptIds \cup Servers) /\ rest \subseteq Servers
  OBVIOUS
<1>6. call' = [call EXCEPT ![c] = r]
  BY <1>1 DEF LoadAll, To
<1> HIDE DEF rest
<1>7. r \in CallType /\ r.at = "reload" /\ r.req = call[c].req /\ r.rest = rest
  BY <1>1, <1>2, <1>5 DEF At, CallType, Places
<1>8. Placed(r) /\ Tools(r) /\ Found(r)
  BY <1>2, <1>4, <1>5, <1>7 DEF Placed, Tools, Found
<1> QED
  BY <1>2, <1>6, <1>7, <1>8, MoveStep

(* The tables stay, but tools are removed, and no request is dropped.       *)
LEMMA DiscoverStep ==
  ASSUME DefsInv, Onward, NEW c \in Callers, Discover(c)
  PROVE  DefsInv'
<1>1. /\ call[c] \in CallType /\ call[c].at = "begin" /\ call[c].req # None /\ call[c].req.do = "discover"
      /\ Req(c).key \in Servers /\ cache["mcp"].known
      /\ UNCHANGED <<db, cache, reading, mapping, template, lastId, torn>>
  BY DoingIs, DefinitionsAssumption DEF Discover, WellFormed, Req, Needs
<1>2. CASE Present("mcp", Req(c).key) /\ Rows("mcp")[Req(c).key].enabled
  <2>1. PICK r : r = At(c, "register")
    OBVIOUS
  <2>2. call' = [call EXCEPT ![c] = r] /\ Still
    BY <1>1, <1>2, <2>1 DEF Discover, To, Still
  <2>3. r \in CallType /\ r.at = "register" /\ r.req = call[c].req
    BY <1>1, <2>1 DEF At, CallType, Places
  <2>4. Offers(Req(c).key)
    BY <1>1, <1>2, ServersSeen
  <2>5. Placed(r) /\ Tools(r) /\ Found(r)
    BY <1>1, <2>3, <2>4 DEF Placed, Tools, Found, Req
  <2> QED
    BY <1>1, <2>2, <2>3, <2>5, MoveStep
<1>3. CASE ~Present("mcp", Req(c).key)
  <2>1. Still /\ Fail(c)
    BY <1>1, <1>3 DEF Discover, Still
  <2> QED
    BY <1>1, <2>1, EndStep
<1>4. CASE Present("mcp", Req(c).key) /\ ~Rows("mcp")[Req(c).key].enabled
  <2>1. registered' = registered \ {Req(c).key} /\ call' = [call EXCEPT ![c] = Done(call[c])]
    BY <1>4 DEF Discover, Finish, To
  <2>2. PICK r : r = Done(call[c])
    OBVIOUS
  <2>3. Settled(r) /\ Good(r) /\ r \in CallType
    BY <1>1, <2>2, Ends, SettledIsGood DEF Settled
  <2>4. PICK f : f = [call EXCEPT ![c] = r]
    OBVIOUS
  <2>5. call \in [Callers -> CallType]
    BY DEF DefsInv, DefsTypeOK
  <2>6. f \in [Callers -> CallType] /\ call' = f /\ f[c] = r /\ \A d \in Callers \ {c} : f[d] = call[d]
    BY <2>1, <2>2, <2>3, <2>4, <2>5
  <2>7. TablesOK /\ TablesOK' /\ registered' \subseteq registered
    BY <1>1, <2>1 DEF DefsInv, DefsTypeOK, TablesOK
  <2>8. \A k \in Kinds : reading'[k].at = "reading" =>
          ~cache[k].known /\ \A key \in Keys[k] : reading'[k].rows[key] = db[k][key] \/ <<k, key>> \in torn'
    BY <1>1 DEF DefsInv, CacheInv
  <2>9. \A p \in PromptIds : \A g \in Families : OfFamily(reading'.prompt.rows[p], g) => Has(p, g)
    BY <1>1 DEF Has
  <2>10. \A d \in Callers : f[d] = call[d] \/ Good(f[d])
    BY <2>3, <2>6
  <2>11. \A d \in Callers : \A a : Excuses(call[d], a) => Excuses(f[d], a)
    BY <1>1, <2>6 DEF Excuses
  <2>12. \A d \in Callers : \A k, key : Changes(call[d], k, key) => Changes(f[d], k, key)
    BY <1>1, <2>6 DEF Changes
  <2>13. \A d \in Callers : \A p \in PromptIds : \A g \in Families : Copies(f[d], p, g) => Has(p, g)
    BY <2>3, <2>6 DEF Copies, Has, Settled
  <2> QED
    BY <1>1, <2>6, <2>7, <2>8, <2>9, <2>10, <2>11, <2>12, <2>13, CallsStep
<1> QED
  BY <1>2, <1>3, <1>4

-----------------------------------------------------------------------------
(* Prompts                                                                  *)

(* A new version is a row, and active only if nothing of its family is.     *)
LEMMA NewVersionStep ==
  ASSUME DefsInv, Onward, Still, NEW c \in Callers, NEW f \in Families, NEW text \in Phrases,
         NewVersion(c, f, text), call[c].at = "begin", call[c].req.do \in {"createPrompt", "revise"},
         cache["prompt"].known, f \in Touched(call[c])
  PROVE  DefsInv'
<1> DEFINE family == Suited(Family(f))
           version == Largest({Rows("prompt")[p].version : p \in family}) + 1
<1>1. /\ call[c] \in CallType /\ cache["prompt"].rows = cache.prompt.rows
      /\ \A p \in PromptIds : cache.prompt.rows[p] \in PromptRows \cup {None}
  BY RequestsAre, TablesAre DEF DefsInv, DefsTypeOK
<1>2. version \in Nat
  <2> DEFINE v == [p \in PromptIds |-> IF Present("prompt", p) THEN Rows("prompt")[p].version ELSE 0]
  <2>1. v \in [PromptIds -> Nat]
    BY <1>1 DEF Present, Rows, PromptRows
  <2>2. family \in SUBSET PromptIds /\ \A p \in family : v[p] = Rows("prompt")[p].version
    BY DEF Suited, Family
  <2> HIDE DEF family, v
  <2>3. {Rows("prompt")[p].version : p \in family} = {v[p] : p \in family}
    BY <2>2
  <2>4. Largest({v[p] : p \in family}) \in Nat
    BY <2>1, <2>2, LargestIsANumber
  <2>5. Largest({Rows("prompt")[p].version : p \in family}) \in Nat
    BY <2>3, <2>4, Zenon
  <2> QED
    BY <2>5
<1>3. PICK row : row = [family |-> f, text |-> text, active |-> family = {}, suits |-> TRUE, version |-> version]
  OBVIOUS
<1>4. PICK w : w = Write("create", "prompt", 0, row)
  OBVIOUS
<1>5. Issue(c, w)
  BY <1>3, <1>4 DEF NewVersion
<1> HIDE DEF version, family
<1>6. row \in PromptRows /\ row.family = f /\ (row.active <=> family = {})
  BY <1>2, <1>3 DEF PromptRows
<1>7. row \in RowOf["prompt"] /\ row # None
  BY <1>6, FourKinds
<1>8. w \in Writes /\ w.mode = "create" /\ w.kind = "prompt" /\ w.key = 0 /\ w.row = row
  BY <1>4, <1>7, IssuesWrite, FourKeys
<1>9. Fits(call[c].req, w)
  BY <1>7, <1>8 DEF Fits, PromptWriters, AgentWriters, TeamWriters, ServerWriters
<1>10. PICK r : r = Writing(call[c], w)
  OBVIOUS
<1>11. r.at = "write" /\ r.write = w /\ r.req = call[c].req
  BY <1>1, <1>8, <1>10, WritingIs
<1>12. Tools(r)
  BY <1>8, <1>11 DEF Tools
<1>13. f \in Touched(r)
  BY <1>11, TouchedAt
<1>14. Calm(f) /\ row.active => ActiveOf(f) = {}
  BY <1>6, CalmActive DEF family
<1>15. Writer(r)
  BY <1>6, <1>8, <1>11, <1>13, <1>14 DEF Writer
<1> QED
  BY <1>5, <1>8, <1>9, <1>10, <1>12, <1>15, IssueStep

(* Prompts are created and revised.                                         *)
LEMMA NewVersionsStep ==
  ASSUME DefsInv, Onward, NEW c \in Callers, CreatePrompt(c) \/ Revise(c)
  PROVE  DefsInv'
<1>1. CASE CreatePrompt(c)
  <2>1. /\ call[c].at = "begin" /\ WellFormed(call[c].req) /\ call[c].req.do = "createPrompt" /\ Still
        /\ \A k \in Needs(call[c]) : cache[k].known
    BY <1>1, DoingIs, OthersStill DEF CreatePrompt
  <2>2. Req(c).family \in Families /\ Req(c).text \in Phrases
    BY <2>1 DEF WellFormed, Req
  <2>3. cache["prompt"].known
    BY <2>1 DEF Needs
  <2>4. Req(c).family \in Touched(call[c])
    BY <2>1 DEF Touched, Req
  <2> QED
    BY <1>1, <2>1, <2>2, <2>3, <2>4, NewVersionStep DEF CreatePrompt
<1>2. CASE Revise(c) /\ Present("prompt", Req(c).key)
  <2>1. /\ call[c].at = "begin" /\ WellFormed(call[c].req) /\ call[c].req.do = "revise" /\ Still
        /\ \A k \in Needs(call[c]) : cache[k].known
    BY <1>2, DoingIs, OthersStill DEF Revise
  <2>2. Req(c).key \in PromptIds /\ Req(c).text \in Phrases
    BY <2>1 DEF WellFormed, Req
  <2>3. cache["prompt"].known
    BY <2>1 DEF Needs
  <2>4. Rows("prompt")[Req(c).key] \in PromptRows /\ Rows("prompt")[Req(c).key] # None
    BY <1>2, <2>2, TablesAre DEF Present, Rows, DefsInv, DefsTypeOK
  <2>5. PICK f \in Families : f = Rows("prompt")[Req(c).key].family
    BY <2>4 DEF PromptRows
  <2>6. f \in Touched(call[c])
    BY <2>1, <2>4, <2>5 DEF Touched, Req
  <2> QED
    BY <1>2, <2>1, <2>2, <2>3, <2>5, <2>6, NewVersionStep DEF Revise
<1>3. CASE Revise(c) /\ ~Present("prompt", Req(c).key)
  BY <1>3, FailsAtOnce DEF Revise
<1> QED
  BY <1>1, <1>2, <1>3

(* A cached prompt was created, and is of the family of all its copies.     *)
LEMMA SeenPrompt ==
  ASSUME DefsInv, NEW p \in PromptIds, Present("prompt", p)
  PROVE  /\ Rows("prompt")[p] \in PromptRows /\ Rows("prompt")[p] # None /\ Rows("prompt")[p].family \in Families
         /\ Rows("prompt") = cache.prompt.rows /\ Has(p, Rows("prompt")[p].family) /\ p <= lastId
         /\ \A g \in Families : Has(p, g) => g = Rows("prompt")[p].family
<1>1. Rows("prompt") = cache.prompt.rows /\ Rows("prompt")[p] \in PromptRows /\ Rows("prompt")[p] # None
  BY TablesAre DEF Present, Rows, DefsInv, DefsTypeOK
<1>2. Rows("prompt")[p].family \in Families
  BY <1>1 DEF PromptRows
<1>3. Has(p, Rows("prompt")[p].family)
  BY <1>1 DEF Has, OfFamily
<1> QED
  BY <1>1, <1>2, <1>3 DEF DefsInv, CopiesInv

(* A prompt is to become the active one: the relatives are found.           *)
LEMMA MarkActiveStep ==
  ASSUME DefsInv, Onward, NEW c \in Callers, MarkActive(c)
  PROVE  DefsInv'
<1> DEFINE key == Req(c).key
<1>1. /\ call[c] \in CallType /\ call[c].at = "begin" /\ call[c].req # None /\ WellFormed(call[c].req)
      /\ call[c].req.do = "markActive" /\ Still
      /\ \A k \in Needs(call[c]) : cache[k].known
  BY DoingIs, OthersStill, DefinitionsAssumption DEF MarkActive
<1>2. key \in PromptIds /\ key = call[c].req.key
  BY <1>1 DEF WellFormed, Req
<1>3. cache["prompt"].known
  BY <1>1 DEF Needs
<1>4. CASE ~Present("prompt", key)
  BY <1>4, FailsAtOnce DEF MarkActive
<1>5. CASE Present("prompt", key)
  <2> DEFINE R == Relatives(key)
             A == Active(R)
  <2>1. PICK f \in Families : f = Rows("prompt")[key].family
    BY <1>2, <1>5, SeenPrompt
  <2>2. R \subseteq Family(f) /\ Suited(Family(f)) \subseteq R
    BY <2>1 DEF Relatives, Suited
  <2>3. Family(f) \subseteq PromptIds
    BY DEF Family
  <2>4. PICK r : r = [At(c, "marking") EXCEPT !.rest = R \ {key}, !.was = A]
    OBVIOUS
  <2>5. call' = [call EXCEPT ![c] = r]
    BY <1>5, <2>4 DEF MarkActive, To
  <2>6. A \subseteq R /\ A = {p \in R : Present("prompt", p) /\ Rows("prompt")[p].active}
    BY DEF Active
  <2> HIDE DEF R, A
  <2>7. r \in CallType /\ r.at = "marking" /\ r.req = call[c].req /\ r.rest = R \ {key} /\ r.was = A
    BY <1>1, <2>2, <2>3, <2>4, <2>6 DEF At, CallType, Places
  <2> HIDE DEF key
  <2>8. \A p \in R \cup {key} : p \in PromptIds /\ Present("prompt", p) /\ Rows("prompt")[p].family = f
    BY <1>2, <1>5, <2>1, <2>2 DEF Family
  <2>9. \A p \in R \cup {key} : p <= lastId /\ \A g \in Families : Has(p, g) => g = f
    BY <2>8, SeenPrompt
  <2>10. f \in Touched(call[c])
    BY <1>1, <1>2, <1>5, <2>1, SeenPrompt DEF Touched, key
  <2>11. f \in Touched(r)
    BY <1>1, <2>7, <2>10, TouchedAt
  <2>12. Calm(f) => ActiveOf(f) \subseteq A
    <3> SUFFICES ASSUME Calm(f), NEW p \in ActiveOf(f) PROVE p \in A
      OBVIOUS
    <3>1. p \in Suited(Family(f)) /\ p \in Active(PromptIds)
      BY <1>1, <1>3, <2>10, CalmActive
    <3> QED
      BY <3>1, <2>2, <2>6 DEF Active
  <2>13. Calm(f) => ActiveOf(f) \subseteq (r.rest \cap r.was) \cup {r.req.key}
    BY <1>2, <2>6, <2>7, <2>12
  <2>14. Marks(r, f)
    BY <1>2, <2>7, <2>9, <2>11, <2>13 DEF Marks
  <2>15. Marker(r) /\ Tools(r) /\ Writer(r) /\ Found(r)
    BY <2>7, <2>14 DEF Marker, Tools, Writer, Found
  <2>16. Placed(r)
    BY <1>1, <2>7 DEF Placed
  <2>17. cache.prompt.known
    BY <1>3, TablesAre DEF DefsInv, DefsTypeOK
  <2>18. Informed(r)
    BY <1>2, <2>7, <2>8, <2>9, <2>17 DEF Informed
  <2>19. Good(r)
    BY <2>7, <2>15, <2>16, <2>18 DEF Good
  <2>20. \A p, g : ~Copies(r, p, g)
    BY <2>7 DEF Copies
  <2> QED
    BY <1>1, <2>5, <2>19, <2>20, CallStep
<1> QED
  BY <1>4, <1>5

-----------------------------------------------------------------------------
(* Updates, which change the cache before they are written                  *)

(* What a request is at work on does not shrink while the families of the   *)
(* rows stay.                                                               *)
LEMMA TouchedStays ==
  ASSUME TablesOK, TablesOK', NEW r, r.at \notin {"idle", "end"} => WellFormed(r.req),
         \A p \in PromptIds : \A f :
           OfFamily(db.prompt[p], f) \/ OfFamily(cache.prompt.rows[p], f)
           => OfFamily(db.prompt[p], f)' \/ OfFamily(cache.prompt.rows[p], f)'
  PROVE  Touched(r) \subseteq Touched(r)'
<1>1. Rows("prompt") = cache.prompt.rows /\ Rows("prompt")' = cache'.prompt.rows
  BY TablesAre DEF Rows, TablesOK
<1>2. SUFFICES ASSUME r.at \notin {"idle", "end"}, r.req.do \in {"revise", "updatePrompt", "markActive", "deletePrompt"},
                      NEW f \in Touched(r)
               PROVE  f \in Touched(r)'
  BY DEF Touched
<1>3. r.req.key \in PromptIds
  BY <1>2 DEF WellFormed
<1>4. r.at # "naming"
  BY <1>2 DEF Touched
<1>5. Touched(r) = {row.family : row \in {db.prompt[r.req.key], cache.prompt.rows[r.req.key]} \ {None}}
  BY <1>1, <1>2, <1>4 DEF Touched
<1>6. Touched(r)' = {row.family : row \in {db'.prompt[r.req.key], cache'.prompt.rows[r.req.key]} \ {None}}
  BY <1>1, <1>2, <1>4 DEF Touched
<1>7. OfFamily(db.prompt[r.req.key], f) \/ OfFamily(cache.prompt.rows[r.req.key], f)
  BY <1>2, <1>5 DEF OfFamily
<1>8. OfFamily(db'.prompt[r.req.key], f) \/ OfFamily(cache'.prompt.rows[r.req.key], f)
  BY <1>3, <1>7 DEF OfFamily
<1> QED
  BY <1>6, <1>8 DEF OfFamily

(* A row of the cache is changed and its update issued.                     *)
LEMMA ChangeStep ==
  ASSUME DefsInv, Onward, NEW c \in Callers, NEW k \in {"prompt", "agent", "team"}, NEW key \in Keys[k], NEW row \in RowOf[k],
         NEW w \in Writes, w.mode = "update", w.kind = k, w.key = key, w.row = row,
         NEW r \in CallType, call' = [call EXCEPT ![c] = r], r.at = "write", r.write = w, r.req = call[c].req,
         ChangeInPlace(k, key, row),
         UNCHANGED <<db, reading, mapping, template, registered, lastId, torn>>,
         call[c].at \in {"begin", "marking"}, Fits(r.req, w), Informed(r),
         k = "prompt" => cache.prompt.rows[key] # None /\ cache.prompt.rows[key].family = row.family,
         Writer(r)', Marker(r)'
  PROVE  DefsInv'
<1>0. TablesInv /\ TablesOK /\ call \in [Callers -> CallType] /\ k \in Kinds /\ row # None /\ \A d \in Callers : Good(call[d])
  BY DefsInvIs, FourKinds DEF TablesInv
<1>1. /\ TablesOK' /\ \A j \in Kinds : cache'[j].known = cache[j].known
      /\ \A j \in Kinds : \A x \in Keys[j] : cache'[j].rows[x] = IF j = k /\ x = key THEN row ELSE cache[j].rows[x]
  <2>1. key \in Keys[k] /\ row \in RowOf[k] \cup {None} /\ UNCHANGED <<db, reading>>
    OBVIOUS
  <2> QED
    BY <1>0, <2>1, CacheChange
<1>2. call'[c] = r /\ \A d \in Callers \ {c} : call'[d] = call[d]
  BY <1>0
<1>3. \A j, x : Changing(j, x) => Changing(j, x)'
  BY <1>2 DEF Changing, Changes
<1>4. Changing(k, key)'
  BY <1>2 DEF Changing, Changes
<1>5. CacheInv'
  BY <1>0, <1>1, <1>3, <1>4 DEF TablesInv, CacheInv
<1>6. \A p \in PromptIds : \A f : OfFamily(cache'.prompt.rows[p], f) <=> OfFamily(cache.prompt.rows[p], f)
  BY <1>0, <1>1, FourKeys, TablesAre DEF OfFamily
<1>7. \A p \in PromptIds : \A f \in Families : Copies(r, p, f) => Has(p, f)
  BY <1>0 DEF Copies, Has, OfFamily
<1>8. \A p \in PromptIds : \A f \in Families : Has(p, f)' => Has(p, f)
  <2> SUFFICES ASSUME NEW p \in PromptIds, NEW f \in Families, Has(p, f)' PROVE Has(p, f)
    OBVIOUS
  <2>1. CASE OfFamily(db'.prompt[p], f) \/ OfFamily(cache'.prompt.rows[p], f) \/ OfFamily(reading'.prompt.rows[p], f)
    BY <2>1, <1>6 DEF Has
  <2>2. CASE \E d \in Callers : Copies(call'[d], p, f)
    BY <2>2, <1>2, <1>7 DEF Has
  <2> QED
    BY <2>1, <2>2 DEF Has
<1>9. CopiesInv'
  BY <1>0, <1>8, CopiesFrame DEF TablesInv
<1>10. AgentInv'
  <2>1. \A d \in Callers : \A a \in Agents : Excuses(call[d], a) => Excuses(call'[d], a)
    BY <1>2 DEF Excuses
  <2> QED
    BY <1>0, <2>1, AgentFrame DEF TablesInv
<1>11. \A f : ActiveOf(f)' = ActiveOf(f)
  BY DEF ActiveOf
<1>12. OneInv'
  BY <1>0, <1>11, OneFrame DEF TablesInv
<1>13. Unwritten' => Unwritten
  BY <1>3 DEF Unwritten
<1>14. Unwritten' => \A a \in Agents : Current(a)'
  BY <1>0, <1>11, <1>13 DEF TablesInv, Current
<1>15. \A s \in registered' : Offers(s)'
  BY <1>0, OffersFrame DEF TablesInv
<1>16. TablesInv'
  BY <1>0, <1>1, <1>5, <1>9, <1>10, <1>12, <1>14, <1>15 DEF TablesInv, SuitsInv, Onward
<1>17. cache'.prompt.known = cache.prompt.known
  BY <1>0, <1>1, FourKinds, TablesAre
<1>18. ASSUME NEW d \in Callers \ {c} PROVE Good(call[d])'
  <2>1. Good(call[d]) /\ (call[d].at \notin {"idle", "end"} => WellFormed(call[d].req))
    BY RequestsAre
  <2>2. PICK q : q = call[d]
    OBVIOUS
  <2>3. Touched(q) \subseteq Touched(q)'
    <3>1. q.at \notin {"idle", "end"} => WellFormed(q.req)
      BY <2>1, <2>2
    <3>2. \A p \in PromptIds : \A f :
            OfFamily(db.prompt[p], f) \/ OfFamily(cache.prompt.rows[p], f)
            => OfFamily(db.prompt[p], f)' \/ OfFamily(cache.prompt.rows[p], f)'
      BY <1>6
    <3> QED
      BY <1>0, <1>1, <3>1, <3>2, TouchedStays
  <2>4. Good(q)
    BY <2>1, <2>2
  <2>5. Writer(q)'
    BY <1>11, <2>3, <2>4, WriterFrame DEF Good
  <2>6. Marker(q)'
    <3>1. CASE q.at \in {"marking", "write"} /\ q.req.do = "markActive"
      <4>1. q.rest \subseteq PromptIds /\ q.req.key \in PromptIds
        BY <2>1, <2>2, <2>4, <3>1 DEF Good, Informed, WellFormed
      <4> QED
        BY <1>8, <1>11, <2>3, <2>4, <4>1, MarkerFrame DEF Good
    <3> QED
      BY <3>1 DEF Marker
  <2>7. Tools(q)'
    BY <2>4, ToolsFrame DEF Good
  <2>8. Informed(q)'
    BY <2>4, <1>17 DEF Good, Informed
  <2>9. Unwritten' => Found(q)'
    BY <2>4, <1>11, <1>13 DEF Good, Found
  <2>10. Good(q)'
    BY <2>4, <2>5, <2>6, <2>7, <2>8, <2>9 DEF Good
  <2>11. call'[d] = q
    BY <1>2, <2>2
  <2> QED
    BY <2>10, <2>11
<1>19. Good(r)'
  <2>1. r.req # None
    <3>1. call[c].at \notin {"idle", "end"}
      OBVIOUS
    <3>2. call[c].req \in Requests
      BY <3>1, RequestsAre
    <3> QED
      BY <3>2, DefinitionsAssumption
  <2>2. Placed(r)
    BY <2>1 DEF Placed
  <2>3. Informed(r)'
    BY <1>17 DEF Informed
  <2>4. Tools(r)'
    BY DEF Tools
  <2>5. Found(r)'
    BY DEF Found
  <2> QED
    BY <2>2, <2>3, <2>4, <2>5 DEF Good
<1>20. ASSUME NEW d \in Callers PROVE Good(call[d])'
  <2>1. CASE d = c
    BY <2>1, <1>2, <1>19
  <2> QED
    BY <2>1, <1>18
<1>21. call' \in [Callers -> CallType]
  BY <1>0
<1> QED
  BY <1>16, <1>20, <1>21, DefsInvNext

(* Agents and teams.                                                        *)
LEMMA UpdateStep ==
  ASSUME DefsInv, Onward, NEW c \in Callers, UpdateAgent(c) \/ UpdateTeam(c)
  PROVE  DefsInv'
<1>1. ASSUME NEW k \in {"agent", "team"}, NEW do, do = IF k = "agent" THEN "updateAgent" ELSE "updateTeam",
             Doing(c, do), Change(c, k, Req(c).key, [text |-> Req(c).text]), Others(c)
      PROVE  DefsInv'
  <2>1. /\ call[c] \in CallType /\ call[c].at = "begin" /\ WellFormed(call[c].req) /\ call[c].req.do = do
    BY <1>1, DoingIs
  <2>2. Req(c).key \in Keys[k] /\ Req(c).text \in Phrases
    BY <1>1, <2>1, FourKeys DEF WellFormed, Req
  <2>3. PICK row : row = [text |-> Req(c).text]
    OBVIOUS
  <2>4. row \in RowOf[k] /\ row # None
    BY <1>1, <2>2, <2>3, FourKinds
  <2>5. PICK w : w = Write("update", k, Req(c).key, row)
    OBVIOUS
  <2>6. w \in Writes /\ w.mode = "update" /\ w.kind = k /\ w.key = Req(c).key /\ w.row = row
    BY <1>1, <2>2, <2>4, <2>5, IssuesWrite, FourKeys
  <2>7. PICK r : r = Writing(call[c], w)
    OBVIOUS
  <2>8. r \in CallType /\ r.at = "write" /\ r.write = w /\ r.req = call[c].req
    BY <2>1, <2>6, <2>7, WritingIs
  <2>9. ChangeInPlace(k, Req(c).key, row) /\ Issue(c, w)
    BY <1>1, <2>3, <2>5 DEF Change
  <2>10. call' = [call EXCEPT ![c] = r]
    BY <2>7, <2>9, WritingAt
  <2>11. Fits(r.req, w)
    BY <1>1, <2>1, <2>4, <2>6, <2>8 DEF Fits, Req, PromptWriters, AgentWriters, TeamWriters, ServerWriters
  <2>12. Informed(r) /\ Writer(r)' /\ Marker(r)'
    BY <1>1, <2>1, <2>6, <2>8 DEF Informed, Writer, Marker
  <2>13. UNCHANGED <<db, reading, mapping, template, registered, lastId, torn>>
    BY <1>1 DEF Others
  <2>14. k \in {"prompt", "agent", "team"} /\ k # "prompt" /\ call[c].at \in {"begin", "marking"}
    BY <2>1
  <2> QED
    BY <2>2, <2>4, <2>6, <2>8, <2>9, <2>10, <2>11, <2>12, <2>13, <2>14, ChangeStep
<1>2. CASE UpdateAgent(c)
  BY <1>1, <1>2, FailsAtOnce DEF UpdateAgent
<1>3. CASE UpdateTeam(c)
  BY <1>1, <1>3, FailsAtOnce DEF UpdateTeam
<1> QED
  BY <1>2, <1>3

(* What the change of a prompt in the cache leaves as it was: its family,   *)
(* what the call is at work on, and everything in the database.             *)
LEMMA PromptChange ==
  ASSUME DefsInv, NEW c \in Callers, NEW key \in PromptIds, NEW row \in PromptRows,
         cache.prompt.rows[key] # None, cache.prompt.rows[key].family = row.family,
         ChangeInPlace("prompt", key, row), UNCHANGED <<db, reading>>,
         NEW r \in CallType, call' = [call EXCEPT ![c] = r], r.at = "write", r.req = call[c].req,
         r.write.kind = "prompt" /\ r.write.key = key /\ r.write.row = row,
         call[c].at \in {"begin", "marking"}
  PROVE  /\ \A p \in PromptIds : \A f \in Families : Has(p, f)' => Has(p, f)
         /\ Touched(call[c]) \subseteq Touched(r)'
         /\ \A f : ActiveOf(f)' = ActiveOf(f)
         /\ cache'.prompt.rows[key] = row
<1>0. TablesOK /\ call \in [Callers -> CallType]
  BY DefsInvIs DEF TablesInv
<1>1. /\ TablesOK' /\ \A j \in Kinds : \A x \in Keys[j] :
           cache'[j].rows[x] = IF j = "prompt" /\ x = key THEN row ELSE cache[j].rows[x]
  <2>1. "prompt" \in Kinds /\ key \in Keys["prompt"] /\ row \in RowOf["prompt"] \cup {None}
    BY FourKinds
  <2> QED
    BY <1>0, <2>1, CacheChange
<1>2. cache.prompt = cache["prompt"] /\ cache'.prompt = cache'["prompt"]
  BY <1>0, <1>1, TablesAre
<1>3. \A p \in PromptIds : cache'.prompt.rows[p] = IF p = key THEN row ELSE cache.prompt.rows[p]
  BY <1>1, <1>2, FourKeys
<1>4. row # None
  BY DefinitionsAssumption, FourKinds
<1>5. \A p \in PromptIds : \A f : OfFamily(cache'.prompt.rows[p], f) <=> OfFamily(cache.prompt.rows[p], f)
  BY <1>3, <1>4 DEF OfFamily
<1>6. \A p \in PromptIds : \A f \in Families : Copies(r, p, f) => Has(p, f)
  BY <1>4 DEF Copies, Has, OfFamily
<1>7. call'[c] = r /\ \A d \in Callers \ {c} : call'[d] = call[d]
  BY <1>0
<1>8. ASSUME NEW p \in PromptIds, NEW f \in Families, Has(p, f)' PROVE Has(p, f)
  <2>1. CASE OfFamily(db'.prompt[p], f) \/ OfFamily(cache'.prompt.rows[p], f) \/ OfFamily(reading'.prompt.rows[p], f)
    BY <2>1, <1>5 DEF Has
  <2>2. CASE \E d \in Callers : Copies(call'[d], p, f)
    BY <2>2, <1>6, <1>7 DEF Has
  <2> QED
    BY <1>8, <2>1, <2>2 DEF Has
<1>9. Touched(call[c]) \subseteq Touched(r)'
  <2>1. WellFormed(r.req)
    <3>1. call[c].at \notin {"idle", "end"}
      OBVIOUS
    <3> QED
      BY <3>1, RequestsAre
  <2>2. \A p \in PromptIds : \A f :
          OfFamily(db.prompt[p], f) \/ OfFamily(cache.prompt.rows[p], f)
          => OfFamily(db.prompt[p], f)' \/ OfFamily(cache.prompt.rows[p], f)'
    BY <1>5
  <2>3. Touched(r) \subseteq Touched(r)'
    BY <1>0, <1>1, <2>1, <2>2, TouchedStays
  <2>4. r.at \notin {"idle", "end", "naming"} /\ call[c].at \notin {"idle", "end", "naming"}
    OBVIOUS
  <2>5. Touched(r) = Touched(call[c])
    BY <2>4, TouchedAt
  <2> QED
    BY <2>3, <2>5
<1>10. \A f : ActiveOf(f)' = ActiveOf(f)
  BY DEF ActiveOf
<1> QED
  BY <1>3, <1>8, <1>9, <1>10

(* The same, with what is left to show of the call.                         *)
LEMMA PromptChangeStep ==
  ASSUME DefsInv, Onward, NEW c \in Callers, NEW key \in PromptIds, NEW row \in PromptRows,
         cache.prompt.rows[key] # None, cache.prompt.rows[key].family = row.family,
         ChangeInPlace("prompt", key, row), Others(c),
         NEW w, w = Write("update", "prompt", key, row),
         NEW r \in CallType, call' = [call EXCEPT ![c] = r], r.at = "write", r.write = w, r.req = call[c].req,
         call[c].at \in {"begin", "marking"}, call[c].req.do \in {"updatePrompt", "markActive"},
         call[c].req.do = "updatePrompt" => key = call[c].req.key,
         call[c].req.do = "markActive" => (key = call[c].req.key <=> row.active),
         Informed(r), Writer(r)', Marker(r)'
  PROVE  DefsInv'
<1>1. "prompt" \in {"prompt", "agent", "team"} /\ key \in Keys["prompt"] /\ row \in RowOf["prompt"] /\ row # None
  BY FourKinds
<1>2. w \in Writes /\ w.mode = "update" /\ w.kind = "prompt" /\ w.key = key /\ w.row = row
  BY <1>1, IssuesWrite, FourKeys
<1>3. UNCHANGED <<db, reading, mapping, template, registered, lastId, torn>>
  BY DEF Others
<1>4. Fits(r.req, w)
  BY <1>1, <1>2 DEF Fits, PromptWriters, AgentWriters, TeamWriters, ServerWriters
<1>5. "prompt" = "prompt" => cache.prompt.rows[key] # None /\ cache.prompt.rows[key].family = row.family
  OBVIOUS
<1> QED
  BY <1>1, <1>2, <1>3, <1>4, <1>5, ChangeStep

(* A single prompt is updated.                                              *)
LEMMA UpdatePromptStep ==
  ASSUME DefsInv, Onward, NEW c \in Callers, UpdatePrompt(c)
  PROVE  DefsInv'
<1> DEFINE key == Req(c).key
<1>1. /\ call[c] \in CallType /\ call[c].at = "begin" /\ call[c].req # None /\ WellFormed(call[c].req)
      /\ call[c].req.do = "updatePrompt" /\ \A k \in Needs(call[c]) : cache[k].known
  BY DoingIs, DefinitionsAssumption DEF UpdatePrompt
<1>2. key \in PromptIds /\ key = call[c].req.key /\ Req(c).text \in Phrases /\ Req(c).active \in BOOLEAN
  BY <1>1 DEF WellFormed, Req
<1>3. cache["prompt"].known
  BY <1>1 DEF Needs
<1>4. CASE ~Present("prompt", key)
  BY <1>4, FailsAtOnce DEF UpdatePrompt
<1>5. CASE Present("prompt", key)
  <2>1. /\ Rows("prompt")[key] \in PromptRows /\ Rows("prompt")[key] # None /\ Rows("prompt")[key].family \in Families
        /\ Rows("prompt") = cache.prompt.rows /\ Has(key, Rows("prompt")[key].family)
    BY <1>2, <1>5, SeenPrompt
  <2>2. PICK f \in Families : f = Rows("prompt")[key].family
    BY <2>1
  <2>3. PICK row : row = [Rows("prompt")[key] EXCEPT !.text = IF Req(c).text = None THEN @ ELSE Req(c).text,
                                                     !.suits = FALSE, !.active = @ \/ Req(c).active]
    OBVIOUS
  <2>4. PICK w : w = Write("update", "prompt", key, row)
    OBVIOUS
  <2>5. ChangeInPlace("prompt", key, row) /\ Issue(c, w) /\ Others(c)
    BY <1>5, <2>3, <2>4 DEF UpdatePrompt, Change
  <2>6. PICK r : r = Writing(call[c], w)
    OBVIOUS
  <2>7. call' = [call EXCEPT ![c] = r]
    BY <2>5, <2>6, WritingAt
  <2>8. row \in PromptRows /\ row.family = f /\ (row.active <=> Rows("prompt")[key].active \/ Req(c).active)
    BY <1>2, <2>1, <2>2, <2>3 DEF PromptRows
  <2> HIDE DEF key
  <2>9. w \in Writes /\ w.kind = "prompt" /\ w.key = key /\ w.row = row
    BY <1>2, <2>4, <2>8, IssuesWrite, FourKinds
  <2>10. r \in CallType /\ r.at = "write" /\ r.write = w /\ r.req = call[c].req
    BY <1>1, <2>6, <2>9, WritingIs
  <2>11. /\ Touched(call[c]) \subseteq Touched(r)' /\ ActiveOf(f)' = ActiveOf(f)
    <3>1. UNCHANGED <<db, reading>>
      BY <2>5 DEF Others
    <3>2. cache.prompt.rows[key] # None /\ cache.prompt.rows[key].family = row.family
      BY <2>1, <2>2, <2>8
    <3>3. call[c].at \in {"begin", "marking"} /\ r.write.kind = "prompt" /\ r.write.key = key /\ r.write.row = row
      BY <1>1, <2>9, <2>10
    <3> QED
      BY <1>2, <2>5, <2>7, <2>8, <2>10, <3>1, <3>2, <3>3, PromptChange
  <2>12. f \in Touched(call[c])
    BY <1>1, <1>2, <2>1, <2>2 DEF Touched
  <2>13. ASSUME Calm(f)', row.active PROVE ActiveOf(f)' \subseteq {key}
    <3>1. Calm(f)
      BY <2>13, CalmBefore
    <3>2. CASE Req(c).active
      <4>1. call'[c] = r
        BY <2>7 DEF DefsInv, DefsTypeOK
      <4>2. Touched(r)' \subseteq crowded'
        BY <1>1, <2>10, <3>2, <4>1 DEF Onward, CrowdInv, Req
      <4>3. f \in crowded'
        BY <2>11, <2>12, <4>2
      <4> QED
        BY <2>13, <4>3 DEF Calm
    <3>3. CASE ~Req(c).active
      <4>1. cache.prompt.rows[key] = db.prompt[key]
        BY <1>1, <1>2, <1>3, <2>1, <2>2, <2>12, <3>1, CalmView
      <4>2. key \in ActiveOf(f)
        BY <1>2, <2>1, <2>2, <2>8, <2>13, <3>3, <4>1 DEF ActiveOf
      <4>3. \A p \in ActiveOf(f) : p = key
        BY <3>1, <4>2 DEF DefsInv, FamilyInv, OneInv
      <4> QED
        BY <2>11, <4>3
    <3> QED
      BY <3>2, <3>3
  <2>14. Writer(r)'
    <3>1. f \in Touched(r)'
      BY <2>11, <2>12
    <3> QED
      BY <2>8, <2>9, <2>10, <2>13, <3>1 DEF Writer
  <2>15. Marker(r)'
    BY <1>1, <2>10 DEF Marker
  <2>16. Informed(r)
    BY <1>1, <1>3, <2>10, TablesAre DEF Informed, DefsInv, DefsTypeOK
  <2>17. /\ cache.prompt.rows[key] # None /\ cache.prompt.rows[key].family = row.family
         /\ call[c].at \in {"begin", "marking"} /\ call[c].req.do \in {"updatePrompt", "markActive"}
         /\ call[c].req.do = "updatePrompt" => key = call[c].req.key
         /\ call[c].req.do = "markActive" => (key = call[c].req.key <=> row.active)
    BY <1>1, <1>2, <2>1, <2>2, <2>8
  <2> QED
    BY <1>2, <2>4, <2>5, <2>7, <2>8, <2>10, <2>14, <2>15, <2>16, <2>17, PromptChangeStep
<1> QED
  BY <1>4, <1>5

(* The loop over a family: what it finds of the family is there.            *)
LEMMA LoopIs ==
  ASSUME DefsInv, NEW c \in Callers, call[c].at = "marking"
  PROVE  /\ call[c] \in CallType /\ call[c].req.do = "markActive" /\ call[c].req.key \in PromptIds
         /\ call[c].rest \subseteq PromptIds /\ call[c].req.key \notin call[c].rest
         /\ cache["prompt"].known /\ cache.prompt.known
         /\ \A p \in call[c].rest \cup {call[c].req.key} : p <= lastId
         /\ \E f \in Families : Marks(call[c], f)
<1>1. /\ call[c] \in CallType /\ Placed(call[c]) /\ Informed(call[c]) /\ Marker(call[c])
      /\ WellFormed(call[c].req)
  BY RequestsAre DEF Good
<1>2. call[c].req.do = "markActive"
  BY <1>1 DEF Placed
<1>3. cache["prompt"] = cache.prompt
  BY TablesAre DEF DefsInv, DefsTypeOK
<1> QED
  BY <1>1, <1>2, <1>3 DEF Informed, Marker, WellFormed

(* A relative is deactivated.                                               *)
LEMMA DeactivateStep ==
  ASSUME DefsInv, Onward, NEW c \in Callers, Deactivate(c)
  PROVE  DefsInv'
<1>1. /\ call[c].at = "marking" /\ call[c] \in CallType /\ call[c].req.do = "markActive" /\ call[c].req.key \in PromptIds
      /\ call[c].rest \subseteq PromptIds /\ call[c].req.key \notin call[c].rest /\ cache.prompt.known
      /\ \A p \in call[c].rest \cup {call[c].req.key} : p <= lastId
  BY LoopIs DEF Deactivate
<1>2. PICK f \in Families : Marks(call[c], f)
  BY <1>1, LoopIs
<1>3. PICK p \in call[c].rest : IF Present("prompt", p)
        THEN LET row == [Rows("prompt")[p] EXCEPT !.active = FALSE]
             IN  /\ ChangeInPlace("prompt", p, row)
                 /\ To(c, [At(c, "write") EXCEPT !.rest = @ \ {p},
                                                 !.write = Write("update", "prompt", p, row)])
        ELSE Fail(c) /\ UNCHANGED cache
  BY DEF Deactivate
<1>4. p \in PromptIds /\ Others(c)
  BY <1>1 DEF Deactivate
<1>5. CASE ~Present("prompt", p)
  <2>1. Still /\ Fail(c)
    BY <1>3, <1>4, <1>5, OthersStill
  <2> QED
    BY <1>1, <2>1, EndStep
<1>6. CASE Present("prompt", p)
  <2>1. /\ Rows("prompt")[p] \in PromptRows /\ Rows("prompt")[p] # None /\ Rows("prompt")[p].family \in Families
        /\ Rows("prompt") = cache.prompt.rows /\ Has(p, Rows("prompt")[p].family)
    BY <1>4, <1>6, SeenPrompt
  <2>2. Rows("prompt")[p].family = f
    BY <1>2, <2>1 DEF Marks
  <2>3. PICK row : row = [Rows("prompt")[p] EXCEPT !.active = FALSE]
    OBVIOUS
  <2>4. PICK w : w = Write("update", "prompt", p, row)
    OBVIOUS
  <2>5. PICK r : r = [At(c, "write") EXCEPT !.rest = @ \ {p}, !.write = w]
    OBVIOUS
  <2>6. ChangeInPlace("prompt", p, row) /\ call' = [call EXCEPT ![c] = r]
    BY <1>3, <1>6, <2>3, <2>4, <2>5 DEF To
  <2>7. row \in PromptRows /\ row.family = f /\ ~row.active
    BY <2>1, <2>2, <2>3 DEF PromptRows
  <2>8. w \in Writes /\ w.kind = "prompt" /\ w.key = p /\ w.row = row
    BY <1>4, <2>4, <2>7, IssuesWrite, FourKinds
  <2>9. /\ r \in CallType /\ r.at = "write" /\ r.write = w /\ r.req = call[c].req
        /\ r.rest = call[c].rest \ {p} /\ r.was = call[c].was
    <3>1. "write" \in Places
      BY DEF Places
    <3> QED
      BY <1>1, <2>5, <2>8, <3>1 DEF At, CallType
  <2>10. /\ cache.prompt.rows[p] # None /\ cache.prompt.rows[p].family = row.family
         /\ call[c].at \in {"begin", "marking"} /\ call[c].req.do \in {"updatePrompt", "markActive"}
         /\ call[c].req.do = "updatePrompt" => p = call[c].req.key
         /\ call[c].req.do = "markActive" => (p = call[c].req.key <=> row.active)
    BY <1>1, <2>1, <2>2, <2>7
  <2>11. /\ \A x \in PromptIds : \A g \in Families : Has(x, g)' => Has(x, g)
         /\ Touched(call[c]) \subseteq Touched(r)' /\ \A g : ActiveOf(g)' = ActiveOf(g)
    <3>1. UNCHANGED <<db, reading>>
      BY <1>4 DEF Others
    <3>2. r.write.kind = "prompt" /\ r.write.key = p /\ r.write.row = row
      BY <2>8, <2>9
    <3> QED
      BY <1>4, <2>6, <2>7, <2>9, <2>10, <3>1, <3>2, PromptChange
  <2>12. f \in Touched(r)' \cup crowded'
    BY <1>2, <2>11 DEF Marks, Onward
  <2>13. Writer(r)'
    BY <2>7, <2>8, <2>9, <2>12 DEF Writer
  <2>14. Marks(r, f)'
    <3>1. \A x \in r.rest \cup {r.req.key} : \A g \in Families : Has(x, g)' => g = f
      BY <1>1, <1>2, <2>9, <2>11 DEF Marks
    <3>2. Calm(f)' => ActiveOf(f)' \subseteq (call[c].rest \cap call[c].was) \cup {call[c].req.key}
      BY <1>1, <1>2, <2>11, CalmBefore DEF Marks
    <3>3. Calm(f)' => ActiveOf(f)' \subseteq (r.rest \cap r.was) \cup {r.req.key} \cup {r.write.key}
      BY <2>8, <2>9, <3>2
    <3> QED
      BY <2>9, <2>12, <3>1, <3>3 DEF Marks
  <2>15. Marker(r)'
    BY <2>14 DEF Marker
  <2>16. Informed(r)
    BY <1>1, <2>9 DEF Informed
  <2> QED
    BY <1>4, <2>4, <2>6, <2>7, <2>9, <2>10, <2>13, <2>15, <2>16, PromptChangeStep
<1> QED
  BY <1>5, <1>6

(* When no relative is active, the prompt becomes active.                   *)
LEMMA ActivateStep ==
  ASSUME DefsInv, Onward, NEW c \in Callers, Activate(c)
  PROVE  DefsInv'
<1> DEFINE key == Req(c).key
<1>1. /\ call[c].at = "marking" /\ call[c] \in CallType /\ call[c].req.do = "markActive" /\ call[c].req.key \in PromptIds
      /\ call[c].rest \subseteq PromptIds /\ call[c].req.key \notin call[c].rest /\ cache.prompt.known /\ cache["prompt"].known
      /\ \A p \in call[c].rest \cup {call[c].req.key} : p <= lastId
  BY LoopIs DEF Activate
<1>2. PICK f \in Families : Marks(call[c], f)
  BY <1>1, LoopIs
<1>3. key \in PromptIds /\ key = call[c].req.key /\ Others(c)
  BY <1>1 DEF Activate, Req
<1>4. call[c].rest \cap call[c].was \cap Active(PromptIds) = {}
  BY DEF Activate
<1>5. CASE ~Present("prompt", key)
  <2>1. Still /\ Fail(c)
    BY <1>3, <1>5, OthersStill DEF Activate
  <2> QED
    BY <1>1, <2>1, EndStep
<1>6. CASE Present("prompt", key)
  <2>1. /\ Rows("prompt")[key] \in PromptRows /\ Rows("prompt")[key] # None /\ Rows("prompt")[key].family \in Families
        /\ Rows("prompt") = cache.prompt.rows /\ Has(key, Rows("prompt")[key].family)
    BY <1>3, <1>6, SeenPrompt
  <2>2. Rows("prompt")[key].family = f
    BY <1>2, <1>3, <2>1 DEF Marks
  <2>3. PICK row : row = [Rows("prompt")[key] EXCEPT !.active = TRUE]
    OBVIOUS
  <2>4. PICK w : w = Write("update", "prompt", key, row)
    OBVIOUS
  <2>5. PICK r : r = Writing(call[c], w)
    OBVIOUS
  <2>6. ChangeInPlace("prompt", key, row) /\ Issue(c, w)
    BY <1>6, <2>3, <2>4 DEF Activate, Change
  <2>7. call' = [call EXCEPT ![c] = r]
    BY <2>5, <2>6, WritingAt
  <2>8. row \in PromptRows /\ row.family = f /\ row.active
    BY <2>1, <2>2, <2>3 DEF PromptRows
  <2> HIDE DEF key
  <2>9. w \in Writes /\ w.kind = "prompt" /\ w.key = key /\ w.row = row
    BY <1>3, <2>4, <2>8, IssuesWrite, FourKinds
  <2>10. r \in CallType /\ r.at = "write" /\ r.write = w /\ r.req = call[c].req /\ r.rest = call[c].rest /\ r.was = call[c].was
    BY <1>1, <2>5, <2>9, WritingIs
  <2>11. /\ cache.prompt.rows[key] # None /\ cache.prompt.rows[key].family = row.family
         /\ call[c].at \in {"begin", "marking"} /\ call[c].req.do \in {"updatePrompt", "markActive"}
         /\ call[c].req.do = "updatePrompt" => key = call[c].req.key
         /\ call[c].req.do = "markActive" => (key = call[c].req.key <=> row.active)
    BY <1>1, <1>3, <2>1, <2>2, <2>8
  <2>12. /\ \A x \in PromptIds : \A g \in Families : Has(x, g)' => Has(x, g)
         /\ Touched(call[c]) \subseteq Touched(r)' /\ \A g : ActiveOf(g)' = ActiveOf(g)
    <3>1. UNCHANGED <<db, reading>>
      BY <1>3 DEF Others
    <3>2. r.write.kind = "prompt" /\ r.write.key = key /\ r.write.row = row
      BY <2>9, <2>10
    <3> QED
      BY <1>3, <2>6, <2>7, <2>8, <2>10, <2>11, <3>1, <3>2, PromptChange
  <2>13. f \in Touched(r)' \cup crowded'
    BY <1>2, <2>12 DEF Marks, Onward
  <2>14. Calm(f)' => ActiveOf(f)' \subseteq (call[c].rest \cap call[c].was) \cup {key}
    BY <1>1, <1>2, <1>3, <2>12, CalmBefore DEF Marks
  <2>15. ASSUME Calm(f)', NEW x \in ActiveOf(f)' PROVE x = key
    <3>1. Calm(f) /\ f \in Touched(call[c]) /\ x \in ActiveOf(f)
      BY <1>2, <2>12, <2>15, CalmBefore DEF Marks, Calm
    <3>2. x \in Active(PromptIds)
      BY <1>1, <3>1, CalmActive
    <3> QED
      BY <1>4, <2>14, <2>15, <3>2
  <2>16. Writer(r)'
    BY <2>8, <2>9, <2>10, <2>13, <2>15 DEF Writer
  <2>17. Marks(r, f)'
    <3>1. \A x \in r.rest \cup {r.req.key} : \A g \in Families : Has(x, g)' => g = f
      BY <1>1, <1>2, <2>10, <2>12 DEF Marks
    <3> QED
      BY <1>3, <2>10, <2>13, <2>15, <3>1 DEF Marks
  <2>18. Marker(r)'
    BY <2>17 DEF Marker
  <2>19. Informed(r)
    BY <1>1, <2>10 DEF Informed
  <2> QED
    BY <1>3, <2>4, <2>6, <2>7, <2>8, <2>10, <2>11, <2>16, <2>18, <2>19, PromptChangeStep
<1> QED
  BY <1>5, <1>6

-----------------------------------------------------------------------------
(* Steps that leave the rows alone: mappings, templates and tools           *)

(* what of a good request does not depend on mappings, templates and tools  *)
Sound(r) == r \in CallType /\ Placed(r) /\ Informed(r) /\ Writer(r) /\ Marker(r)

(* The callers become f, and mappings, templates and tools change: what     *)
(* the invariant says of these is to be shown, the rest stays.              *)
LEMMA AsideStep ==
  ASSUME DefsInv, Onward, UNCHANGED <<db, cache, reading, lastId, torn>>,
         mapping' \in [Agents -> Families \cup {None}],
         template' \in [Agents -> [known : BOOLEAN, text : Phrases, stale : BOOLEAN]],
         registered' \subseteq Servers,
         AgentInv', \A s \in registered' : Offers(s)', Unwritten => \A a \in Agents : Current(a)',
         NEW f \in [Callers -> CallType], call' = f,
         \A d \in Callers : Sound(f[d]) /\ Tools(f[d])' /\ (Unwritten => Found(f[d])'),
         \A d \in Callers : \A k, key : Changes(call[d], k, key) => Changes(f[d], k, key),
         \A d \in Callers : \A p \in PromptIds : \A g \in Families : Copies(f[d], p, g) => Has(p, g)
  PROVE  DefsInv'
<1>0. TablesInv /\ \A c \in Callers : Good(call[c])
  BY DefsInvIs
<1>1. \A k, key : Changing(k, key) => Changing(k, key)'
  BY DEF Changing
<1>2. CacheInv'
  BY <1>0, <1>1 DEF TablesInv, CacheInv
<1>3. \A p \in PromptIds : \A g \in Families : Has(p, g)' => Has(p, g)
  BY DEF Has
<1>4. CopiesInv'
  BY <1>0, <1>3, CopiesFrame DEF TablesInv
<1>5. \A g : ActiveOf(g)' = ActiveOf(g)
  BY DEF ActiveOf
<1>6. OneInv'
  BY <1>0, <1>5, OneFrame DEF TablesInv
<1>7. Unwritten' => Unwritten
  BY <1>1 DEF Unwritten
<1>8. TablesInv'
  BY <1>0, <1>2, <1>4, <1>6, <1>7 DEF TablesInv, TablesOK, SuitsInv, Onward
<1>9. ASSUME NEW d \in Callers PROVE Good(call[d])'
  <2>1. PICK q : q = f[d]
    OBVIOUS
  <2>2. Sound(q) /\ Tools(q)' /\ (Unwritten' => Found(q)')
    BY <1>7, <2>1
  <2>3. Informed(q)'
    BY <2>2 DEF Informed, Sound
  <2>4. Touched(q)' = Touched(q)
    BY TouchedFrame
  <2>5. Writer(q)'
    BY <1>5, <2>2, <2>4, WriterFrame DEF Sound
  <2>6. Marker(q)'
    <3>1. CASE q.at \in {"marking", "write"} /\ q.req.do = "markActive"
      <4>1. q.rest \subseteq PromptIds /\ q.req.key \in PromptIds
        BY <2>2, <3>1, DefinitionsAssumption DEF Sound, Informed, CallType, Placed, WellFormed
      <4> QED
        BY <1>3, <1>5, <2>2, <2>4, <4>1, MarkerFrame DEF Sound
    <3> QED
      BY <3>1 DEF Marker
  <2>7. Good(q)'
    BY <2>2, <2>3, <2>5, <2>6 DEF Good, Sound
  <2> QED
    BY <2>1, <2>7
<1> QED
  BY <1>8, <1>9, DefsInvNext

(* The same where one caller's request becomes r.                           *)
LEMMA AsideOne ==
  ASSUME DefsInv, Onward, UNCHANGED <<db, cache, reading, lastId, torn>>,
         mapping' \in [Agents -> Families \cup {None}],
         template' \in [Agents -> [known : BOOLEAN, text : Phrases, stale : BOOLEAN]],
         registered' \subseteq Servers,
         AgentInv', \A s \in registered' : Offers(s)', Unwritten => \A a \in Agents : Current(a)',
         NEW c \in Callers, NEW r \in CallType, call' = [call EXCEPT ![c] = r], call[c].at # "write",
         Sound(r), Tools(r)', Unwritten => Found(r)', \A p, g : ~Copies(r, p, g),
         \A q \in CallType : (\E d \in Callers \ {c} : q = call[d]) => Tools(q)' /\ (Unwritten => Found(q)')
  PROVE  DefsInv'
<1>1. PICK f : f = [call EXCEPT ![c] = r]
  OBVIOUS
<1>2. call \in [Callers -> CallType] /\ \A d \in Callers : Sound(call[d])
  BY DefsInvIs DEF Good, Sound
<1>3. f \in [Callers -> CallType] /\ call' = f /\ f[c] = r /\ \A d \in Callers \ {c} : f[d] = call[d]
  BY <1>1, <1>2
<1>4. \A d \in Callers : Sound(f[d])
  BY <1>2, <1>3
<1>5. ASSUME NEW d \in Callers PROVE Tools(f[d])' /\ (Unwritten => Found(f[d])')
  <2>1. CASE d = c
    BY <1>3, <2>1
  <2>2. CASE d # c
    <3>1. PICK q : q = call[d]
      OBVIOUS
    <3>2. q \in CallType /\ Tools(q)' /\ (Unwritten => Found(q)')
      BY <1>2, <2>2, <3>1
    <3> QED
      BY <1>3, <2>2, <3>1, <3>2
  <2> QED
    BY <2>1, <2>2
<1>6. \A d \in Callers : \A k, key : Changes(call[d], k, key) => Changes(f[d], k, key)
  BY <1>3 DEF Changes
<1>7. \A d \in Callers : \A p \in PromptIds : \A g \in Families : Copies(f[d], p, g) => Has(p, g)
  BY <1>3 DEF Has
<1> QED
  BY <1>3, <1>4, <1>5, <1>6, <1>7, AsideStep

(* A settled request is sound, and remains it.                              *)
LEMMA SettledIsSound ==
  ASSUME NEW r, Settled(r)
  PROVE  Sound(r) /\ Tools(r)' /\ Found(r)' /\ \A p, g : ~Copies(r, p, g)
BY DEF Settled, Sound, Placed, Informed, Tools, Writer, Marker, Found, Copies

(* While no row of the cache differs, what is active in it is active.       *)
LEMMA UnwrittenView ==
  ASSUME DefsInv, Unwritten, cache["prompt"].known
  PROVE  /\ Rows("prompt") = db.prompt
         /\ \A f : Active(Family(f)) = ActiveOf(f)
<1>1. TablesOK /\ CacheInv
  BY DEF DefsInv, DefsTypeOK
<1>2. \A p \in PromptIds : cache["prompt"].rows[p] = db["prompt"][p]
  <2> SUFFICES ASSUME NEW p \in PromptIds PROVE cache["prompt"].rows[p] = db["prompt"][p]
    OBVIOUS
  <2>1. "prompt" \in Kinds /\ p \in Keys["prompt"] /\ <<"prompt", p>> \notin torn /\ ~Changing("prompt", p)
    BY FourKeys DEF Unwritten
  <2> QED
    BY <1>1, <2>1 DEF CacheInv
<1>3. cache["prompt"].rows \in Tables("prompt") /\ db["prompt"] \in Tables("prompt")
  BY <1>1, FourKinds DEF TablesOK
<1>4. cache["prompt"].rows = db["prompt"]
  BY <1>2, <1>3, FourKeys DEF Tables
<1>5. Rows("prompt") = db.prompt
  BY <1>1, <1>4, TablesAre DEF Rows
<1> QED
  BY <1>5 DEF Active, Family, ActiveOf, Present

(* The loader looks for the active prompts of a family.                     *)
LEMMA LoadStep ==
  ASSUME DefsInv, Onward, NEW c \in Callers, Load(c)
  PROVE  DefsInv'
<1> DEFINE a == Req(c).key
           found == IF Present("agent", a) /\ mapping[a] # None THEN Active(Family(mapping[a])) ELSE {}
<1>1. /\ call[c] \in CallType /\ call[c].at = "begin" /\ call[c].req # None /\ WellFormed(call[c].req)
      /\ call[c].req.do = "load" /\ \A k \in Needs(call[c]) : cache[k].known
  BY DoingIs, DefinitionsAssumption DEF Load
<1>2. a \in Agents /\ a = call[c].req.key
  BY <1>1 DEF WellFormed, Req
<1>3. UNCHANGED <<db, cache, reading, mapping, registered, lastId, torn>>
  BY DEF Load
<1>4. ~template[a].known => cache["prompt"].known /\ cache["agent"].known /\ cache.prompt.known
  <2> SUFFICES ASSUME ~template[a].known PROVE cache["prompt"].known /\ cache["agent"].known /\ cache.prompt.known
    OBVIOUS
  <2>1. Needs(call[c]) = {"agent", "prompt"}
    BY <1>1, <1>2 DEF Needs
  <2> QED
    BY <1>1, <2>1, TablesAre DEF DefsInv, DefsTypeOK
<1>5. CASE ~template[a].known /\ found # {}
  <2>1. PICK r : r = [At(c, "naming") EXCEPT !.was = found]
    OBVIOUS
  <2>2. call' = [call EXCEPT ![c] = r] /\ Still
    BY <1>3, <1>5, <2>1 DEF Load, To, Still
  <2>3. found \subseteq PromptIds /\ mapping[a] # None /\ found = Active(Family(mapping[a]))
    BY <1>5 DEF Active, Family
  <2>4. Unwritten => found = ActiveOf(mapping[a])
    BY <1>4, <1>5, <2>3, UnwrittenView
  <2> HIDE DEF found, a
  <2>5. r \in CallType /\ r.at = "naming" /\ r.req = call[c].req /\ r.was = found
    BY <1>1, <2>1, <2>3 DEF At, CallType, Places
  <2>6. Placed(r) /\ Tools(r)
    BY <1>1, <2>5 DEF Placed, Tools
  <2>7. Unwritten => Found(r)
    BY <1>2, <1>5, <2>4, <2>5 DEF Found
  <2> QED
    BY <1>1, <1>4, <1>5, <2>2, <2>5, <2>6, <2>7, MoveStep
<1>6. CASE template[a].known
  <2>1. Still /\ Finish(c)
    BY <1>3, <1>6 DEF Load, Still
  <2> QED
    BY <1>1, <2>1, EndStep
<1>7. CASE ~template[a].known /\ found = {}
  <2>1. PICK t : t = [known |-> TRUE, text |-> None, stale |-> FALSE]
    OBVIOUS
  <2>2. template' = [template EXCEPT ![a] = t] /\ call' = [call EXCEPT ![c] = Done(call[c])]
    BY <1>7, <2>1 DEF Load, Finish, To
  <2>3. PICK r : r = Done(call[c])
    OBVIOUS
  <2>4. Settled(r) /\ r \in CallType
    BY <1>1, <2>3, Ends DEF Settled
  <2>5. /\ mapping \in [Agents -> Families \cup {None}] /\ registered \subseteq Servers
        /\ template \in [Agents -> [known : BOOLEAN, text : Phrases, stale : BOOLEAN]]
        /\ \A b \in Agents : Unwritten => Current(b)
        /\ \A s \in registered : Offers(s)
    BY DEF DefsInv, DefsTypeOK, ToolsInv, TemplateInv
  <2>6. t \in [known : BOOLEAN, text : Phrases, stale : BOOLEAN]
    BY <2>1 DEF Phrases
  <2>7. /\ template' \in [Agents -> [known : BOOLEAN, text : Phrases, stale : BOOLEAN]]
        /\ template'[a] = t /\ \A b \in Agents \ {a} : template'[b] = template[b]
    BY <1>2, <2>2, <2>5, <2>6
  <2>8. Unwritten /\ db.agent[a] # None /\ mapping[a] # None => ActiveOf(mapping[a]) = {}
    <3> SUFFICES ASSUME Unwritten, db.agent[a] # None, mapping[a] # None PROVE ActiveOf(mapping[a]) = {}
      OBVIOUS
    <3>1. "agent" \in Kinds /\ a \in Keys["agent"] /\ torn = {} /\ db["agent"][a] # None
      BY <1>2, FourKeys, TablesAre DEF Unwritten, DefsInv, DefsTypeOK
    <3>2. cache["agent"].rows[a] # None
      BY <1>4, <1>7, <3>1 DEF DefsInv, CacheInv
    <3>3. found = Active(Family(mapping[a]))
      BY <3>2 DEF Present, Rows
    <3> QED
      BY <1>4, <1>7, <3>3, UnwrittenView
  <2> HIDE DEF a, found
  <2>9. \A f : ActiveOf(f)' = ActiveOf(f)
    BY <1>3 DEF ActiveOf
  <2>10. Unwritten => \A b \in Agents : Current(b)'
    <3> SUFFICES ASSUME Unwritten, NEW b \in Agents PROVE Current(b)'
      OBVIOUS
    <3>1. CASE b = a
      BY <1>3, <2>1, <2>7, <2>8, <2>9, <3>1 DEF Current
    <3>2. CASE b # a
      BY <1>3, <2>5, <2>7, <2>9, <3>2 DEF Current
    <3> QED
      BY <3>1, <3>2
  <2>11. AgentInv'
    <3>1. call \in [Callers -> CallType]
      BY DEF DefsInv, DefsTypeOK
    <3>2. call'[c] = r /\ \A d \in Callers \ {c} : call'[d] = call[d]
      BY <2>2, <2>3, <3>1
    <3>3. \A d \in Callers : \A b \in Agents : Excuses(call[d], b) => Excuses(call'[d], b)
      BY <1>1, <3>2 DEF Excuses
    <3> QED
      BY <1>3, <3>3, AgentFrame DEF DefsInv
  <2>12. \A s \in registered' : Offers(s)'
    BY <1>3, <2>5, OffersFrame
  <2>13. \A q \in CallType : (\E d \in Callers \ {c} : q = call[d]) => Tools(q)' /\ (Unwritten => Found(q)')
    <3> SUFFICES ASSUME NEW q \in CallType, NEW d \in Callers \ {c}, q = call[d]
                 PROVE  Tools(q)' /\ (Unwritten => Found(q)')
      OBVIOUS
    <3>1. Good(q)
      BY RequestsAre
    <3>2. Tools(q)'
      BY <1>3, <3>1, ToolsFrame DEF Good
    <3> QED
      BY <1>3, <2>9, <3>1, <3>2 DEF Good, Found
  <2>14. mapping' \in [Agents -> Families \cup {None}] /\ registered' \subseteq Servers
    BY <1>3, <2>5
  <2>15. call' = [call EXCEPT ![c] = r] /\ call[c].at # "write"
    BY <1>1, <2>2, <2>3
  <2> QED
    BY <1>3, <2>4, <2>7, <2>10, <2>11, <2>12, <2>13, <2>14, <2>15, SettledIsSound, AsideOne
<1> QED
  BY <1>5, <1>6, <1>7

(* What a step that leaves the mappings alone, and only removes tools, says *)
(* of the other requests.                                                   *)
LEMMA OthersAside ==
  ASSUME Onward, UNCHANGED <<db, mapping>>, registered' \subseteq registered, NEW q, Good(q)
  PROVE  Tools(q)' /\ (Unwritten => Found(q)')
<1>1. Tools(q)'
  BY ToolsFrame DEF Good
<1>2. \A f : ActiveOf(f)' = ActiveOf(f)
  BY DEF ActiveOf
<1> QED
  BY <1>1, <1>2 DEF Good, Found

(* An agent whose request does not excuse it stays as it was.               *)
LEMMA AgentsAside ==
  ASSUME DefsInv, Onward, UNCHANGED <<db, mapping>>, NEW c \in Callers, NEW r, call' = [call EXCEPT ![c] = r],
         \A a : ~Excuses(call[c], a)
  PROVE  AgentInv'
<1>1. call \in [Callers -> CallType]
  BY DEF DefsInv, DefsTypeOK
<1>2. \A d \in Callers \ {c} : call'[d] = call[d]
  BY <1>1
<1>3. \A d \in Callers : \A b \in Agents : Excuses(call[d], b) => Excuses(call'[d], b)
  BY <1>2
<1> QED
  BY <1>3, AgentFrame DEF DefsInv, Onward

(* The name of the model is known, and the template is kept.                *)
LEMMA NamedStep ==
  ASSUME DefsInv, Onward, NEW c \in Callers, Named(c)
  PROVE  DefsInv'
<1> DEFINE a == Req(c).key
           suited == {p \in call[c].was : Present("prompt", p) /\ Rows("prompt")[p].suits}
<1>1. /\ call[c].at = "naming" /\ call[c] \in CallType /\ Good(call[c]) /\ call[c].req \in Requests /\ WellFormed(call[c].req)
  BY RequestsAre DEF Named
<1>2. call[c].req.do = "load" /\ a \in Agents /\ a = call[c].req.key /\ cache["prompt"].known
  BY <1>1, TablesAre, DefinitionsAssumption DEF Good, Placed, WellFormed, Req, Informed, DefsInv, DefsTypeOK
<1>3. UNCHANGED <<db, cache, reading, mapping, registered, lastId, torn>> /\ call' = [call EXCEPT ![c] = Done(call[c])]
  BY DEF Named, Finish, To
<1>4. \E text, stale : /\ template' = [template EXCEPT ![a] = [known |-> TRUE, text |-> text, stale |-> stale]]
                       /\ \/ text = None /\ stale = TRUE
                          \/ ~call[c].raced /\ suited = {} /\ text = None /\ stale = FALSE
                          \/ ~call[c].raced /\ stale = FALSE /\ \E p \in suited : text = Rows("prompt")[p].text
  <2> DEFINE kept(text, stale) == template' = [template EXCEPT ![a] = [known |-> TRUE, text |-> text, stale |-> stale]]
  <2>1. \/ kept(None, TRUE)
        \/ ~call[c].raced /\ suited = {} /\ kept(None, FALSE)
        \/ ~call[c].raced /\ \E p \in suited : kept(Rows("prompt")[p].text, FALSE)
    BY DEF Named
  <2> HIDE DEF suited
  <2>2. CASE kept(None, TRUE)
    BY <2>2
  <2>3. CASE ~call[c].raced /\ suited = {} /\ kept(None, FALSE)
    BY <2>3
  <2>4. CASE ~call[c].raced /\ \E p \in suited : kept(Rows("prompt")[p].text, FALSE)
    BY <2>4
  <2> QED
    BY <2>1, <2>2, <2>3, <2>4
<1>5. PICK text, stale : /\ template' = [template EXCEPT ![a] = [known |-> TRUE, text |-> text, stale |-> stale]]
                         /\ \/ text = None /\ stale = TRUE
                            \/ ~call[c].raced /\ suited = {} /\ text = None /\ stale = FALSE
                            \/ ~call[c].raced /\ stale = FALSE /\ \E p \in suited : text = Rows("prompt")[p].text
  BY <1>4
<1>6. \A p \in suited : p \in PromptIds /\ Rows("prompt")[p].text \in Phrases
  <2> SUFFICES ASSUME NEW p \in suited PROVE p \in PromptIds /\ Rows("prompt")[p].text \in Phrases
    OBVIOUS
  <2>1. p \in PromptIds /\ Present("prompt", p)
    BY <1>1 DEF CallType
  <2> QED
    BY <2>1, SeenPrompt DEF PromptRows
<1>7. text \in Phrases /\ stale \in BOOLEAN
  BY <1>5, <1>6 DEF Phrases
<1>8. Unwritten /\ mapping[a] # None /\ ~stale =>
        IF ActiveOf(mapping[a]) = {} THEN text = None ELSE \E p \in ActiveOf(mapping[a]) : text = db.prompt[p].text
  <2> SUFFICES ASSUME Unwritten, mapping[a] # None, ~stale
               PROVE  IF ActiveOf(mapping[a]) = {} THEN text = None
                      ELSE \E p \in ActiveOf(mapping[a]) : text = db.prompt[p].text
    OBVIOUS
  <2>1. ~call[c].raced /\ (suited = {} \/ \E p \in suited : text = Rows("prompt")[p].text)
    BY <1>5
  <2>2. call[c].was = ActiveOf(mapping[a]) /\ call[c].was # {}
    BY <1>1, <1>2, <2>1 DEF Good, Found
  <2>3. Rows("prompt") = db.prompt
    BY <1>2, UnwrittenView
  <2>4. \A p \in ActiveOf(mapping[a]) : db.prompt[p] # None /\ db.prompt[p].suits
    BY DEF ActiveOf, DefsInv, SuitsInv
  <2>5. suited = ActiveOf(mapping[a])
    BY <2>2, <2>3, <2>4 DEF Present
  <2> HIDE DEF suited
  <2> QED
    BY <2>1, <2>2, <2>3, <2>5
<1> HIDE DEF a, suited
<1>9. PICK t : t = [known |-> TRUE, text |-> text, stale |-> stale]
  OBVIOUS
<1>10. PICK r : r = Done(call[c])
  OBVIOUS
<1>11. Settled(r) /\ r \in CallType /\ call' = [call EXCEPT ![c] = r] /\ call[c].at # "write"
  BY <1>1, <1>3, <1>10, Ends DEF Settled
<1>12. /\ mapping \in [Agents -> Families \cup {None}] /\ registered \subseteq Servers
       /\ template \in [Agents -> [known : BOOLEAN, text : Phrases, stale : BOOLEAN]]
       /\ \A b \in Agents : Unwritten => Current(b)
       /\ \A s \in registered : Offers(s)
  BY DEF DefsInv, DefsTypeOK, ToolsInv, TemplateInv
<1>13. t \in [known : BOOLEAN, text : Phrases, stale : BOOLEAN]
  BY <1>7, <1>9
<1>14. /\ template' \in [Agents -> [known : BOOLEAN, text : Phrases, stale : BOOLEAN]]
       /\ template'[a] = t /\ \A b \in Agents \ {a} : template'[b] = template[b]
  BY <1>2, <1>5, <1>9, <1>12, <1>13
<1>15. \A f : ActiveOf(f)' = ActiveOf(f)
  BY <1>3 DEF ActiveOf
<1>16. Unwritten => \A b \in Agents : Current(b)'
  <2> SUFFICES ASSUME Unwritten, NEW b \in Agents PROVE Current(b)'
    OBVIOUS
  <2>1. CASE b = a
    BY <1>3, <1>8, <1>9, <1>14, <1>15, <2>1 DEF Current
  <2>2. CASE b # a
    BY <1>3, <1>12, <1>14, <1>15, <2>2 DEF Current
  <2> QED
    BY <2>1, <2>2
<1>17. AgentInv'
  <2>1. \A b : ~Excuses(call[c], b)
    BY <1>1 DEF Excuses
  <2> QED
    BY <1>3, <1>11, <2>1, AgentsAside
<1>18. \A s \in registered' : Offers(s)'
  BY <1>3, <1>12, OffersFrame
<1>19. \A q \in CallType : (\E d \in Callers \ {c} : q = call[d]) => Tools(q)' /\ (Unwritten => Found(q)')
  BY <1>3, RequestsAre, OthersAside
<1>20. mapping' \in [Agents -> Families \cup {None}] /\ registered' \subseteq Servers
  BY <1>3, <1>12
<1> QED
  BY <1>3, <1>11, <1>14, <1>16, <1>17, <1>18, <1>19, <1>20, SettledIsSound, AsideOne

(* A load that was overtaken is sound, and promises nothing.                *)
LEMMA RacedIsSound ==
  ASSUME NEW r \in CallType, Good(r), r.at = "naming", NEW q, q = [r EXCEPT !.raced = TRUE]
  PROVE  /\ q \in CallType /\ Sound(q) /\ Tools(q)' /\ Found(q)' /\ q.at = "naming"
         /\ \A p, g : ~Copies(q, p, g)
<1>1. q \in CallType /\ q.at = "naming" /\ q.raced /\ q.req = r.req
  BY DEF CallType
<1>2. Placed(q)
  BY <1>1 DEF Good, Placed
<1>3. Informed(q)
  BY <1>1 DEF Good, Informed
<1> QED
  BY <1>1, <1>2, <1>3 DEF Sound, Tools, Found, Writer, Marker, Copies

(* An agent is mapped to its family.                                        *)
LEMMA MappedStep ==
  ASSUME DefsInv, Onward, NEW c \in Callers, Mapped(c)
  PROVE  DefsInv'
<1> DEFINE a == Req(c).key
<1>0. PICK f : f = [d \in Callers |->
                      IF d = c THEN Done(call[c])
                      ELSE IF call[d].at = "naming" /\ Req(d).key = a THEN [call[d] EXCEPT !.raced = TRUE]
                      ELSE call[d]]
  OBVIOUS
<1>1. /\ call[c].at = "map" /\ call[c] \in CallType /\ Good(call[c]) /\ call[c].req \in Requests /\ WellFormed(call[c].req)
  BY RequestsAre DEF Mapped
<1>2. /\ call[c].req.do \in {"createAgent", "updateAgent"} /\ a \in Agents /\ a = call[c].req.key
      /\ Req(c).family \in Families /\ Req(c).family # None
  BY <1>1 DEF Good, Placed, WellFormed, Req
<1>3. /\ UNCHANGED <<db, cache, reading, registered, lastId, torn>> /\ call' = f
      /\ mapping' = [mapping EXCEPT ![a] = Req(c).family]
      /\ template' = [template EXCEPT ![a].stale = @ \/ template[a].known]
  BY <1>0 DEF Mapped
<1>4. /\ mapping \in [Agents -> Families \cup {None}] /\ registered \subseteq Servers
      /\ template \in [Agents -> [known : BOOLEAN, text : Phrases, stale : BOOLEAN]]
      /\ \A b \in Agents : Unwritten => Current(b)
      /\ \A s \in registered : Offers(s)
      /\ AgentInv
  BY DEF DefsInv, DefsTypeOK, ToolsInv, TemplateInv
<1>5. /\ mapping' \in [Agents -> Families \cup {None}]
      /\ mapping'[a] = Req(c).family /\ \A b \in Agents \ {a} : mapping'[b] = mapping[b]
  BY <1>2, <1>3, <1>4
<1>6. PICK t : t = [template[a] EXCEPT !.stale = @ \/ template[a].known]
  OBVIOUS
<1>7. t \in [known : BOOLEAN, text : Phrases, stale : BOOLEAN] /\ (t.known => t.stale)
  BY <1>2, <1>4, <1>6
<1>8. template' = [template EXCEPT ![a] = t]
  BY <1>3, <1>6
<1>9. /\ template' \in [Agents -> [known : BOOLEAN, text : Phrases, stale : BOOLEAN]]
      /\ template'[a] = t /\ \A b \in Agents \ {a} : template'[b] = template[b]
  BY <1>2, <1>4, <1>7, <1>8
<1>10. \A g : ActiveOf(g)' = ActiveOf(g)
  BY <1>3 DEF ActiveOf
<1>11. PICK r : r = Done(call[c])
  OBVIOUS
<1>12. Settled(r) /\ r \in CallType
  BY <1>1, <1>11, Ends DEF Settled
<1>13. /\ f[c] = r
       /\ \A d \in Callers \ {c} : call[d].at = "naming" /\ Req(d).key = a => f[d] = [call[d] EXCEPT !.raced = TRUE]
       /\ \A d \in Callers \ {c} : ~(call[d].at = "naming" /\ Req(d).key = a) => f[d] = call[d]
  BY <1>0, <1>11
<1>14. f = [d \in Callers |-> f[d]]
  BY <1>0
<1> HIDE DEF a
<1>15. \A d \in Callers : call[d] \in CallType /\ Good(call[d])
  BY RequestsAre
<1>16. \A d \in Callers \ {c} : call[d].at = "naming" /\ Req(d).key = a =>
         f[d] \in CallType /\ Sound(f[d]) /\ Tools(f[d])' /\ Found(f[d])' /\ f[d].at = "naming" /\ \A p, g : ~Copies(f[d], p, g)
  BY <1>13, <1>15, RacedIsSound
<1>17. ASSUME NEW d \in Callers \ {c}, ~(call[d].at = "naming" /\ Req(d).key = a)
       PROVE  f[d] \in CallType /\ Sound(f[d]) /\ Tools(f[d])' /\ (Unwritten => Found(f[d])')
  <2>1. PICK q : q = call[d]
    OBVIOUS
  <2>2. q \in CallType /\ Good(q) /\ f[d] = q /\ ~(q.at = "naming" /\ q.req.key = a)
    BY <1>13, <1>15, <1>17, <2>1 DEF Req
  <2>3. Tools(q)'
    BY <1>3, <2>2, ToolsFrame DEF Good
  <2>4. q.at = "naming" => q.req.key \in Agents \ {a}
    <3> SUFFICES ASSUME q.at = "naming" PROVE q.req.key \in Agents \ {a}
      OBVIOUS
    <3>1. WellFormed(q.req)
      BY <2>1, RequestsAre
    <3> QED
      BY <2>2, <3>1 DEF WellFormed, Good, Placed
  <2>5. Unwritten => Found(q)'
    BY <1>5, <1>10, <2>2, <2>4 DEF Good, Found
  <2> QED
    BY <2>2, <2>3, <2>5 DEF Good, Sound
<1>18. \A d \in Callers : f[d] \in CallType /\ Sound(f[d]) /\ Tools(f[d])' /\ (Unwritten => Found(f[d])')
  BY <1>12, <1>13, <1>16, <1>17, SettledIsSound
<1>19. f \in [Callers -> CallType]
  BY <1>14, <1>18
<1>20. \A d \in Callers : \A k, key : Changes(call[d], k, key) => Changes(f[d], k, key)
  BY <1>1, <1>13 DEF Changes
<1>21. \A d \in Callers : \A p \in PromptIds : \A g \in Families : Copies(f[d], p, g) => Has(p, g)
  BY <1>12, <1>13, <1>16, SettledIsSound DEF Has
<1>22. AgentInv'
  <2> SUFFICES ASSUME NEW b \in Agents, db'.agent[b] # None, mapping'[b] = None
               PROVE  <<"agent", b>> \in torn' \/ \E d \in Callers : Excuses(call'[d], b)
    BY DEF AgentInv
  <2>1. b # a /\ mapping[b] = None /\ db.agent[b] # None
    BY <1>2, <1>3, <1>5
  <2>2. CASE <<"agent", b>> \in torn
    BY <1>3, <2>2
  <2>3. CASE \E d \in Callers : Excuses(call[d], b)
    <3>1. PICK d \in Callers : Excuses(call[d], b)
      BY <2>3
    <3>2. d # c /\ call[d].at # "naming"
      BY <1>2, <2>1, <3>1 DEF Excuses
    <3>3. call'[d] = call[d]
      BY <1>3, <1>13, <3>2
    <3> QED
      BY <3>1, <3>3
  <2> QED
    BY <1>4, <2>1, <2>2, <2>3 DEF AgentInv
<1>23. Unwritten => \A b \in Agents : Current(b)'
  <2> SUFFICES ASSUME Unwritten, NEW b \in Agents PROVE Current(b)'
    OBVIOUS
  <2>1. CASE b = a
    BY <1>7, <1>9, <2>1 DEF Current
  <2>2. CASE b # a
    BY <1>3, <1>4, <1>5, <1>9, <1>10, <2>2 DEF Current
  <2> QED
    BY <2>1, <2>2
<1>24. \A s \in registered' : Offers(s)'
  BY <1>3, <1>4, OffersFrame
<1>25. registered' \subseteq Servers /\ call' = f
  BY <1>3, <1>4
<1> QED
  BY <1>3, <1>5, <1>9, <1>18, <1>19, <1>20, <1>21, <1>22, <1>23, <1>24, <1>25, AsideStep

(* The mapping of an agent goes.                                            *)
LEMMA UnmappedStep ==
  ASSUME DefsInv, Onward, NEW c \in Callers, Unmapped(c)
  PROVE  DefsInv'
<1> DEFINE a == Req(c).key
<1>1. /\ call[c].at = "unmap" /\ call[c] \in CallType /\ Good(call[c]) /\ call[c].req \in Requests /\ WellFormed(call[c].req)
  BY RequestsAre DEF Unmapped
<1>2. call[c].req.do = "deleteAgent" /\ a \in Agents /\ a = call[c].req.key
  BY <1>1 DEF Good, Placed, WellFormed, Req
<1>3. /\ UNCHANGED <<db, cache, reading, template, registered, lastId, torn>>
      /\ mapping' = [mapping EXCEPT ![a] = None] \/ UNCHANGED mapping
  BY DEF Unmapped
<1>4. /\ mapping \in [Agents -> Families \cup {None}] /\ registered \subseteq Servers
      /\ template \in [Agents -> [known : BOOLEAN, text : Phrases, stale : BOOLEAN]]
      /\ \A b \in Agents : Unwritten => Current(b)
      /\ \A s \in registered : Offers(s)
      /\ AgentInv
      /\ call \in [Callers -> CallType]
  BY DEF DefsInv, DefsTypeOK, ToolsInv, TemplateInv
<1>5. /\ mapping' \in [Agents -> Families \cup {None}]
      /\ \A b \in Agents : mapping'[b] = mapping[b] \/ (b = a /\ mapping'[b] = None)
  BY <1>2, <1>3, <1>4
<1>6. PICK w : w = Write("delete", "agent", a, None)
  OBVIOUS
<1>7. w \in Writes /\ w.mode = "delete" /\ w.kind = "agent" /\ w.key = a /\ w.row = None /\ Fits(call[c].req, w)
  BY <1>1, <1>2, <1>6, RemovalOfAgent
<1>8. PICK r : r = Writing(call[c], w)
  OBVIOUS
<1>9. Issue(c, w)
  BY <1>6 DEF Unmapped
<1>10. call' = [call EXCEPT ![c] = r]
  BY <1>8, <1>9, WritingAt
<1>11. r \in CallType /\ r.at = "write" /\ r.write = w /\ r.req = call[c].req /\ r.req # None
  BY <1>1, <1>7, <1>8, WritingIs, DefinitionsAssumption
<1> HIDE DEF a
<1>12. Sound(r)
  BY <1>2, <1>7, <1>11 DEF Sound, Placed, Informed, Writer, Marker
<1>13. Tools(r)' /\ Found(r)' /\ \A p, g : ~Copies(r, p, g)
  BY <1>7, <1>11 DEF Tools, Found, Copies
<1>14. \A g : ActiveOf(g)' = ActiveOf(g)
  BY <1>3 DEF ActiveOf
<1>15. \A q \in CallType : (\E d \in Callers \ {c} : q = call[d]) => Tools(q)' /\ (Unwritten => Found(q)')
  <2> SUFFICES ASSUME NEW q \in CallType, NEW d \in Callers \ {c}, q = call[d]
               PROVE  Tools(q)' /\ (Unwritten => Found(q)')
    OBVIOUS
  <2>1. Good(q) /\ (q.at \notin {"idle", "end"} => WellFormed(q.req))
    BY RequestsAre
  <2>2. Tools(q)'
    BY <1>3, <2>1, ToolsFrame DEF Good
  <2>3. q.at = "naming" => q.req.key \in Agents
    BY <2>1 DEF WellFormed, Good, Placed
  <2>4. Unwritten => Found(q)'
    BY <1>5, <1>14, <2>1, <2>3 DEF Good, Found
  <2> QED
    BY <2>2, <2>4
<1>16. AgentInv'
  <2> SUFFICES ASSUME NEW b \in Agents, db'.agent[b] # None, mapping'[b] = None
               PROVE  <<"agent", b>> \in torn' \/ \E d \in Callers : Excuses(call'[d], b)
    BY DEF AgentInv
  <2>1. call'[c] = r /\ \A d \in Callers \ {c} : call'[d] = call[d]
    BY <1>4, <1>10
  <2>2. CASE b = a
    <3>1. Excuses(r, b)
      BY <1>2, <1>7, <1>11, <2>2 DEF Excuses
    <3> QED
      BY <2>1, <3>1
  <2>3. CASE b # a
    <3>1. mapping[b] = None /\ db.agent[b] # None
      BY <1>3, <1>5, <2>3
    <3>2. ~Excuses(call[c], b)
      BY <1>1 DEF Excuses
    <3> QED
      BY <1>3, <1>4, <2>1, <3>1, <3>2 DEF AgentInv
  <2> QED
    BY <2>2, <2>3
<1>17. Unwritten => \A b \in Agents : Current(b)'
  BY <1>3, <1>4, <1>5, <1>14 DEF Current
<1>18. \A s \in registered' : Offers(s)'
  BY <1>3, <1>4, OffersFrame
<1>19. registered' \subseteq Servers /\ template' \in [Agents -> [known : BOOLEAN, text : Phrases, stale : BOOLEAN]]
  BY <1>3, <1>4
<1>20. call[c].at # "write"
  BY <1>1
<1> QED
  BY <1>3, <1>5, <1>10, <1>11, <1>12, <1>13, <1>15, <1>16, <1>17, <1>18, <1>19, <1>20, AsideOne

(* A server whose tools are being registered while it is deleted is crowded. *)
LEMMA DeletedMeanwhile ==
  ASSUME DefsInv, NEW c \in Callers, NEW d \in Callers \ {c}, NEW s \in Servers,
         \/ call[c].at = "register" /\ call[c].req.key = s
         \/ call[c].at = "reload",
         call[d].at = "write", call[d].write.kind = "mcp", call[d].write.mode = "delete", call[d].write.key = s
  PROVE  s \in crowded
<1>1. Good(call[c]) /\ Good(call[d])
  BY RequestsAre
<1>2. call[d].req.do = "deleteServer" /\ call[d].req.key = s
  BY <1>1 DEF Good, Placed, Fits, ServerWriters
<1>3. s \in Touched(call[d])
  BY <1>2 DEF Touched
<1>4. s \in Touched(call[c])
  BY <1>1 DEF Touched, Good, Placed
<1> QED
  BY <1>3, <1>4 DEF DefsInv, CrowdInv

(* Tools change, and a caller goes on.                                      *)
LEMMA ToolsStep ==
  ASSUME DefsInv, Onward, UNCHANGED <<db, cache, reading, mapping, template, lastId, torn>>,
         registered' \subseteq Servers, \A s \in registered' : Offers(s),
         NEW c \in Callers, NEW r \in CallType, call' = [call EXCEPT ![c] = r],
         call[c].at \in {"begin", "register", "reload"},
         Sound(r), Tools(r)', Found(r)', \A p, g : ~Copies(r, p, g),
         \A d \in Callers \ {c} : \A s \in registered' \ registered :
           call[d].at = "write" /\ call[d].write.kind = "mcp" /\ call[d].write.mode = "delete" /\ call[d].write.key = s
           => s \in crowded
  PROVE  DefsInv'
<1>1. /\ mapping' \in [Agents -> Families \cup {None}]
      /\ template' \in [Agents -> [known : BOOLEAN, text : Phrases, stale : BOOLEAN]]
      /\ \A b \in Agents : Unwritten => Current(b)
  BY DEF DefsInv, DefsTypeOK, ToolsInv, TemplateInv
<1>2. \A g : ActiveOf(g)' = ActiveOf(g)
  BY DEF ActiveOf
<1>3. Unwritten => \A b \in Agents : Current(b)'
  BY <1>1, <1>2 DEF Current
<1>4. AgentInv'
  <2>1. \A a : ~Excuses(call[c], a)
    BY DEF Excuses
  <2> QED
    BY <2>1, AgentsAside
<1>5. \A s \in registered' : Offers(s)'
  BY OffersFrame
<1>6. \A q \in CallType : (\E d \in Callers \ {c} : q = call[d]) => Tools(q)' /\ (Unwritten => Found(q)')
  <2> SUFFICES ASSUME NEW q \in CallType, NEW d \in Callers \ {c}, q = call[d]
               PROVE  Tools(q)' /\ (Unwritten => Found(q)')
    OBVIOUS
  <2>1. Good(q)
    BY RequestsAre
  <2>2. Unwritten => Found(q)'
    BY <1>2, <2>1 DEF Good, Found
  <2>3. q.at = "register" => Offers(q.req.key)'
    BY <2>1, OffersFrame DEF Good, Tools
  <2>4. q.at = "reload" => \A s \in q.rest : Offers(s)'
    BY <2>1, OffersFrame DEF Good, Tools
  <2>5. q.at = "write" /\ q.write.kind = "mcp" /\ q.write.mode = "delete" =>
          q.write.key \notin registered' \/ q.write.key \in crowded'
    BY <2>1 DEF Good, Tools, Onward
  <2>6. Tools(q)'
    BY <2>3, <2>4, <2>5 DEF Tools
  <2> QED
    BY <2>2, <2>6
<1>7. call[c].at # "write"
  OBVIOUS
<1> QED
  BY <1>1, <1>3, <1>4, <1>5, <1>6, <1>7, AsideOne

(* A server answers with its tools, or does not.                            *)
LEMMA RegisteredStep ==
  ASSUME DefsInv, Onward, NEW c \in Callers, Registered(c)
  PROVE  DefsInv'
<1>1. /\ call[c].at = "register" /\ call[c] \in CallType /\ Good(call[c]) /\ call[c].req \in Requests /\ WellFormed(call[c].req)
  BY RequestsAre DEF Registered
<1>2. call[c].req.do = "discover" /\ Req(c).key \in Servers /\ Req(c).key = call[c].req.key
  BY <1>1 DEF Good, Placed, WellFormed, Req
<1>3. UNCHANGED <<db, cache, reading, mapping, template, lastId, torn>>
  BY DEF Registered
<1>4. CASE Fail(c) /\ UNCHANGED registered
  BY <1>1, <1>3, <1>4, EndStep DEF Still
<1>5. CASE registered' = registered \cup {Req(c).key} /\ Finish(c)
  <2>1. PICK r : r = Done(call[c])
    OBVIOUS
  <2>2. Settled(r) /\ r \in CallType /\ call' = [call EXCEPT ![c] = r]
    BY <1>1, <1>5, <2>1, Ends DEF Settled, Finish, To
  <2>3. registered \subseteq Servers /\ \A s \in registered : Offers(s)
    BY DEF DefsInv, DefsTypeOK, ToolsInv
  <2>4. Offers(Req(c).key)
    BY <1>1, <1>2 DEF Good, Tools
  <2>5. registered' \subseteq Servers /\ \A s \in registered' : Offers(s)
    BY <1>2, <1>5, <2>3, <2>4
  <2>6. \A d \in Callers \ {c} : \A s \in registered' \ registered :
           call[d].at = "write" /\ call[d].write.kind = "mcp" /\ call[d].write.mode = "delete" /\ call[d].write.key = s
           => s \in crowded
    BY <1>1, <1>2, <1>5, DeletedMeanwhile
  <2>7. call[c].at \in {"begin", "register", "reload"}
    BY <1>1
  <2> QED
    BY <1>3, <2>2, <2>5, <2>6, <2>7, SettledIsSound, ToolsStep
<1> QED
  BY <1>4, <1>5 DEF Registered

(* All servers that answer have their tools registered.                     *)
LEMMA ReloadedStep ==
  ASSUME DefsInv, Onward, NEW c \in Callers, Reloaded(c)
  PROVE  DefsInv'
<1>1. call[c].at = "reload" /\ call[c] \in CallType /\ Good(call[c])
  BY RequestsAre DEF Reloaded
<1>2. call[c].rest \subseteq Servers /\ \A s \in call[c].rest : Offers(s)
  BY <1>1 DEF Good, Placed, Tools
<1>3. UNCHANGED <<db, cache, reading, mapping, template, lastId, torn>> /\ registered' \subseteq call[c].rest
  BY DEF Reloaded
<1>4. PICK r : r = Done(call[c])
  OBVIOUS
<1>5. Settled(r) /\ r \in CallType /\ call' = [call EXCEPT ![c] = r]
  BY <1>1, <1>4, Ends DEF Settled, Reloaded, Finish, To
<1>6. registered' \subseteq Servers /\ \A s \in registered' : Offers(s)
  BY <1>2, <1>3
<1>7. \A d \in Callers \ {c} : \A s \in registered' \ registered :
         call[d].at = "write" /\ call[d].write.kind = "mcp" /\ call[d].write.mode = "delete" /\ call[d].write.key = s
         => s \in crowded
  BY <1>1, <1>6, DeletedMeanwhile
<1>8. call[c].at \in {"begin", "register", "reload"}
  BY <1>1
<1> QED
  BY <1>3, <1>5, <1>6, <1>7, <1>8, SettledIsSound, ToolsStep

(* A server loses its tools before its row.                                 *)
LEMMA DeleteServerStep ==
  ASSUME DefsInv, Onward, NEW c \in Callers, DeleteServer(c)
  PROVE  DefsInv'
<1> DEFINE key == Req(c).key
<1>1. /\ call[c] \in CallType /\ call[c].at = "begin" /\ call[c].req # None /\ call[c].req.do = "deleteServer"
      /\ key \in Servers /\ key = call[c].req.key
  BY DoingIs, DefinitionsAssumption DEF DeleteServer, WellFormed, Req
<1>2. PICK w : w = Write("delete", "mcp", key, None)
  OBVIOUS
<1>3. /\ UNCHANGED <<db, cache, reading, mapping, template, lastId, torn>> /\ registered' = registered \ {key}
      /\ Issue(c, w)
  BY <1>2 DEF DeleteServer
<1>4. w \in Writes /\ w.mode = "delete" /\ w.kind = "mcp" /\ w.key = key /\ w.row = None
  BY <1>1, <1>2, IssuesWrite, FourKeys
<1>5. Fits(call[c].req, w)
  BY <1>1, <1>4 DEF Fits, PromptWriters, AgentWriters, TeamWriters, ServerWriters
<1>6. PICK r : r = Writing(call[c], w)
  OBVIOUS
<1>7. call' = [call EXCEPT ![c] = r]
  BY <1>3, <1>6, WritingAt
<1>8. r \in CallType /\ r.at = "write" /\ r.write = w /\ r.req = call[c].req
  BY <1>1, <1>4, <1>6, WritingIs
<1> HIDE DEF key
<1>9. Sound(r)
  BY <1>1, <1>4, <1>5, <1>8 DEF Sound, Placed, Informed, Writer, Marker
<1>10. Tools(r)' /\ Found(r)' /\ \A p, g : ~Copies(r, p, g)
  BY <1>3, <1>4, <1>8 DEF Tools, Found, Copies
<1>11. registered' \subseteq Servers /\ \A s \in registered' : Offers(s)
  BY <1>3 DEF DefsInv, DefsTypeOK, ToolsInv
<1>12. registered' \ registered = {}
  BY <1>3
<1>13. call[c].at \in {"begin", "register", "reload"}
  BY <1>1
<1> QED
  BY <1>3, <1>7, <1>8, <1>9, <1>10, <1>11, <1>12, <1>13, ToolsStep

-----------------------------------------------------------------------------
(* Failures of the database, the population of caches, and restarts         *)

(* The database refuses a write.                                            *)
LEMMA WriteFailsStep ==
  ASSUME DefsInv, Onward, NEW c \in Callers, WriteFails(c)
  PROVE  DefsInv'
<1>1. /\ call[c].at = "write" /\ call[c] \in CallType /\ Good(call[c])
  BY RequestsAre DEF WriteFails
<1>2. /\ UNCHANGED <<db, cache, reading, mapping, template, registered, lastId>>
      /\ torn' = IF call[c].write.mode = "create" THEN torn ELSE torn \cup {<<call[c].write.kind, call[c].write.key>>}
      /\ call' = [call EXCEPT ![c] = Thrown(call[c])]
  BY DEF WriteFails, Fail, To
<1>3. PICK r : r = Thrown(call[c])
  OBVIOUS
<1>4. Settled(r) /\ r \in CallType /\ Good(r) /\ \A p, g : ~Copies(r, p, g)
  BY <1>1, <1>3, Ends, SettledIsGood DEF Settled, Copies
<1>5. PICK f : f = [call EXCEPT ![c] = r]
  OBVIOUS
<1>6. call \in [Callers -> CallType] /\ TablesOK
  BY DEF DefsInv, DefsTypeOK
<1>7. f \in [Callers -> CallType] /\ call' = f /\ f[c] = r /\ \A d \in Callers \ {c} : f[d] = call[d]
  BY <1>2, <1>3, <1>4, <1>5, <1>6
<1>8. \A d \in Callers : f[d] = call[d] \/ Good(f[d])
  BY <1>4, <1>7
<1>9. \A d \in Callers : \A a \in Agents : Excuses(call[d], a) => Excuses(f[d], a) \/ <<"agent", a>> \in torn'
  <2> SUFFICES ASSUME NEW a \in Agents, Excuses(call[c], a) PROVE <<"agent", a>> \in torn'
    BY <1>7
  <2>1. call[c].write.mode = "delete" /\ call[c].write.kind = "agent" /\ call[c].write.key = a
    BY <1>1 DEF Excuses, Good, Placed, Fits, AgentWriters
  <2> QED
    BY <1>2, <2>1
<1>10. \A d \in Callers : \A k \in Kinds : \A key \in Keys[k] :
         Changes(call[d], k, key) => Changes(f[d], k, key) \/ <<k, key>> \in torn'
  BY <1>2, <1>7 DEF Changes
<1>11. \A d \in Callers : \A p \in PromptIds : \A g \in Families : Copies(f[d], p, g) => Has(p, g)
  BY <1>4, <1>7 DEF Has
<1>12. TablesOK'
  BY <1>2, <1>6 DEF TablesOK
<1>13. \A k \in Kinds : reading'[k].at = "reading" =>
         ~cache[k].known /\ \A key \in Keys[k] : reading'[k].rows[key] = db[k][key] \/ <<k, key>> \in torn'
  BY <1>2 DEF DefsInv, CacheInv, Onward
<1>14. \A p \in PromptIds : \A g \in Families : OfFamily(reading'.prompt.rows[p], g) => Has(p, g)
  BY <1>2 DEF Has
<1>15. registered' \subseteq registered
  BY <1>2
<1> QED
  BY <1>2, <1>7, <1>8, <1>9, <1>10, <1>11, <1>12, <1>13, <1>14, <1>15, CallsStep

(* A read of a cache begins or ends: what is being read is changed.         *)
LEMMA ReadingChange ==
  ASSUME TablesOK, NEW k \in Kinds, NEW at \in {"no", "reading", "broken"}, NEW rows \in Tables(k),
         NEW new, new = [at |-> at, rows |-> rows], reading' = [reading EXCEPT ![k] = new], UNCHANGED db
  PROVE  /\ reading' \in [Kinds -> [at : {"no", "reading", "broken"}, rows : AnyTable]]
         /\ \A j \in Kinds : reading'[j].rows \in Tables(j)
         /\ reading'[k].at = at /\ reading'[k].rows = rows
         /\ \A j \in Kinds \ {k} : reading'[j] = reading[j]
<1>1. /\ reading \in [Kinds -> [at : {"no", "reading", "broken"}, rows : AnyTable]]
      /\ \A j \in Kinds : reading[j].rows \in Tables(j)
  BY DEF TablesOK
<1>2. new \in [at : {"no", "reading", "broken"}, rows : AnyTable] /\ new.at = at /\ new.rows = rows
  BY TableOfKind
<1> QED
  BY <1>1, <1>2

(* A table without rows.                                                    *)
LEMMA NoRows ==
  ASSUME NEW k \in Kinds
  PROVE  [key \in Keys[k] |-> None] \in Tables(k)
BY DEF Tables

(* The read of a kind starts, or fails.                                     *)
LEMMA PopulateStep ==
  ASSUME DefsInv, Onward, NEW k \in Kinds, Populate(k) \/ PopulateFails(k)
  PROVE  DefsInv'
<1>0. TablesOK /\ call \in [Callers -> CallType] /\ \A d \in Callers : Good(call[d])
  BY DefsInvIs DEF TablesInv
<1>1. /\ UNCHANGED <<db, cache, mapping, template, lastId>> /\ registered' \subseteq registered
      /\ torn' = torn
  BY DEF Populate, PopulateFails
<1>2. \E at \in {"no", "reading", "broken"}, rows \in Tables(k) :
        /\ reading' = [reading EXCEPT ![k] = [at |-> at, rows |-> rows]]
        /\ at = "reading" => rows = db[k] /\ ~cache[k].known
        /\ \A key \in Keys[k] : rows[key] \in {db[k][key], None}
  <2>1. CASE Populate(k)
    BY <1>0, <2>1 DEF Populate, TablesOK
  <2>2. CASE PopulateFails(k)
    <3>1. PICK rows : rows = [key \in Keys[k] |-> None]
      OBVIOUS
    <3>2. rows \in Tables(k) /\ \A key \in Keys[k] : rows[key] = None
      BY <3>1, NoRows
    <3>3. PICK at \in {"no", "broken"} : at = IF k = "mcp" THEN "no" ELSE "broken"
      OBVIOUS
    <3>4. reading' = [reading EXCEPT ![k] = [at |-> at, rows |-> rows]]
      BY <2>2, <3>1, <3>3 DEF PopulateFails
    <3> QED
      BY <3>2, <3>4
  <2> QED
    BY <2>1, <2>2
<1>3. PICK at \in {"no", "reading", "broken"}, rows \in Tables(k) :
        /\ reading' = [reading EXCEPT ![k] = [at |-> at, rows |-> rows]]
        /\ at = "reading" => rows = db[k] /\ ~cache[k].known
        /\ \A key \in Keys[k] : rows[key] \in {db[k][key], None}
  BY <1>2
<1>4. /\ reading' \in [Kinds -> [at : {"no", "reading", "broken"}, rows : AnyTable]]
      /\ \A j \in Kinds : reading'[j].rows \in Tables(j)
      /\ reading'[k].at = at /\ reading'[k].rows = rows
      /\ \A j \in Kinds \ {k} : reading'[j] = reading[j]
  <2>1. PICK new : new = [at |-> at, rows |-> rows]
    OBVIOUS
  <2>2. reading' = [reading EXCEPT ![k] = new]
    BY <1>3, <2>1
  <2> QED
    BY <1>0, <1>1, <2>1, <2>2, ReadingChange
<1>5. TablesOK'
  BY <1>0, <1>1, <1>4 DEF TablesOK
<1>6. \A j \in Kinds : reading'[j].at = "reading" =>
        ~cache[j].known /\ \A key \in Keys[j] : reading'[j].rows[key] = db[j][key] \/ <<j, key>> \in torn'
  BY <1>1, <1>3, <1>4 DEF DefsInv, CacheInv
<1>7. \A p \in PromptIds : \A g \in Families : OfFamily(reading'.prompt.rows[p], g) => Has(p, g)
  <2> SUFFICES ASSUME NEW p \in PromptIds, NEW g \in Families, OfFamily(reading'.prompt.rows[p], g) PROVE Has(p, g)
    OBVIOUS
  <2>1. reading'.prompt = reading'["prompt"] /\ reading.prompt = reading["prompt"] /\ db.prompt = db["prompt"]
    BY <1>0, <1>5, TablesAre
  <2>2. CASE k = "prompt"
    <3>1. reading'.prompt.rows[p] \in {db.prompt[p], None}
      BY <1>3, <1>4, <2>1, <2>2, FourKeys
    <3> QED
      BY <3>1 DEF OfFamily, Has
  <2>3. CASE k # "prompt"
    <3>1. reading'.prompt = reading.prompt
      BY <1>4, <2>1, <2>3, FourKeys
    <3> QED
      BY <3>1 DEF Has
  <2> QED
    BY <2>2, <2>3
<1>8. PICK f : f = [d \in Callers |-> IF PopulateFails(k) /\ d \in Waiting(k) THEN Thrown(call[d]) ELSE call[d]]
  OBVIOUS
<1>9. call' = f
  <2>1. CASE PopulateFails(k)
    BY <1>8, <2>1 DEF PopulateFails
  <2>2. CASE Populate(k) /\ ~PopulateFails(k)
    BY <1>0, <1>8, <2>2 DEF Populate
  <2> QED
    BY <2>1, <2>2
<1>10. \A d \in Callers : f[d] = call[d] \/ (d \in Waiting(k) /\ f[d] = Thrown(call[d]))
  BY <1>8
<1>11. f = [d \in Callers |-> f[d]]
  BY <1>8
<1>12. \A d \in Callers : f[d] = call[d] \/ Settled(f[d])
  BY <1>0, <1>10, Ends
<1>13. \A d \in Waiting(k) : call[d].at \in {"begin", "refer"}
  BY DEF Waiting, Needs
<1>14. f \in [Callers -> CallType]
  BY <1>0, <1>11, <1>12 DEF Settled
<1>15. \A d \in Callers : f[d] = call[d] \/ Good(f[d])
  BY <1>12, SettledIsGood
<1>16. \A d \in Callers : \A a \in Agents : Excuses(call[d], a) => Excuses(f[d], a) \/ <<"agent", a>> \in torn'
  BY <1>10, <1>13 DEF Excuses
<1>17. \A d \in Callers : \A j \in Kinds : \A key \in Keys[j] :
         Changes(call[d], j, key) => Changes(f[d], j, key) \/ <<j, key>> \in torn'
  BY <1>10, <1>13 DEF Changes
<1>18. \A d \in Callers : \A p \in PromptIds : \A g \in Families : Copies(f[d], p, g) => Has(p, g)
  BY <1>12 DEF Has, Copies, Settled
<1> QED
  BY <1>1, <1>5, <1>6, <1>7, <1>9, <1>14, <1>15, <1>16, <1>17, <1>18, CallsStep

(* What was read becomes the cache.                                         *)
LEMMA PopulatedStep ==
  ASSUME DefsInv, Onward, NEW k \in Kinds, Populated(k)
  PROVE  DefsInv'
<1>0. TablesInv /\ TablesOK /\ call \in [Callers -> CallType] /\ \A d \in Callers : Good(call[d])
  BY DefsInvIs DEF TablesInv
<1>1. reading[k].at = "reading" /\ UNCHANGED <<db, mapping, template, registered, call, lastId, torn>>
  BY DEF Populated
<1>2. PICK new : new = [known |-> TRUE, rows |-> reading[k].rows]
  OBVIOUS
<1>3. PICK none : none = [key \in Keys[k] |-> None]
  OBVIOUS
<1>4. PICK no : no = [at |-> "no", rows |-> none]
  OBVIOUS
<1>5. cache' = [cache EXCEPT ![k] = new] /\ reading' = [reading EXCEPT ![k] = no]
  BY <1>2, <1>3, <1>4 DEF Populated
<1>6. none \in Tables(k) /\ \A key \in Keys[k] : none[key] = None
  BY <1>3, NoRows
<1>7. /\ reading' \in [Kinds -> [at : {"no", "reading", "broken"}, rows : AnyTable]]
      /\ \A j \in Kinds : reading'[j].rows \in Tables(j)
      /\ reading'[k].at = "no" /\ reading'[k].rows = none
      /\ \A j \in Kinds \ {k} : reading'[j] = reading[j]
  BY <1>0, <1>1, <1>4, <1>5, <1>6, ReadingChange
<1>8. new \in [known : BOOLEAN, rows : AnyTable] /\ new.known = TRUE /\ new.rows = reading[k].rows
  BY <1>0, <1>2, TableOfKind DEF TablesOK
<1>9. /\ cache' \in [Kinds -> [known : BOOLEAN, rows : AnyTable]]
      /\ cache'[k] = new /\ \A j \in Kinds \ {k} : cache'[j] = cache[j]
  BY <1>0, <1>5, <1>8 DEF TablesOK
<1>10. TablesOK'
  BY <1>0, <1>1, <1>7, <1>8, <1>9 DEF TablesOK
<1>11. ~cache[k].known /\ \A key \in Keys[k] : reading[k].rows[key] = db[k][key] \/ <<k, key>> \in torn
  BY <1>0, <1>1 DEF TablesInv, CacheInv
<1>12. \A j, key : Changing(j, key)' = Changing(j, key)
  BY <1>1 DEF Changing
<1>13. CacheInv'
  <2> SUFFICES ASSUME NEW j \in Kinds
               PROVE  /\ reading'[j].at = "reading" => ~cache'[j].known
                      /\ \A key \in Keys[j] :
                           /\ reading'[j].at = "reading" => reading'[j].rows[key] = db'[j][key] \/ <<j, key>> \in torn'
                           /\ cache'[j].known => \/ cache'[j].rows[key] = db'[j][key]
                                                 \/ <<j, key>> \in torn'
                                                 \/ Changing(j, key)' /\ cache'[j].rows[key] # None
    BY DEF CacheInv
  <2>1. CASE j = k
    BY <1>1, <1>7, <1>8, <1>9, <1>11, <2>1
  <2>2. CASE j # k
    BY <1>0, <1>1, <1>7, <1>9, <1>12, <2>2 DEF TablesInv, CacheInv
  <2> QED
    BY <2>1, <2>2
<1>14. /\ cache.prompt = cache["prompt"] /\ cache'.prompt = cache'["prompt"]
       /\ reading.prompt = reading["prompt"] /\ reading'.prompt = reading'["prompt"]
  BY <1>0, <1>10, TablesAre
<1>15. \A p \in PromptIds : \A f : /\ OfFamily(cache'.prompt.rows[p], f) =>
                                        OfFamily(cache.prompt.rows[p], f) \/ OfFamily(reading.prompt.rows[p], f)
                                   /\ OfFamily(reading'.prompt.rows[p], f) => OfFamily(reading.prompt.rows[p], f)
  <2>1. CASE k = "prompt"
    BY <1>6, <1>7, <1>8, <1>9, <1>14, <2>1, FourKeys DEF OfFamily
  <2>2. CASE k # "prompt"
    BY <1>7, <1>9, <1>14, <2>2, FourKeys
  <2> QED
    BY <2>1, <2>2
<1>16. \A p \in PromptIds : \A f \in Families : Has(p, f)' => Has(p, f)
  <2> SUFFICES ASSUME NEW p \in PromptIds, NEW f \in Families, Has(p, f)' PROVE Has(p, f)
    OBVIOUS
  <2>1. CASE OfFamily(db'.prompt[p], f) \/ OfFamily(cache'.prompt.rows[p], f) \/ OfFamily(reading'.prompt.rows[p], f)
    BY <1>1, <1>15, <2>1 DEF Has
  <2>2. CASE \E d \in Callers : Copies(call'[d], p, f)
    BY <1>1, <2>2 DEF Has
  <2> QED
    BY <2>1, <2>2 DEF Has
<1>17. CopiesInv'
  BY <1>0, <1>1, <1>16, CopiesFrame DEF TablesInv
<1>18. \A f : ActiveOf(f)' = ActiveOf(f)
  BY <1>1 DEF ActiveOf
<1>19. OneInv'
  BY <1>0, <1>18, OneFrame DEF TablesInv
<1>20. AgentInv'
  BY <1>0, <1>1 DEF TablesInv, AgentInv
<1>21. \A s \in registered' : Offers(s)'
  BY <1>0, <1>1, OffersFrame DEF TablesInv
<1>22. Unwritten' => Unwritten
  BY <1>1, <1>12 DEF Unwritten
<1>23. Unwritten' => \A a \in Agents : Current(a)'
  BY <1>0, <1>1, <1>18, <1>22 DEF TablesInv, Current
<1>24. TablesInv'
  BY <1>0, <1>1, <1>10, <1>13, <1>17, <1>19, <1>20, <1>21, <1>23 DEF TablesInv, SuitsInv, Onward
<1>25. cache.prompt.known => k # "prompt" /\ cache'.prompt = cache.prompt
  BY <1>9, <1>11, <1>14, FourKeys
<1>26. ASSUME NEW d \in Callers PROVE Good(call[d])'
  <2>1. PICK q : q = call[d]
    OBVIOUS
  <2>2. Good(q)
    BY <1>0, <2>1
  <2>3. Informed(q)'
    BY <1>1, <1>25, <2>2 DEF Good, Informed
  <2>4. Tools(q)'
    BY <1>1, <2>2, ToolsFrame DEF Good
  <2>5. Unwritten' => Found(q)'
    BY <1>1, <1>18, <1>22, <2>2 DEF Good, Found
  <2>6. cache.prompt.known => Touched(q)' = Touched(q)
    BY <1>1, <1>14, <1>25 DEF Touched, Rows
  <2>7. q.at \in {"marking", "write"} /\ q.req.do \in {"revise", "updatePrompt", "markActive"} => cache.prompt.known
    BY <2>2 DEF Good, Informed
  <2>8. Marker(q)'
    <3>1. CASE q.at \in {"marking", "write"} /\ q.req.do = "markActive"
      <4>1. q.rest \subseteq PromptIds /\ q.req.key \in PromptIds
        BY <2>2, <3>1, DefinitionsAssumption DEF Good, Informed, CallType, Placed, WellFormed
      <4> QED
        BY <1>16, <1>18, <2>2, <2>6, <2>7, <3>1, <4>1, MarkerFrame DEF Good
    <3> QED
      BY <3>1 DEF Marker
  <2>9. Writer(q)'
    <3>1. CASE cache.prompt.known
      BY <1>18, <2>2, <2>6, <3>1, WriterFrame DEF Good
    <3>2. CASE q.at = "write" /\ q.write.kind = "prompt" /\ q.write.row # None /\ ~cache.prompt.known
      <4>1. q.req.do = "createPrompt"
        BY <2>2, <2>7, <3>2 DEF Good, Placed, Fits, PromptWriters
      <4>2. Touched(q)' = Touched(q)
        BY <4>1 DEF Touched
      <4> QED
        BY <1>18, <2>2, <4>2, WriterFrame DEF Good
    <3> QED
      BY <3>1, <3>2 DEF Writer
  <2>10. Good(q)'
    BY <2>2, <2>3, <2>4, <2>5, <2>8, <2>9 DEF Good
  <2>11. call'[d] = q
    BY <1>1, <2>1
  <2> QED
    BY <2>10, <2>11
<1>27. call' \in [Callers -> CallType]
  BY <1>0, <1>1
<1> QED
  BY <1>24, <1>26, <1>27, DefsInvNext

(* A restart leaves the database, and no request under way.                 *)
LEMMA RestartStep ==
  ASSUME DefsInv, Onward, Restart
  PROVE  DefsInv'
<1>0. TablesInv /\ TablesOK /\ call \in [Callers -> CallType] /\ \A d \in Callers : Good(call[d])
  BY DefsInvIs DEF TablesInv
<1>1. /\ UNCHANGED <<db, mapping, lastId>> /\ registered' = {}
      /\ template' = [a \in Agents |-> Blank]
      /\ cache' = [k \in Kinds |-> [known |-> FALSE, rows |-> [key \in Keys[k] |-> None]]]
      /\ reading' = [k \in Kinds |-> [at |-> "no", rows |-> [key \in Keys[k] |-> None]]]
      /\ call' = [c \in Callers |-> IF call[c].at \in {"idle", "end"} THEN call[c] ELSE Thrown(call[c])]
      /\ torn' = torn \cup {<<"agent", Req(c).key>> :
                              c \in {d \in Callers : /\ call[d].at \in {"map", "write"}
                                                     /\ Req(d).do \in {"createAgent", "deleteAgent"}}}
  BY DEF Restart
<1>2. TablesOK' /\ \A k \in Kinds : /\ ~cache'[k].known /\ reading'[k].at = "no"
                                    /\ \A key \in Keys[k] : cache'[k].rows[key] = None /\ reading'[k].rows[key] = None
  <2>1. PICK none : none = [k \in Kinds |-> [key \in Keys[k] |-> None]]
    OBVIOUS
  <2>2. \A k \in Kinds : none[k] \in Tables(k) /\ none[k] \in AnyTable /\ \A key \in Keys[k] : none[k][key] = None
    BY <2>1, NoRows, TableOfKind
  <2>3. \A k \in Kinds : none[k] = [key \in Keys[k] |-> None]
    BY <2>1
  <2>4. /\ cache' = [k \in Kinds |-> [known |-> FALSE, rows |-> none[k]]]
        /\ reading' = [k \in Kinds |-> [at |-> "no", rows |-> none[k]]]
    BY <1>1, <2>3
  <2>5. /\ cache' \in [Kinds -> [known : BOOLEAN, rows : AnyTable]]
        /\ \A k \in Kinds : cache'[k].known = FALSE /\ cache'[k].rows = none[k]
    BY <2>2, <2>4
  <2>6. /\ reading' \in [Kinds -> [at : {"no", "reading", "broken"}, rows : AnyTable]]
        /\ \A k \in Kinds : reading'[k].at = "no" /\ reading'[k].rows = none[k]
    BY <2>2, <2>4
  <2>7. db' \in [Kinds -> AnyTable] /\ \A k \in Kinds : db'[k] \in Tables(k)
    BY <1>0, <1>1 DEF TablesOK
  <2>8. TablesOK'
    BY <2>2, <2>5, <2>6, <2>7 DEF TablesOK
  <2> QED
    BY <2>2, <2>5, <2>6, <2>8
<1>3. CacheInv'
  BY <1>2 DEF CacheInv
<1>4. \A c \in Callers : /\ call[c].at \in {"idle", "end"} => call'[c] = call[c]
                         /\ call[c].at \notin {"idle", "end"} => Settled(call'[c])
  BY <1>0, <1>1, Ends
<1>5. PICK f : f = call'
  OBVIOUS
<1>6. f \in [Callers -> CallType]
  <2>1. call' = [c \in Callers |-> call'[c]]
    BY <1>1
  <2> QED
    BY <1>0, <1>4, <1>5, <2>1 DEF Settled
<1>7. \A c \in Callers : Placed(f[c]) /\ f[c].at \in {"idle", "end", "begin"}
  BY <1>0, <1>4, <1>5, SettledIsGood DEF Settled, Good
<1>8. ASSUME NEW c \in Callers PROVE Good(call[c])'
  <2>1. PICK q : q = f[c]
    OBVIOUS
  <2>2. q \in CallType /\ Placed(q) /\ q.at \in {"idle", "end", "begin"}
    BY <1>6, <1>7, <2>1
  <2>3. Good(q)'
    BY <2>2 DEF Good, Informed, Tools, Writer, Marker, Found
  <2> QED
    BY <1>5, <2>1, <2>3
<1>9. \A p \in PromptIds : \A g \in Families : Has(p, g)' => Has(p, g)
  <2> SUFFICES ASSUME NEW p \in PromptIds, NEW g \in Families, Has(p, g)' PROVE Has(p, g)
    OBVIOUS
  <2>1. cache'.prompt.rows[p] = None /\ reading'.prompt.rows[p] = None
    BY <1>2, FourKeys, TablesAre
  <2>2. \A d \in Callers : ~Copies(call'[d], p, g)
    BY <1>5, <1>7 DEF Copies
  <2> QED
    BY <1>1, <2>1, <2>2 DEF Has, OfFamily
<1>10. CopiesInv'
  BY <1>0, <1>1, <1>9, CopiesFrame DEF TablesInv
<1>11. \A g : ActiveOf(g)' = ActiveOf(g)
  BY <1>1 DEF ActiveOf
<1>12. OneInv'
  BY <1>0, <1>11, OneFrame DEF TablesInv
<1>13. AgentInv'
  <2> SUFFICES ASSUME NEW a \in Agents, db'.agent[a] # None, mapping'[a] = None PROVE <<"agent", a>> \in torn'
    BY DEF AgentInv
  <2>1. CASE <<"agent", a>> \in torn
    BY <2>1 DEF Onward
  <2>2. CASE \E c \in Callers : Excuses(call[c], a)
    BY <1>1, <2>2 DEF Excuses, Req
  <2> QED
    BY <1>0, <1>1, <2>1, <2>2 DEF TablesInv, AgentInv
<1>14. \A a \in Agents : Current(a)'
  BY <1>1 DEF Current, Blank
<1>15. template' \in [Agents -> [known : BOOLEAN, text : Phrases, stale : BOOLEAN]]
  <2>1. Blank \in [known : BOOLEAN, text : Phrases, stale : BOOLEAN]
    BY DEF Blank, Phrases
  <2> QED
    BY <1>1, <2>1
<1>16. TablesInv'
  BY <1>0, <1>1, <1>2, <1>3, <1>10, <1>12, <1>13, <1>14, <1>15 DEF TablesInv, SuitsInv, Onward
<1> QED
  BY <1>5, <1>6, <1>8, <1>16, DefsInvNext

-----------------------------------------------------------------------------
(* Writes that the database takes                                           *)

IsNew(w) == w.mode = "create" /\ w.kind = "prompt"

(* What a write does to the rows: the one of the key, of the kind that is   *)
(* written, becomes row in the database and in a cache that is populated.   *)
Puts(c, k, key, row) ==
  LET w == call[c].write
  IN  /\ call[c].at = "write" /\ w \in Writes /\ k = w.kind /\ k \in Kinds /\ key \in Keys[k]
      /\ row \in RowOf[k] \cup {None} /\ (row = None <=> w.row = None)
      /\ k = "prompt" /\ row # None => row.family = w.row.family /\ row.active = w.row.active /\ row.suits
      /\ k # "prompt" => row = w.row
      /\ IsNew(w) => key = lastId + 1 /\ lastId' = key /\ w.key = 0
      /\ ~IsNew(w) => key = w.key /\ lastId' = lastId
      /\ lastId' \in 0 .. MaxPrompts
      /\ TablesOK' /\ UNCHANGED reading
      /\ \A j \in Kinds : \A x \in Keys[j] : db'[j][x] = IF j = k /\ x = key THEN row ELSE db[j][x]
      /\ \A j \in Kinds : cache'[j].known = cache[j].known
      /\ \A j \in Kinds : \A x \in Keys[j] :
           cache'[j].rows[x] = IF cache[k].known /\ j = k /\ x = key THEN row ELSE cache[j].rows[x]
      /\ reading[k].at = "reading" => <<k, key>> \in torn'

(* what becomes of the mapping                                              *)
MappingAfter(k, key, row) == IF k = "agent" /\ row = None THEN [mapping EXCEPT ![key] = None] ELSE mapping

(* That is what a write that the database takes does.                       *)
LEMMA WrittenPuts ==
  ASSUME DefsInv, NEW c \in Callers, Written(c)
  PROVE  \E k, key, row :
           /\ Puts(c, k, key, row)
           /\ mapping' = MappingAfter(k, key, row)
           /\ template' = TemplatesAfter(call[c].write, key)
           /\ registered' = ToolsAfter(call[c].write, key)
           /\ call' = [d \in Callers |->
                         IF d = c THEN AfterWrite(call[c], key)
                         ELSE IF k = "prompt" /\ call[d].at = "naming" THEN [call[d] EXCEPT !.raced = TRUE]
                         ELSE call[d]]
<1>0. PICK w : w = call[c].write
  OBVIOUS
<1>1. PICK k : k = w.kind
  OBVIOUS
<1>2. PICK key : key = IF IsNew(w) THEN lastId + 1 ELSE w.key
  OBVIOUS
<1>3. PICK row : row = Kept(w)
  OBVIOUS
<1>4. /\ call[c].at = "write" /\ key \in Keys[k]
      /\ lastId' = IF IsNew(w) THEN key ELSE lastId
      /\ db' = [db EXCEPT ![k][key] = row]
      /\ cache' = CacheAfter(w, key)
      /\ torn' = IF reading[k].at = "reading" THEN torn \cup {<<k, key>>} ELSE torn
      /\ mapping' = IF k = "agent" /\ w.row = None THEN [mapping EXCEPT ![key] = None] ELSE mapping
      /\ template' = TemplatesAfter(w, key)
      /\ registered' = ToolsAfter(w, key)
      /\ call' = [d \in Callers |->
                    IF d = c THEN AfterWrite(call[c], key)
                    ELSE IF k = "prompt" /\ call[d].at = "naming" THEN [call[d] EXCEPT !.raced = TRUE]
                    ELSE call[d]]
      /\ UNCHANGED <<reading, faults>>
  BY <1>0, <1>1, <1>2, <1>3 DEF Written, IsNew
<1>5. Good(call[c]) /\ call[c].req \in Requests
  BY <1>4, RequestsAre
<1>6. w \in Writes /\ Fits(call[c].req, w)
  BY <1>0, <1>4, <1>5 DEF Good, Placed
<1>7. k \in Kinds /\ w.row \in RowOf[k] \cup {None}
  BY <1>1, <1>6, WritesAre
<1>8. /\ row \in RowOf[k] \cup {None} /\ (row = None <=> w.row = None)
      /\ k = "prompt" /\ row # None => row.family = w.row.family /\ row.active = w.row.active /\ row.suits
      /\ k # "prompt" => row = w.row
  <2>1. CASE k = "prompt" /\ w.row # None
    <3>1. row = [w.row EXCEPT !.suits = TRUE] /\ w.row \in PromptRows
      BY <1>1, <1>3, <1>7, <2>1, FourKinds DEF Kept
    <3>2. row \in PromptRows /\ row.family = w.row.family /\ row.active = w.row.active /\ row.suits
      BY <3>1 DEF PromptRows
    <3> QED
      BY <2>1, <3>2, FourKinds
  <2>2. CASE ~(k = "prompt" /\ w.row # None)
    <3>1. row = w.row
      BY <1>1, <1>3, <2>2 DEF Kept
    <3> QED
      BY <1>7, <2>2, <3>1
  <2> QED
    BY <2>1, <2>2
<1>9. TablesOK /\ lastId \in 0 .. MaxPrompts
  BY DEF DefsInv, DefsTypeOK
<1>10. IsNew(w) => w.key = 0 /\ key = lastId + 1 /\ key \in PromptIds
  BY <1>1, <1>2, <1>4, <1>6, FourKeys DEF IsNew, Fits, PromptWriters
<1>11. lastId' \in 0 .. MaxPrompts
  BY <1>4, <1>9, <1>10, DefinitionsAssumption DEF PromptIds
<1>12. /\ db' \in [Kinds -> AnyTable]
       /\ \A j \in Kinds : db'[j] \in Tables(j)
       /\ \A j \in Kinds : \A x \in Keys[j] : db'[j][x] = IF j = k /\ x = key THEN row ELSE db[j][x]
  <2>1. InTable(k, key, row)
    BY <1>4 DEF InTable
  <2> QED
    BY <1>4, <1>7, <1>8, <1>9, <2>1, DbChange
<1>13. PICK d : d = IF cache[k].known THEN [cache EXCEPT ![k].rows[key] = row] ELSE cache
  OBVIOUS
<1>14. cache' = d
  BY <1>1, <1>3, <1>4, <1>13 DEF CacheAfter
<1>15. /\ cache' \in [Kinds -> [known : BOOLEAN, rows : AnyTable]]
       /\ \A j \in Kinds : cache'[j].rows \in Tables(j)
       /\ \A j \in Kinds : cache'[j].known = cache[j].known
       /\ \A j \in Kinds : \A x \in Keys[j] :
           cache'[j].rows[x] = IF cache[k].known /\ j = k /\ x = key THEN row ELSE cache[j].rows[x]
  <2>1. CASE cache[k].known
    <3>1. ChangeInPlace(k, key, row)
      BY <1>13, <1>14, <2>1 DEF ChangeInPlace
    <3> QED
      BY <1>4, <1>7, <1>8, <1>9, <2>1, <3>1, CacheRows
  <2>2. CASE ~cache[k].known
    <3>1. cache' = cache
      BY <1>13, <1>14, <2>2
    <3> QED
      BY <1>9, <2>2, <3>1 DEF TablesOK
  <2> QED
    BY <2>1, <2>2
<1>16. TablesOK'
  BY <1>4, <1>9, <1>12, <1>15 DEF TablesOK
<1>17. Puts(c, k, key, row)
  BY <1>0, <1>1, <1>2, <1>4, <1>6, <1>7, <1>8, <1>10, <1>11, <1>12, <1>15, <1>16 DEF Puts
<1>18. mapping' = MappingAfter(k, key, row)
  BY <1>4, <1>8 DEF MappingAfter
<1> QED
  BY <1>0, <1>4, <1>17, <1>18

(* Where a request goes when its write is done.                             *)
LEMMA AfterWriteIs ==
  ASSUME DefsInv, NEW c \in Callers, call[c].at = "write", NEW key, NEW r, r = AfterWrite(call[c], key)
  PROVE  /\ r \in CallType
         /\ \/ Settled(r)
            \/ /\ r.req = call[c].req /\ r.rest = call[c].rest /\ r.was = call[c].was
               /\ \/ r.at = "marking" /\ r.req.do = "markActive" /\ key # r.req.key
                  \/ r.at = "map" /\ r.req.do = "createAgent"
                  \/ r.at = "refer" /\ r.req.do = "updateAgent" /\ r.req.family # None
         /\ call[c].req.do = "createAgent" /\ call[c].write.mode = "create" => r.at = "map"
<1>1. call[c] \in CallType
  BY RequestsAre
<1>2. PICK q : q = call[c]
  OBVIOUS
<1>3. q \in CallType /\ Settled(Done(q)) /\ Settled(Thrown(q))
  BY <1>1, <1>2, Ends
<1>4. \A at \in {"marking", "map", "refer"} :
        LET s == [q EXCEPT !.at = at, !.write = None]
        IN  s \in CallType /\ s.at = at /\ s.req = q.req /\ s.rest = q.rest /\ s.was = q.was
  BY <1>3 DEF CallType, Places
<1>5. CASE q.req.do = "markActive" /\ key # q.req.key
  <2>1. r = [q EXCEPT !.at = "marking", !.write = None]
    BY <1>2, <1>5 DEF AfterWrite
  <2> QED
    BY <1>2, <1>4, <1>5, <2>1
<1>6. CASE q.req.do = "createAgent" /\ q.write.mode = "create"
  <2>1. r = [q EXCEPT !.at = "map", !.write = None]
    BY <1>2, <1>6 DEF AfterWrite
  <2> QED
    BY <1>2, <1>4, <1>6, <2>1
<1>7. CASE q.req.do = "updateAgent" /\ q.req.family # None
  <2>1. r = [q EXCEPT !.at = "refer", !.write = None]
    BY <1>2, <1>7 DEF AfterWrite
  <2> QED
    BY <1>2, <1>4, <1>7, <2>1
<1>8. CASE q.req.do = "createAgent" /\ q.write.mode # "create"
  <2>1. r = Thrown(q)
    BY <1>2, <1>8 DEF AfterWrite
  <2> QED
    BY <1>2, <1>3, <1>8, <2>1 DEF Settled
<1>9. CASE /\ ~(q.req.do = "markActive" /\ key # q.req.key) /\ q.req.do # "createAgent"
           /\ ~(q.req.do = "updateAgent" /\ q.req.family # None)
  <2>1. r = Done(q)
    BY <1>2, <1>9 DEF AfterWrite
  <2> QED
    BY <1>2, <1>3, <1>9, <2>1 DEF Settled
<1> QED
  BY <1>5, <1>6, <1>7, <1>8, <1>9

(* What the callers are after a write: the writer r, the others as they     *)
(* were or overtaken.                                                       *)
After(c, k, r) ==
  /\ call' \in [Callers -> CallType] /\ call'[c] = r
  /\ \A d \in Callers \ {c} : \/ call'[d] = call[d] /\ (call[d].at = "naming" => k # "prompt")
                              \/ call[d].at = "naming" /\ call'[d] = [call[d] EXCEPT !.raced = TRUE]

(* A copy of a row is one there was before, or that of a new prompt.        *)
LEMMA PutsCopies ==
  ASSUME DefsInv, NEW c \in Callers, NEW k, NEW key, NEW row, Puts(c, k, key, row), NEW r, After(c, k, r), r.at # "write",
         NEW p \in PromptIds, NEW f \in Families, Has(p, f)'
  PROVE  Has(p, f) \/ (IsNew(call[c].write) /\ p = key /\ row # None /\ f = row.family /\ p = lastId + 1 /\ lastId' = p)
<1>1. TablesOK /\ TablesOK' /\ UNCHANGED reading
  BY DEF DefsInv, DefsTypeOK, Puts
<1>2. /\ db.prompt = db["prompt"] /\ cache.prompt = cache["prompt"]
      /\ db'.prompt = db'["prompt"] /\ cache'.prompt = cache'["prompt"]
  BY <1>1, TablesAre
<1>3. /\ db'.prompt[p] = IF k = "prompt" /\ p = key THEN row ELSE db.prompt[p]
      /\ cache'.prompt.rows[p] = IF cache[k].known /\ k = "prompt" /\ p = key THEN row ELSE cache.prompt.rows[p]
  BY <1>2, FourKeys DEF Puts
<1>4. CASE \E d \in Callers : Copies(call'[d], p, f)
  <2>1. PICK d \in Callers : Copies(call'[d], p, f)
    BY <1>4
  <2>2. CASE d = c
    BY <2>1, <2>2 DEF After, Copies
  <2>3. CASE d # c /\ call'[d] = call[d]
    BY <2>1, <2>3 DEF Has
  <2>4. CASE d # c /\ call[d].at = "naming" /\ call'[d] = [call[d] EXCEPT !.raced = TRUE]
    <3>1. call[d] \in CallType
      BY RequestsAre
    <3>2. call'[d].at = "naming"
      BY <2>4, <3>1 DEF CallType
    <3> QED
      BY <2>1, <3>2 DEF Copies
  <2> QED
    BY <2>2, <2>3, <2>4 DEF After
<1>5. CASE OfFamily(reading'.prompt.rows[p], f)
  BY <1>1, <1>5 DEF Has
<1>6. CASE OfFamily(db.prompt[p], f) \/ OfFamily(cache.prompt.rows[p], f)
  BY <1>6 DEF Has
<1>7. CASE k = "prompt" /\ p = key /\ OfFamily(row, f)
  <2>1. call[c].at = "write" /\ call[c].write.kind = "prompt" /\ OfFamily(call[c].write.row, f)
    BY <1>7 DEF Puts, OfFamily
  <2>2. CASE IsNew(call[c].write)
    BY <1>7, <2>2 DEF Puts, OfFamily
  <2>3. CASE ~IsNew(call[c].write)
    BY <1>7, <2>1, <2>3 DEF Puts, Has, Copies
  <2> QED
    BY <2>2, <2>3
<1> QED
  BY <1>3, <1>4, <1>5, <1>6, <1>7 DEF Has

(* What is active after a write was so before, or is what was written.      *)
LEMMA PutsActive ==
  ASSUME DefsInv, NEW c \in Callers, NEW k, NEW key, NEW row, Puts(c, k, key, row), NEW f, NEW p \in ActiveOf(f)'
  PROVE  /\ k # "prompt" \/ p # key => p \in ActiveOf(f)
         /\ k = "prompt" /\ p = key => row # None /\ row.family = f /\ row.active
<1>1. TablesOK /\ TablesOK'
  BY DEF DefsInv, DefsTypeOK, Puts
<1>2. db.prompt = db["prompt"] /\ db'.prompt = db'["prompt"]
  BY <1>1, TablesAre
<1>3. p \in PromptIds /\ db'.prompt[p] # None /\ db'.prompt[p].family = f /\ db'.prompt[p].active
  BY DEF ActiveOf
<1>4. db'.prompt[p] = IF k = "prompt" /\ p = key THEN row ELSE db.prompt[p]
  BY <1>2, <1>3, FourKeys DEF Puts
<1> QED
  BY <1>3, <1>4 DEF ActiveOf

(* A prompt that is written active is alone in its family, as long as the   *)
(* family is calm; other families stay as they were, or lose a prompt.      *)
LEMMA PutsAlone ==
  ASSUME DefsInv, Onward, NEW c \in Callers, NEW k, NEW key, NEW row, Puts(c, k, key, row), NEW f \in Families, Calm(f)'
  PROVE  \/ ActiveOf(f)' \subseteq ActiveOf(f)
         \/ f \in Touched(call[c]) /\ ActiveOf(f)' \subseteq {key}
<1>1. CASE k = "prompt" /\ row # None /\ row.family = f /\ row.active
  <2>1. /\ call[c].at = "write" /\ call[c].write.kind = "prompt" /\ call[c].write.row # None
        /\ call[c].write.row.family = f /\ call[c].write.row.active
    BY <1>1 DEF Puts
  <2>2. Writer(call[c]) /\ Calm(f)
    BY RequestsAre, CalmBefore DEF Good
  <2>3. f \in Touched(call[c]) /\ ActiveOf(f) \subseteq {call[c].write.key}
    BY <2>1, <2>2 DEF Writer, Calm
  <2>4. ActiveOf(f) \subseteq {key}
    <3>1. CASE IsNew(call[c].write)
      BY <2>3, <3>1, DefinitionsAssumption DEF Puts, ActiveOf, PromptIds
    <3>2. CASE ~IsNew(call[c].write)
      BY <2>3, <3>2 DEF Puts
    <3> QED
      BY <3>1, <3>2
  <2> QED
    BY <2>3, <2>4, PutsActive
<1>2. CASE ~(k = "prompt" /\ row # None /\ row.family = f /\ row.active)
  BY <1>2, PutsActive
<1> QED
  BY <1>1, <1>2

(* What a request is at work on stays, or is the removed prompt's family.   *)
LEMMA PutsTouched ==
  ASSUME DefsInv, NEW c \in Callers, NEW k, NEW key, NEW row, Puts(c, k, key, row),
         NEW q, q.at \notin {"idle", "end"} => WellFormed(q.req), NEW f \in Touched(q)
  PROVE  f \in Touched(q)' \/ (k = "prompt" /\ row = None /\ f \in Touched(call[c]))
<1>1. TablesOK /\ TablesOK' /\ CopiesInv
  BY DEF DefsInv, DefsTypeOK, Puts
<1>2. /\ db.prompt = db["prompt"] /\ cache.prompt = cache["prompt"]
      /\ db'.prompt = db'["prompt"] /\ cache'.prompt = cache'["prompt"]
  BY <1>1, TablesAre
<1>3. Rows("prompt") = cache.prompt.rows /\ Rows("prompt")' = cache'.prompt.rows
  BY <1>2 DEF Rows
<1>4. \A p \in PromptIds :
        /\ db'.prompt[p] = IF k = "prompt" /\ p = key THEN row ELSE db.prompt[p]
        /\ cache'.prompt.rows[p] = IF cache[k].known /\ k = "prompt" /\ p = key THEN row ELSE cache.prompt.rows[p]
  BY <1>2, FourKeys DEF Puts
<1>5. SUFFICES ASSUME q.at \notin {"idle", "end"}, q.req.do \in {"revise", "updatePrompt", "markActive", "deletePrompt"},
                      q.at # "naming"
               PROVE  f \in Touched(q)' \/ (k = "prompt" /\ row = None /\ f \in Touched(call[c]))
  BY DEF Touched
<1>6. PICK p \in PromptIds : p = q.req.key
  BY <1>5 DEF WellFormed
<1>7. Touched(q) = {x.family : x \in {db.prompt[p], cache.prompt.rows[p]} \ {None}}
  BY <1>3, <1>5, <1>6 DEF Touched
<1>8. Touched(q)' = {x.family : x \in {db'.prompt[p], cache'.prompt.rows[p]} \ {None}}
  BY <1>3, <1>5, <1>6 DEF Touched
<1>9. OfFamily(db.prompt[p], f) \/ OfFamily(cache.prompt.rows[p], f)
  BY <1>7 DEF OfFamily
<1>10. CASE k # "prompt" \/ p # key
  BY <1>4, <1>7, <1>8, <1>10
<1>11. CASE k = "prompt" /\ p = key /\ row # None
  <2>1. f \in Families /\ Has(p, f)
    BY <1>1, <1>9, TablesAre DEF OfFamily, PromptRows, Has
  <2>2. row.family \in Families
    BY <1>11, FourKinds DEF Puts, PromptRows
  <2>3. ~IsNew(call[c].write)
    BY <1>1, <1>11, <2>1, DefinitionsAssumption DEF Puts, CopiesInv, DefsInv, DefsTypeOK, PromptIds
  <2>4. Copies(call[c], p, row.family)
    BY <1>11, <2>3 DEF Puts, Copies, OfFamily
  <2>5. row.family = f
    BY <1>1, <2>1, <2>2, <2>4 DEF CopiesInv, Has
  <2> QED
    BY <1>4, <1>8, <1>11, <2>5
<1>12. CASE k = "prompt" /\ p = key /\ row = None
  <2>1. /\ call[c].at = "write" /\ call[c].write.kind = "prompt" /\ call[c].write.row = None /\ call[c].write \in Writes
    BY <1>12 DEF Puts
  <2>2. Placed(call[c])
    BY RequestsAre DEF Good
  <2>3. call[c].req.do = "deletePrompt" /\ call[c].write.key = call[c].req.key /\ call[c].write.mode = "delete"
    BY <2>1, <2>2 DEF Placed, Fits, PromptWriters
  <2>4. call[c].req.key = p
    BY <1>12, <2>3 DEF Puts, IsNew
  <2>5. Touched(call[c]) = {x.family : x \in {db.prompt[p], cache.prompt.rows[p]} \ {None}}
    BY <1>3, <2>1, <2>3, <2>4 DEF Touched
  <2> QED
    BY <1>7, <1>12, <2>5
<1> QED
  BY <1>10, <1>11, <1>12

(* The caches agree with the database after a write.                        *)
LEMMA PutsCache ==
  ASSUME DefsInv, Onward, NEW c \in Callers, NEW k, NEW key, NEW row, Puts(c, k, key, row), NEW r, After(c, k, r)
  PROVE  CacheInv'
<1>1. ASSUME NEW j \in Kinds, NEW x \in Keys[j], Changing(j, x), ~(j = k /\ x = key) PROVE Changing(j, x)'
  <2>1. PICK d \in Callers : Changes(call[d], j, x)
    BY <1>1 DEF Changing
  <2>2. d # c
    BY <1>1, <2>1 DEF Changes, Puts, IsNew
  <2>3. call'[d] = call[d]
    BY <2>1, <2>2 DEF After, Changes
  <2>4. Changes(call'[d], j, x)
    BY <2>1, <2>3
  <2> QED
    BY <2>4 DEF Changing
<1>2. CacheInv
  BY DEF DefsInv
<1> SUFFICES ASSUME NEW j \in Kinds
             PROVE  /\ reading'[j].at = "reading" => ~cache'[j].known
                    /\ \A x \in Keys[j] :
                         /\ reading'[j].at = "reading" => reading'[j].rows[x] = db'[j][x] \/ <<j, x>> \in torn'
                         /\ cache'[j].known => \/ cache'[j].rows[x] = db'[j][x]
                                               \/ <<j, x>> \in torn'
                                               \/ Changing(j, x)' /\ cache'[j].rows[x] # None
  BY DEF CacheInv
<1>3. cache'[j].known = cache[j].known /\ reading' = reading
  BY DEF Puts
<1>4. reading'[j].at = "reading" => ~cache'[j].known
  BY <1>2, <1>3 DEF CacheInv
<1>5. ASSUME NEW x \in Keys[j]
      PROVE  /\ reading'[j].at = "reading" => reading'[j].rows[x] = db'[j][x] \/ <<j, x>> \in torn'
             /\ cache'[j].known => \/ cache'[j].rows[x] = db'[j][x]
                                   \/ <<j, x>> \in torn'
                                   \/ Changing(j, x)' /\ cache'[j].rows[x] # None
  <2>1. /\ db'[j][x] = IF j = k /\ x = key THEN row ELSE db[j][x]
        /\ cache'[j].rows[x] = IF cache[k].known /\ j = k /\ x = key THEN row ELSE cache[j].rows[x]
    BY DEF Puts
  <2>2. CASE j = k /\ x = key
    BY <1>3, <2>1, <2>2 DEF Puts
  <2>3. CASE ~(j = k /\ x = key)
    <3>1. /\ reading[j].at = "reading" => reading[j].rows[x] = db[j][x] \/ <<j, x>> \in torn
          /\ cache[j].known => \/ cache[j].rows[x] = db[j][x]
                               \/ <<j, x>> \in torn
                               \/ Changing(j, x) /\ cache[j].rows[x] # None
      BY <1>2 DEF CacheInv
    <3>2. db'[j][x] = db[j][x] /\ cache'[j].rows[x] = cache[j].rows[x]
      BY <2>1, <2>3
    <3>3. Changing(j, x) => Changing(j, x)'
      BY <1>1, <2>3
    <3> QED
      BY <1>3, <3>1, <3>2, <3>3 DEF Onward
  <2> QED
    BY <2>2, <2>3
<1> QED
  BY <1>4, <1>5

(* A prompt keeps its family, and ids are given in turn.                    *)
LEMMA PutsFamilies ==
  ASSUME DefsInv, NEW c \in Callers, NEW k, NEW key, NEW row, Puts(c, k, key, row), NEW r, After(c, k, r), r.at # "write"
  PROVE  CopiesInv' /\ SuitsInv'
<1>1. CopiesInv /\ SuitsInv /\ TablesOK /\ lastId \in 0 .. MaxPrompts
  BY DEF DefsInv, DefsTypeOK
<1>2. CopiesInv'
  <2> SUFFICES ASSUME NEW p \in PromptIds, NEW f \in Families, Has(p, f)', NEW g \in Families, Has(p, g)'
               PROVE  p <= lastId' /\ g = f
    BY DEF CopiesInv
  <2>1. Has(p, f) \/ (IsNew(call[c].write) /\ p = key /\ row # None /\ f = row.family /\ p = lastId + 1 /\ lastId' = p)
    BY PutsCopies
  <2>2. Has(p, g) \/ (IsNew(call[c].write) /\ p = key /\ row # None /\ g = row.family /\ p = lastId + 1 /\ lastId' = p)
    BY PutsCopies
  <2>3. Has(p, f) \/ Has(p, g) => p <= lastId
    BY <1>1 DEF CopiesInv
  <2>4. lastId' = lastId \/ lastId' = lastId + 1
    BY DEF Puts
  <2>5. p \in Nat /\ lastId \in Nat
    BY <1>1, DefinitionsAssumption DEF PromptIds
  <2>6. p # lastId + 1 \/ ~(p <= lastId)
    BY <2>5
  <2>7. p <= lastId'
    BY <2>1, <2>3, <2>4, <2>5
  <2>8. g = f
    BY <1>1, <2>1, <2>2, <2>3, <2>6 DEF CopiesInv
  <2> QED
    BY <2>7, <2>8
<1>3. SuitsInv'
  <2> SUFFICES ASSUME NEW p \in PromptIds, db'.prompt[p] # None PROVE db'.prompt[p].suits
    BY DEF SuitsInv
  <2>1. db.prompt = db["prompt"] /\ db'.prompt = db'["prompt"]
    BY <1>1, TablesAre DEF Puts
  <2>2. db'.prompt[p] = IF k = "prompt" /\ p = key THEN row ELSE db.prompt[p]
    BY <2>1, FourKeys DEF Puts
  <2>3. CASE k = "prompt" /\ p = key
    BY <2>2, <2>3 DEF Puts
  <2>4. CASE ~(k = "prompt" /\ p = key)
    BY <1>1, <2>2, <2>4 DEF SuitsInv
  <2> QED
    BY <2>3, <2>4
<1> QED
  BY <1>2, <1>3

(* A new agent is given its prompt next, a removed one is gone.             *)
LEMMA PutsAgents ==
  ASSUME DefsInv, Onward, NEW c \in Callers, NEW k, NEW key, NEW row, Puts(c, k, key, row),
         NEW r, After(c, k, r), r = AfterWrite(call[c], key), Takes(call[c].write),
         mapping' = MappingAfter(k, key, row)
  PROVE  /\ AgentInv'
         /\ mapping' \in [Agents -> Families \cup {None}]
         /\ \A a \in Agents : mapping'[a] = mapping[a] \/ (k = "agent" /\ row = None /\ a = key)
         /\ \A a \in Agents : db'.agent[a] = IF k = "agent" /\ a = key THEN row ELSE db.agent[a]
<1>1. TablesOK /\ TablesOK' /\ mapping \in [Agents -> Families \cup {None}] /\ AgentInv
  BY DEF DefsInv, DefsTypeOK, Puts
<1>2. db.agent = db["agent"] /\ db'.agent = db'["agent"]
  BY <1>1, TablesAre
<1>3. \A a \in Agents : db'.agent[a] = IF k = "agent" /\ a = key THEN row ELSE db.agent[a]
  BY <1>2, FourKeys DEF Puts
<1>4. k = "agent" => key \in Agents
  BY FourKeys DEF Puts
<1>5. /\ mapping' \in [Agents -> Families \cup {None}]
      /\ \A a \in Agents : mapping'[a] = mapping[a] \/ (k = "agent" /\ row = None /\ a = key)
  BY <1>1, <1>4 DEF MappingAfter
<1>6. /\ call[c].at = "write" /\ Placed(call[c]) /\ k = call[c].write.kind /\ call[c].req # None
  <2>1. call[c].at = "write" /\ k = call[c].write.kind
    BY DEF Puts
  <2>2. Placed(call[c]) /\ call[c].req \in Requests
    BY <2>1, RequestsAre DEF Good
  <2> QED
    BY <2>1, <2>2, DefinitionsAssumption
<1>7. ASSUME NEW a \in Agents, NEW d \in Callers, Excuses(call[d], a), ~(d = c) PROVE Excuses(call'[d], a)
  <2>1. call'[d] = call[d]
    BY <1>7 DEF After, Excuses
  <2> QED
    BY <1>7, <2>1
<1>8. AgentInv'
  <2> SUFFICES ASSUME NEW a \in Agents, db'.agent[a] # None, mapping'[a] = None
               PROVE  <<"agent", a>> \in torn' \/ \E d \in Callers : Excuses(call'[d], a)
    BY DEF AgentInv
  <2>1. CASE k = "agent" /\ a = key
    <3>1. row # None /\ mapping[a] = None
      BY <1>3, <1>5, <2>1
    <3>2. /\ call[c].req.do \in AgentWriters /\ call[c].write.key = call[c].req.key /\ call[c].write.mode # "delete"
          /\ call[c].write.mode \in {"create", "update"} /\ key = call[c].write.key
          /\ call[c].req.do = "createAgent" => call[c].write.mode = "create"
      BY <1>6, <2>1, <3>1, WritesAre DEF Placed, Fits, Puts, IsNew
    <3>3. CASE call[c].req.do = "createAgent"
      <4>1. r.at = "map" /\ r.req = call[c].req
        BY <1>6, <3>2, <3>3, AfterWriteIs DEF Settled
      <4>2. Excuses(r, a)
        BY <1>6, <2>1, <3>2, <3>3, <4>1 DEF Excuses
      <4> QED
        BY <4>2 DEF After
    <3>4. CASE call[c].req.do # "createAgent"
      <4>1. call[c].write.mode = "update"
        BY <1>6, <3>2, <3>4 DEF Placed, Fits, AgentWriters
      <4>2. db.agent[a] # None
        BY <1>2, <1>6, <2>1, <3>2, <4>1 DEF Takes
      <4>3. <<"agent", a>> \in torn \/ \E d \in Callers : Excuses(call[d], a)
        BY <1>1, <3>1, <4>2 DEF AgentInv
      <4>4. ~Excuses(call[c], a)
        BY <1>6, <4>1 DEF Excuses
      <4> QED
        BY <1>7, <4>3, <4>4 DEF Onward
    <3> QED
      BY <3>3, <3>4
  <2>2. CASE ~(k = "agent" /\ a = key)
    <3>1. db.agent[a] # None /\ mapping[a] = None
      BY <1>3, <1>5, <2>2
    <3>2. <<"agent", a>> \in torn \/ \E d \in Callers : Excuses(call[d], a)
      BY <1>1, <3>1 DEF AgentInv
    <3>3. ~Excuses(call[c], a)
      BY <1>6, <2>2 DEF Excuses, Placed, Fits, AgentWriters, Puts, IsNew
    <3> QED
      BY <1>7, <3>2, <3>3 DEF Onward
  <2> QED
    BY <2>1, <2>2
<1> QED
  BY <1>3, <1>5, <1>8

(* Tools remain those of configured, enabled servers.                       *)
LEMMA PutsTools ==
  ASSUME DefsInv, Onward, NEW c \in Callers, NEW k, NEW key, NEW row, Puts(c, k, key, row),
         registered' = ToolsAfter(call[c].write, key)
  PROVE  /\ registered' \subseteq registered
         /\ \A s \in registered' : Offers(s)'
         /\ \A d \in Callers \ {c} : \A s :
              \/ call[d].at = "register" /\ s = call[d].req.key
              \/ call[d].at = "reload" /\ s \in call[d].rest
              => Offers(s)'
<1>1. TablesOK /\ TablesOK' /\ registered \subseteq Servers /\ \A s \in registered : Offers(s)
  BY DEF DefsInv, DefsTypeOK, ToolsInv, Puts
<1>2. db.mcp = db["mcp"] /\ db'.mcp = db'["mcp"]
  BY <1>1, TablesAre
<1>3. \A s \in Servers : db'.mcp[s] = IF k = "mcp" /\ s = key THEN row ELSE db.mcp[s]
  BY <1>2, FourKeys DEF Puts
<1>4. registered' \subseteq registered
  BY DEF ToolsAfter
<1>5. \A s \in Servers : Offers(s) /\ ~(k = "mcp" /\ s = key) => Offers(s)'
  BY <1>3 DEF Offers, Onward
<1>6. call[c].at = "write" /\ Good(call[c]) /\ Placed(call[c]) /\ k = call[c].write.kind
  <2>1. call[c].at = "write" /\ k = call[c].write.kind
    BY DEF Puts
  <2> QED
    BY <2>1, RequestsAre DEF Good
<1>7. ASSUME NEW s \in registered' PROVE Offers(s)'
  <2>1. s \in Servers /\ s \in registered /\ Offers(s)
    BY <1>1, <1>4
  <2>2. CASE ~(k = "mcp" /\ s = key)
    BY <1>5, <2>1, <2>2
  <2>3. CASE k = "mcp" /\ s = key /\ row = None
    <3>1. call[c].write.key = key /\ call[c].write.row = None /\ call[c].write.mode = "delete"
      BY <1>6, <2>3 DEF Puts, IsNew, Placed, Fits
    <3>2. s \in crowded
      BY <1>6, <2>1, <2>3, <3>1 DEF Good, Tools
    <3> QED
      BY <3>2 DEF Offers, Onward
  <2>4. CASE k = "mcp" /\ s = key /\ row # None
    <3>1. row = call[c].write.row
      BY <2>4 DEF Puts
    <3>2. row.enabled
      BY <1>6, <2>4, <3>1 DEF ToolsAfter
    <3> QED
      BY <1>3, <2>1, <2>4, <3>2 DEF Offers
  <2> QED
    BY <2>2, <2>3, <2>4
<1>8. ASSUME NEW d \in Callers \ {c}, NEW s \in Servers, Offers(s),
             \/ call[d].at = "register" /\ call[d].req.key = s
             \/ call[d].at = "reload"
      PROVE  Offers(s)'
  <2>1. CASE ~(k = "mcp" /\ s = key)
    BY <1>5, <1>8, <2>1
  <2>2. CASE k = "mcp" /\ s = key
    <3>1. call[c].req.do \in {"configure", "deleteServer"} /\ call[c].req.key = s
      BY <1>6, <2>2 DEF Puts, IsNew, Placed, Fits, ServerWriters
    <3>2. s \in Touched(call[c])
      BY <1>6, <3>1 DEF Touched
    <3>3. Placed(call[d])
      BY RequestsAre DEF Good
    <3>4. s \in Touched(call[d])
      BY <1>8, <3>3 DEF Touched, Placed
    <3>5. s \in crowded
      BY <3>2, <3>4 DEF DefsInv, CrowdInv
    <3> QED
      BY <3>5 DEF Offers, Onward
  <2> QED
    BY <2>1, <2>2
<1>9. ASSUME NEW d \in Callers \ {c}, NEW s,
             \/ call[d].at = "register" /\ s = call[d].req.key
             \/ call[d].at = "reload" /\ s \in call[d].rest
      PROVE  Offers(s)'
  <2>1. Tools(call[d]) /\ Placed(call[d]) /\ (call[d].at \notin {"idle", "end"} => WellFormed(call[d].req))
    BY RequestsAre DEF Good
  <2>2. s \in Servers /\ Offers(s)
    BY <1>9, <2>1 DEF Tools, Placed, WellFormed
  <2> QED
    BY <1>8, <1>9, <2>2
<1> QED
  BY <1>4, <1>7, <1>9

(* While no row of the cache differs after it, a write is none of a prompt, *)
(* or has cleared the templates; it is of no matter to the others.          *)
LEMMA PutsUnwritten ==
  ASSUME DefsInv, Onward, NEW c \in Callers, NEW k, NEW key, NEW row, Puts(c, k, key, row), NEW r, After(c, k, r),
         Unwritten', k # "prompt" \/ row = None
  PROVE  Unwritten
<1>1. torn = {}
  BY DEF Unwritten, Onward
<1>2. SUFFICES ASSUME NEW p \in PromptIds, NEW d \in Callers, Changes(call[d], "prompt", p) PROVE FALSE
  BY <1>1 DEF Unwritten, Changing
<1>3. d # c
  <2>1. ASSUME d = c PROVE FALSE
    <3>1. call[c].at = "write" /\ call[c].write.mode = "update" /\ k = "prompt" /\ call[c].write.row = None
      BY <1>2, <2>1 DEF Changes, Puts
    <3>2. Placed(call[c])
      BY RequestsAre DEF Good
    <3> QED
      BY <3>1, <3>2 DEF Placed, Fits
  <2> QED
    BY <2>1
<1>4. call'[d] = call[d]
  BY <1>2, <1>3 DEF After, Changes
<1>5. Changes(call'[d], "prompt", p)
  BY <1>2, <1>4
<1> QED
  BY <1>5 DEF Unwritten, Changing

(* Templates stay current: a prompt that is written clears them.            *)
LEMMA PutsTemplates ==
  ASSUME DefsInv, Onward, NEW c \in Callers, NEW k, NEW key, NEW row, Puts(c, k, key, row), NEW r, After(c, k, r),
         Takes(call[c].write), template' = TemplatesAfter(call[c].write, key),
         \A a \in Agents : mapping'[a] = mapping[a] \/ (k = "agent" /\ row = None /\ a = key),
         \A a \in Agents : db'.agent[a] = IF k = "agent" /\ a = key THEN row ELSE db.agent[a]
  PROVE  /\ template' \in [Agents -> [known : BOOLEAN, text : Phrases, stale : BOOLEAN]]
         /\ Unwritten' => \A a \in Agents : Current(a)'
<1>1. /\ template \in [Agents -> [known : BOOLEAN, text : Phrases, stale : BOOLEAN]]
      /\ Unwritten => \A a \in Agents : Current(a)
      /\ TablesOK /\ TablesOK'
  BY DEF DefsInv, DefsTypeOK, TemplateInv, Puts
<1>2. Blank \in [known : BOOLEAN, text : Phrases, stale : BOOLEAN] /\ ~Blank.known
  BY DEF Blank, Phrases
<1>3. k = call[c].write.kind /\ (row = None <=> call[c].write.row = None) /\ (k # "prompt" => row = call[c].write.row)
  BY DEF Puts
<1>4. k = "agent" => key \in Agents
  BY FourKeys DEF Puts
<1>5. template' \in [Agents -> [known : BOOLEAN, text : Phrases, stale : BOOLEAN]]
  BY <1>1, <1>2, <1>3, <1>4 DEF TemplatesAfter
<1>6. /\ db.prompt = db["prompt"] /\ db'.prompt = db'["prompt"]
      /\ \A p \in PromptIds : db'.prompt[p] = IF k = "prompt" /\ p = key THEN row ELSE db.prompt[p]
  BY <1>1, TablesAre, FourKeys DEF Puts
<1>7. CASE k = "prompt" /\ (row # None \/ db.prompt[key] # None)
  <2>1. template' = [a \in Agents |-> Blank]
    BY <1>3, <1>7 DEF TemplatesAfter
  <2> QED
    BY <1>2, <1>5, <2>1 DEF Current
<1>8. CASE ~(k = "prompt" /\ (row # None \/ db.prompt[key] # None))
  <2>1. \A p \in PromptIds : db'.prompt[p] = db.prompt[p]
    BY <1>6, <1>8
  <2>2. \A f : ActiveOf(f)' = ActiveOf(f)
    BY <2>1 DEF ActiveOf
  <2>3. \A f : \A p \in ActiveOf(f) : db'.prompt[p] = db.prompt[p]
    BY <2>1 DEF ActiveOf
  <2>4. k # "prompt" \/ row = None
    BY <1>8
  <2>5. \A a \in Agents : template'[a] = template[a] \/ template'[a] = Blank
    BY <1>1, <1>3, <1>4, <1>8 DEF TemplatesAfter
  <2>6. k = "agent" /\ call[c].write.mode = "create" => template'[key] = Blank
    BY <1>1, <1>3, <1>4 DEF TemplatesAfter
  <2>7. k = "agent" /\ row # None => call[c].write.mode = "create" \/ db.agent[key] # None
    <3> SUFFICES ASSUME k = "agent", row # None, call[c].write.mode # "create" PROVE db.agent[key] # None
      OBVIOUS
    <3>1. Placed(call[c]) /\ call[c].at = "write" /\ key = call[c].write.key /\ call[c].write \in Writes
      BY RequestsAre DEF Good, Puts, IsNew
    <3>2. call[c].write.mode = "update"
      BY <1>3, <3>1, WritesAre DEF Placed, Fits
    <3> QED
      BY <1>1, <1>3, <3>1, <3>2, TablesAre DEF Takes
  <2>8. ASSUME Unwritten', NEW a \in Agents PROVE Current(a)'
    <3>1. Unwritten /\ Current(a)
      BY <1>1, <2>4, <2>8, PutsUnwritten
    <3>2. CASE k = "agent" /\ a = key
      BY <1>2, <2>2, <2>3, <2>5, <2>6, <2>7, <3>1, <3>2 DEF Current
    <3>3. CASE ~(k = "agent" /\ a = key)
      BY <1>2, <2>2, <2>3, <2>5, <3>1, <3>3 DEF Current
    <3> QED
      BY <3>2, <3>3
  <2> QED
    BY <1>5, <2>8
<1> QED
  BY <1>7, <1>8

(* A request that looked at the prompts is not about one that is new.       *)
LEMMA PutsLoop ==
  ASSUME DefsInv, NEW c \in Callers, NEW k, NEW key, NEW row, Puts(c, k, key, row), NEW r, After(c, k, r), r.at # "write",
         NEW q \in CallType, Placed(q), Informed(q), q.at \in {"marking", "write"}, q.req.do = "markActive"
  PROVE  \A p \in q.rest \cup {q.req.key} : \A f \in Families : Has(p, f)' => Has(p, f)
<1>1. q.req \in Requests /\ WellFormed(q.req)
  BY DefinitionsAssumption DEF Placed, CallType
<1>2. q.rest \cup {q.req.key} \subseteq PromptIds /\ \A p \in q.rest \cup {q.req.key} : p <= lastId
  BY <1>1 DEF Informed, WellFormed
<1>3. lastId \in Nat /\ PromptIds \subseteq Nat
  BY DefinitionsAssumption DEF DefsInv, DefsTypeOK, PromptIds
<1>4. \A p \in q.rest \cup {q.req.key} : p # lastId + 1
  BY <1>2, <1>3
<1> QED
  BY <1>2, <1>4, PutsCopies

(* A request that a write does not overtake is as good as before.           *)
LEMMA PutsOthers ==
  ASSUME DefsInv, Onward, NEW c \in Callers, NEW k, NEW key, NEW row, Puts(c, k, key, row),
         NEW r, After(c, k, r), r.at # "write",
         registered' = ToolsAfter(call[c].write, key),
         \A a \in Agents : mapping'[a] # None => mapping'[a] = mapping[a],
         NEW d \in Callers \ {c}
  PROVE  Good(call[d])'
<1>1. call[d] \in CallType /\ Good(call[d]) /\ (call[d].at \notin {"idle", "end"} => WellFormed(call[d].req))
  BY RequestsAre
<1>2. cache'.prompt.known = cache.prompt.known /\ lastId' \in Nat /\ lastId \in Nat /\ lastId <= lastId'
  <2>1. cache.prompt = cache["prompt"] /\ cache'.prompt = cache'["prompt"]
    BY TablesAre DEF DefsInv, DefsTypeOK, Puts
  <2>2. cache'["prompt"].known = cache["prompt"].known
    BY FourKeys DEF Puts
  <2>3. lastId \in 0 .. MaxPrompts /\ lastId' \in 0 .. MaxPrompts /\ MaxPrompts \in Nat
    BY DefinitionsAssumption DEF DefsInv, DefsTypeOK, Puts
  <2>4. lastId' = lastId \/ lastId' = lastId + 1
    BY DEF Puts
  <2> QED
    BY <2>1, <2>2, <2>3, <2>4
<1>3. CASE call[d].at = "naming" /\ call'[d] = [call[d] EXCEPT !.raced = TRUE]
  <2>1. PICK q : q = [call[d] EXCEPT !.raced = TRUE]
    OBVIOUS
  <2>2. q \in CallType /\ Sound(q) /\ Tools(q)' /\ Found(q)' /\ q.at = "naming"
    BY <1>1, <1>3, <2>1, RacedIsSound
  <2>3. Good(q)'
    BY <1>2, <2>2 DEF Good, Sound, Informed, Writer, Marker
  <2> QED
    BY <1>3, <2>1, <2>3
<1>4. CASE call'[d] = call[d] /\ (call[d].at = "naming" => k # "prompt")
  <2>1. PICK q : q = call[d]
    OBVIOUS
  <2>2. q \in CallType /\ Good(q) /\ (q.at \notin {"idle", "end"} => WellFormed(q.req)) /\ (q.at = "naming" => k # "prompt")
    BY <1>1, <1>4, <2>1
  <2>3. Informed(q)'
    <3>1. q.at \in {"marking", "write"} /\ q.req.do = "markActive" => \A p \in q.rest \cup {q.req.key} : p \in Nat
      BY <2>2, DefinitionsAssumption DEF Good, Informed, WellFormed, PromptIds
    <3> QED
      BY <1>2, <2>2, <3>1 DEF Good, Informed
  <2>4. Tools(q)'
    <3>1. /\ registered' \subseteq registered
          /\ \A s : (q.at = "register" /\ s = q.req.key) \/ (q.at = "reload" /\ s \in q.rest) => Offers(s)'
      BY <2>1, PutsTools
    <3>2. q.at = "write" /\ q.write.kind = "mcp" /\ q.write.mode = "delete" =>
            q.write.key \notin registered' \/ q.write.key \in crowded'
      BY <2>2, <3>1 DEF Good, Tools, Onward
    <3> QED
      BY <3>1, <3>2 DEF Tools
  <2>5. Unwritten' => Found(q)'
    <3> SUFFICES ASSUME Unwritten', q.at = "naming", ~q.raced, mapping'[q.req.key] # None PROVE Found(q)'
      BY DEF Found
    <3>1. k # "prompt" /\ Unwritten
      BY <2>2, PutsUnwritten
    <3>2. q.req.key \in Agents
      <4>1. q.req.do = "load"
        BY <2>2 DEF Good, Placed
      <4>2. WellFormed(q.req)
        BY <2>2
      <4> QED
        BY <4>1, <4>2 DEF WellFormed
    <3>3. mapping'[q.req.key] = mapping[q.req.key]
      BY <3>2
    <3>4. q.was = ActiveOf(mapping[q.req.key]) /\ q.was # {}
      BY <2>2, <3>1, <3>3 DEF Good, Found
    <3>5. \A p \in PromptIds : db'.prompt[p] = db.prompt[p]
      <4>1. db.prompt = db["prompt"] /\ db'.prompt = db'["prompt"]
        BY TablesAre DEF DefsInv, DefsTypeOK, Puts
      <4> QED
        BY <3>1, <4>1, FourKeys DEF Puts
    <3>6. \A f : ActiveOf(f)' = ActiveOf(f)
      BY <3>5 DEF ActiveOf
    <3>7. PICK f : f = mapping[q.req.key]
      OBVIOUS
    <3>8. q.was = ActiveOf(f)'
      BY <3>4, <3>6, <3>7
    <3> QED
      BY <3>3, <3>4, <3>7, <3>8 DEF Found
  <2>6. Touched(q) \subseteq Touched(q)' \cup crowded'
    <3> SUFFICES ASSUME NEW f \in Touched(q), f \notin Touched(q)' PROVE f \in crowded'
      OBVIOUS
    <3>1. f \in Touched(call[c])
      BY <2>2, PutsTouched
    <3>2. f \in crowded
      BY <2>1, <3>1 DEF DefsInv, CrowdInv
    <3> QED
      BY <3>2 DEF Onward
  <2>7. \A f \in Families : Calm(f)' /\ f \in Touched(q) => ActiveOf(f)' \subseteq ActiveOf(f)
    <3> SUFFICES ASSUME NEW f \in Families, Calm(f)', f \in Touched(q) PROVE ActiveOf(f)' \subseteq ActiveOf(f)
      OBVIOUS
    <3>1. f \notin Touched(call[c])
      BY <2>1, CalmBefore DEF DefsInv, CrowdInv, Calm
    <3> QED
      BY <3>1, PutsAlone
  <2>8. Writer(q)'
    BY <2>2, <2>6, <2>7, WriterFrame DEF Good
  <2>9. Marker(q)'
    <3>1. CASE q.at \in {"marking", "write"} /\ q.req.do = "markActive"
      <4>1. \A p \in q.rest \cup {q.req.key} : \A f \in Families : Has(p, f)' => Has(p, f)
        BY <2>2, <3>1, PutsLoop DEF Good
      <4> QED
        BY <2>2, <2>6, <2>7, <4>1, MarkerFrame DEF Good
    <3> QED
      BY <3>1 DEF Marker
  <2>10. Good(q)'
    BY <2>2, <2>3, <2>4, <2>5, <2>8, <2>9 DEF Good
  <2> QED
    BY <1>4, <2>1, <2>10
<1> QED
  BY <1>3, <1>4 DEF After

(* Nor is there anything wrong with the request that wrote.                 *)
LEMMA PutsWriter ==
  ASSUME DefsInv, Onward, NEW c \in Callers, NEW k, NEW key, NEW row, Puts(c, k, key, row),
         NEW r, After(c, k, r), r = AfterWrite(call[c], key)
  PROVE  r.at # "write" /\ Good(r)'
<1>1. PICK q : q = call[c]
  OBVIOUS
<1>2. /\ q \in CallType /\ Good(q) /\ q.at = "write" /\ WellFormed(q.req)
      /\ Placed(q) /\ Informed(q) /\ Marker(q)
  BY <1>1, RequestsAre DEF Puts, Good
<1>3. Fits(q.req, q.write) /\ q.write \in Writes
  BY <1>2 DEF Placed
<1>4. /\ r \in CallType
      /\ \/ Settled(r)
         \/ /\ r.req = q.req /\ r.rest = q.rest /\ r.was = q.was
            /\ \/ r.at = "marking" /\ r.req.do = "markActive" /\ key # r.req.key
               \/ r.at = "map" /\ r.req.do = "createAgent"
               \/ r.at = "refer" /\ r.req.do = "updateAgent" /\ r.req.family # None
  BY <1>1, <1>2, AfterWriteIs
<1>5. CASE Settled(r)
  <2>1. Good(r)'
    BY <1>5 DEF Settled, Good, Placed, Informed, Tools, Writer, Marker, Found
  <2> QED
    BY <1>5, <2>1 DEF Settled
<1>6. CASE r.at \in {"map", "refer"} /\ r.req = q.req
  <2>1. r.req # None
    BY <1>2, <1>6 DEF Placed
  <2>2. r.req.do = "createAgent" => r.req.family # None
    BY <1>2, <1>6, DefinitionsAssumption DEF WellFormed
  <2>3. Placed(r)
    BY <1>4, <1>6, <2>1, <2>2 DEF Placed, Settled
  <2>4. Good(r)'
    BY <1>4, <1>6, <2>3 DEF Good, Informed, Tools, Writer, Marker, Found
  <2> QED
    BY <1>6, <2>4
<1>7. CASE r.at = "marking" /\ r.req.do = "markActive" /\ key # r.req.key /\ r.req = q.req /\ r.rest = q.rest /\ r.was = q.was
  <2>1. /\ q.write.mode = "update" /\ (q.write.key = q.req.key <=> q.write.row.active) /\ q.write.kind = "prompt"
        /\ q.write.row # None
    BY <1>3, <1>7 DEF Fits, PromptWriters
  <2>2. /\ k = "prompt" /\ row # None /\ row.active = q.write.row.active /\ key = q.write.key /\ lastId' = lastId
        /\ cache'["prompt"].known = cache["prompt"].known
    BY <1>1, <2>1, FourKeys DEF Puts, IsNew
  <2>3. cache'.prompt.known = cache.prompt.known
    <3>1. cache.prompt = cache["prompt"] /\ cache'.prompt = cache'["prompt"]
      BY TablesAre DEF DefsInv, DefsTypeOK, Puts
    <3> QED
      BY <2>2, <3>1
  <2>4. r.req # None
    BY <1>2, <1>7 DEF Placed
  <2>5. Placed(r)
    BY <1>7, <2>4 DEF Placed
  <2>6. Informed(r)'
    BY <1>2, <1>7, <2>2, <2>3 DEF Informed
  <2>7. PICK f \in Families : Marks(q, f)
    BY <1>2, <1>7 DEF Marker
  <2>8. f \in Touched(r)' \cup crowded'
    <3>1. Touched(q) = Touched(r)
      BY <1>2, <1>7, TouchedAt
    <3>2. f \in Touched(r) \/ f \in crowded
      BY <2>7, <3>1 DEF Marks
    <3>3. r.at \notin {"idle", "end"} => WellFormed(r.req)
      BY <1>2, <1>7
    <3>4. f \in Touched(r) => f \in Touched(r)'
      BY <2>2, <3>3, PutsTouched
    <3> QED
      BY <3>2, <3>4 DEF Onward
  <2>9. \A p \in r.rest \cup {r.req.key} : \A g \in Families : Has(p, g)' => g = f
    <3>1. \A p \in q.rest \cup {q.req.key} : \A g \in Families : Has(p, g)' => Has(p, g)
      BY <1>2, <1>7, PutsLoop
    <3> QED
      BY <1>7, <2>7, <3>1 DEF Marks
  <2>10. ASSUME Calm(f)', NEW p \in ActiveOf(f)' PROVE p \in (r.rest \cap r.was) \cup {r.req.key}
    <3>1. CASE p = key
      <4>1. row.active
        BY <2>2, <3>1, <2>10, PutsActive
      <4> QED
        BY <1>7, <2>1, <2>2, <3>1, <4>1
    <3>2. CASE p # key
      <4>1. p \in ActiveOf(f)
        BY <2>10, <3>2, PutsActive
      <4>2. Calm(f)
        BY <2>10, CalmBefore
      <4> QED
        BY <1>2, <1>7, <2>2, <2>7, <3>2, <4>1, <4>2 DEF Marks
    <3> QED
      BY <3>1, <3>2
  <2>11. Marks(r, f)'
    BY <1>7, <2>8, <2>9, <2>10 DEF Marks
  <2>12. Good(r)'
    BY <1>4, <1>7, <2>5, <2>6, <2>11 DEF Good, Tools, Writer, Marker, Found
  <2> QED
    BY <1>7, <2>12
<1> QED
  BY <1>4, <1>5, <1>6, <1>7

(* A write that the database takes, with the callback that follows.         *)
LEMMA WrittenStep ==
  ASSUME DefsInv, Onward, NEW c \in Callers, Written(c)
  PROVE  DefsInv'
<1>1. PICK k, key, row :
        /\ Puts(c, k, key, row)
        /\ mapping' = MappingAfter(k, key, row)
        /\ template' = TemplatesAfter(call[c].write, key)
        /\ registered' = ToolsAfter(call[c].write, key)
        /\ call' = [d \in Callers |->
                      IF d = c THEN AfterWrite(call[c], key)
                      ELSE IF k = "prompt" /\ call[d].at = "naming" THEN [call[d] EXCEPT !.raced = TRUE]
                      ELSE call[d]]
  BY WrittenPuts
<1>2. PICK r : r = AfterWrite(call[c], key)
  OBVIOUS
<1>3. Takes(call[c].write) /\ call[c].at = "write"
  BY DEF Written
<1>4. TablesInv /\ call \in [Callers -> CallType] /\ \A d \in Callers : Good(call[d])
  BY DefsInvIs
<1>5. After(c, k, r)
  <2>1. r \in CallType
    BY <1>2, <1>3, AfterWriteIs
  <2>2. \A d \in Callers : call[d] \in CallType /\ [call[d] EXCEPT !.raced = TRUE] \in CallType
    <3> SUFFICES ASSUME NEW d \in Callers PROVE call[d] \in CallType /\ [call[d] EXCEPT !.raced = TRUE] \in CallType
      OBVIOUS
    <3>1. call[d] \in CallType
      BY <1>4
    <3> QED
      BY <3>1 DEF CallType
  <2>3. \A d \in Callers : call'[d] = IF d = c THEN r
                                      ELSE IF k = "prompt" /\ call[d].at = "naming" THEN [call[d] EXCEPT !.raced = TRUE]
                                      ELSE call[d]
    BY <1>1, <1>2
  <2>4. call' \in [Callers -> CallType]
    <3>1. call' = [d \in Callers |-> call'[d]]
      BY <1>1
    <3>2. \A d \in Callers : call'[d] \in CallType
      BY <2>1, <2>2, <2>3
    <3> QED
      BY <3>1, <3>2
  <2> QED
    BY <2>3, <2>4 DEF After
<1>6. r.at # "write" /\ Good(r)'
  BY <1>1, <1>2, <1>5, PutsWriter
<1>7. /\ AgentInv'
      /\ mapping' \in [Agents -> Families \cup {None}]
      /\ \A a \in Agents : mapping'[a] = mapping[a] \/ (k = "agent" /\ row = None /\ a = key)
      /\ \A a \in Agents : db'.agent[a] = IF k = "agent" /\ a = key THEN row ELSE db.agent[a]
  BY <1>1, <1>2, <1>3, <1>5, PutsAgents
<1>8. \A a \in Agents : mapping'[a] # None => mapping'[a] = mapping[a]
  BY <1>1, <1>4 DEF TablesInv, MappingAfter
<1>9. ASSUME NEW d \in Callers PROVE Good(call[d])'
  <2>1. CASE d = c
    <3>1. call'[d] = r
      BY <1>5, <2>1 DEF After
    <3> QED
      BY <1>6, <3>1
  <2>2. CASE d # c
    BY <1>1, <1>5, <1>6, <1>8, <2>2, PutsOthers
  <2> QED
    BY <2>1, <2>2
<1>10. OneInv'
  <2> SUFFICES ASSUME NEW f \in Families, Calm(f)', NEW p \in ActiveOf(f)', NEW q \in ActiveOf(f)' PROVE p = q
    BY DEF OneInv
  <2>1. Calm(f)
    BY CalmBefore
  <2>2. ActiveOf(f)' \subseteq ActiveOf(f) \/ ActiveOf(f)' \subseteq {key}
    BY <1>1, PutsAlone
  <2> QED
    BY <1>4, <2>1, <2>2 DEF TablesInv, OneInv
<1>11. CacheInv'
  BY <1>1, <1>5, PutsCache
<1>12. CopiesInv' /\ SuitsInv'
  BY <1>1, <1>5, <1>6, PutsFamilies
<1>13. registered' \subseteq Servers /\ \A s \in registered' : Offers(s)'
  BY <1>1, <1>4, PutsTools DEF TablesInv
<1>14. /\ template' \in [Agents -> [known : BOOLEAN, text : Phrases, stale : BOOLEAN]]
       /\ Unwritten' => \A a \in Agents : Current(a)'
  BY <1>1, <1>3, <1>5, <1>7, PutsTemplates
<1>15. TablesOK' /\ lastId' \in 0 .. MaxPrompts
  BY <1>1 DEF Puts
<1>16. TablesInv'
  BY <1>7, <1>10, <1>11, <1>12, <1>13, <1>14, <1>15 DEF TablesInv, Onward
<1>17. call' \in [Callers -> CallType]
  BY <1>5 DEF After
<1> QED
  BY <1>9, <1>16, <1>17, DefsInvNext

-----------------------------------------------------------------------------
(* The histories                                                            *)

(* Every step keeps the histories, and adds whoever works together.         *)
LEMMA StepsGoOnward ==
  ASSUME Next
  PROVE  Onward
<1>1. History
  BY DEF Next
<1>2. crowded \subseteq crowded'
  BY <1>1 DEF History
<1>3. ASSUME NEW c \in Callers, NEW d \in Callers, c # d
      PROVE  Touched(call[c])' \cap Touched(call[d])' \subseteq crowded'
  <2>1. PICK p : p = <<c, d>>
    OBVIOUS
  <2>2. p \in {q \in Callers \X Callers : q[1] # q[2]} /\ p[1] = c /\ p[2] = d
    BY <1>3, <2>1
  <2>3. (Touched(call[p[1]])' \cap Touched(call[p[2]])') \subseteq crowded'
    BY <1>1, <2>2 DEF History
  <2> QED
    BY <2>2, <2>3
<1>4. ASSUME NEW c \in Callers, call'[c].req # None, call'[c].req.do = "updatePrompt", call'[c].req.active
      PROVE  Touched(call[c])' \subseteq crowded'
  <2>1. c \in {d \in Callers : call'[d].req # None /\ call'[d].req.do = "updatePrompt" /\ call'[d].req.active}
    BY <1>4
  <2> QED
    BY <1>1, <2>1 DEF History
<1>5. CrowdInv'
  BY <1>3, <1>4 DEF CrowdInv
<1>6. ASSUME NEW c \in Callers, Step(c) PROVE torn \subseteq torn'
  <2>1. CASE Written(c)
    BY <2>1 DEF Written
  <2>2. CASE WriteFails(c)
    BY <2>2 DEF WriteFails
  <2>3. CASE \/ Begin(c) \/ StillBroken(c) \/ Preview(c) \/ Read(c) \/ Load(c) \/ Named(c)
             \/ CreatePrompt(c) \/ Revise(c) \/ UpdatePrompt(c) \/ MarkActive(c) \/ Deactivate(c)
             \/ Activate(c) \/ DeletePrompt(c)
    BY <2>3 DEF Begin, StillBroken, Preview, Read, Load, Named, CreatePrompt, Revise, UpdatePrompt, MarkActive,
                Deactivate, Activate, DeletePrompt, Others
  <2>4. CASE \/ CreateAgent(c) \/ UpdateAgent(c) \/ Refer(c) \/ Mapped(c) \/ MapFails(c)
             \/ DeleteAgent(c) \/ Unmapped(c) \/ CreateTeam(c) \/ UpdateTeam(c) \/ DeleteTeam(c)
    BY <2>4 DEF CreateAgent, UpdateAgent, Refer, Mapped, MapFails, DeleteAgent, Unmapped, CreateTeam, UpdateTeam,
                DeleteTeam, Others
  <2>5. CASE \/ Configure(c) \/ Discover(c) \/ Registered(c) \/ LoadAll(c) \/ Reloaded(c) \/ DeleteServer(c)
    BY <2>5 DEF Configure, Discover, Registered, LoadAll, Reloaded, DeleteServer, Others
  <2> QED
    BY <1>6, <2>1, <2>2, <2>3, <2>4, <2>5 DEF Step
<1>7. ASSUME NEW k \in Kinds, Populate(k) \/ Populated(k) \/ PopulateFails(k) PROVE torn \subseteq torn'
  BY <1>7 DEF Populate, Populated, PopulateFails
<1>8. Restart => torn \subseteq torn'
  BY DEF Restart
<1>9. torn \subseteq torn'
  BY <1>6, <1>7, <1>8 DEF Next, Advance
<1> QED
  BY <1>2, <1>5, <1>9 DEF Onward

-----------------------------------------------------------------------------
(* The invariant                                                            *)

(* Every step of a request keeps the invariant.                             *)
LEMMA RequestsKeep ==
  ASSUME DefsInv, Onward, NEW c \in Callers, Step(c)
  PROVE  DefsInv'
<1>1. CASE Begin(c) \/ StillBroken(c) \/ Preview(c) \/ Read(c)
  BY <1>1, EndsQuietly
<1>2. CASE Written(c) \/ WriteFails(c)
  BY <1>2, WrittenStep, WriteFailsStep
<1>3. CASE CreatePrompt(c) \/ Revise(c) \/ UpdatePrompt(c) \/ MarkActive(c)
  BY <1>3, NewVersionsStep, UpdatePromptStep, MarkActiveStep
<1>4. CASE Deactivate(c) \/ Activate(c) \/ DeletePrompt(c) \/ Load(c) \/ Named(c)
  BY <1>4, DeactivateStep, ActivateStep, DeletePromptStep, LoadStep, NamedStep
<1>5. CASE CreateAgent(c) \/ UpdateAgent(c) \/ Refer(c) \/ Mapped(c) \/ MapFails(c)
  BY <1>5, TeamsAndAgentsIssue, UpdateStep, ReferStep, MappedStep, MapFailsStep
<1>6. CASE DeleteAgent(c) \/ Unmapped(c) \/ CreateTeam(c) \/ UpdateTeam(c) \/ DeleteTeam(c)
  BY <1>6, DeleteAgentStep, UnmappedStep, TeamsAndAgentsIssue, UpdateStep
<1>7. CASE Configure(c) \/ Discover(c) \/ Registered(c) \/ LoadAll(c) \/ Reloaded(c) \/ DeleteServer(c)
  BY <1>7, ConfigureStep, DiscoverStep, RegisteredStep, LoadAllStep, ReloadedStep, DeleteServerStep
<1> QED
  BY <1>1, <1>2, <1>3, <1>4, <1>5, <1>6, <1>7 DEF Step

(* Every step of the node keeps it.                                         *)
LEMMA StepsKeepDefs ==
  ASSUME DefsInv, Next
  PROVE  DefsInv'
<1>1. Onward
  BY StepsGoOnward
<1>2. CASE Advance
  BY <1>1, <1>2, RequestsKeep, PopulateStep, PopulatedStep DEF Advance
<1>3. CASE Restart
  BY <1>1, <1>3, RestartStep
<1> QED
  BY <1>2, <1>3 DEF Next

(* And it stays when nothing happens.                                       *)
LEMMA NothingKeepsDefs ==
  ASSUME DefsInv, UNCHANGED vars
  PROVE  DefsInv'
<1>1. UNCHANGED <<db, cache, reading, mapping, template, registered, call, lastId, torn, crowded>>
  BY DEF vars
<1>2. \A f : ActiveOf(f)' = ActiveOf(f) /\ Calm(f)' = Calm(f)
  BY <1>1 DEF ActiveOf, Calm
<1>3. \A r : Touched(r)' = Touched(r)
  BY <1>1 DEF Touched, Rows
<1>4. \A k, key : Changing(k, key)' = Changing(k, key)
  BY <1>1 DEF Changing
<1>5. \A p, f : Has(p, f)' <=> Has(p, f)
  BY <1>1 DEF Has
<1>6. DefsTypeOK'
  BY <1>1 DEF DefsInv, DefsTypeOK, TablesOK
<1>7. Onward
  BY <1>1, <1>3 DEF DefsInv, Onward, CrowdInv
<1>8. CacheInv' /\ CopiesInv' /\ SuitsInv' /\ AgentInv'
  BY <1>1, <1>4, <1>5 DEF DefsInv, CacheInv, CopiesInv, SuitsInv, AgentInv
<1>9. TablesInv'
  BY <1>1, <1>2, <1>4, <1>6, <1>7, <1>8
     DEF TablesInv, DefsTypeOK, DefsInv, Onward, FamilyInv, OneInv, ToolsInv, Offers, TemplateInv, Unwritten, Current
<1>10. ASSUME NEW c \in Callers PROVE Good(call[c])'
  <2>1. PICK r : r = call[c]
    OBVIOUS
  <2>2. Good(r)
    BY <2>1, RequestsAre
  <2>3. Unwritten' => Unwritten
    BY <1>1, <1>4 DEF Unwritten
  <2>4. Good(r)'
    BY <1>1, <1>5, <1>7, <2>2, <2>3, GoodFrame
  <2> QED
    BY <1>1, <2>1, <2>4
<1> QED
  BY <1>6, <1>9, <1>10, DefsInvNext DEF DefsTypeOK

(* The server starts well.                                                  *)
LEMMA DefsStart ==
  ASSUME Init
  PROVE  DefsInv
<1>1. /\ db = Stored.rows /\ mapping = Stored.mapping /\ registered = {} /\ torn = {} /\ crowded = {}
      /\ cache = [k \in Kinds |-> [known |-> FALSE, rows |-> [key \in Keys[k] |-> None]]]
      /\ reading = [k \in Kinds |-> [at |-> "no", rows |-> [key \in Keys[k] |-> None]]]
      /\ template = [a \in Agents |-> Blank]
      /\ lastId = Cardinality({p \in PromptIds : Stored.rows.prompt[p] # None})
  BY DEF Init
<1>2. PICK agendas \in Workloads : call = [c \in Callers |-> [NoCall EXCEPT !.agenda = agendas[c]]]
  BY DEF Init
<1>3. \A c \in Callers : /\ call[c] \in CallType /\ call[c].at = "idle" /\ call[c].req = None
  <2> SUFFICES ASSUME NEW c \in Callers PROVE call[c] \in CallType /\ call[c].at = "idle" /\ call[c].req = None
    OBVIOUS
  <2>1. agendas[c] \in Seq(Jobs)
    BY DefinitionsAssumption
  <2>2. <<>> \in Seq(Requests) /\ "idle" \in Places
    BY DEF Places
  <2> QED
    BY <1>2, <2>1, <2>2 DEF NoCall, CallType
<1>4. /\ db = [k \in Kinds |-> db[k]] /\ \A k \in Kinds : db[k] \in Tables(k)
      /\ \A a \in Agents : db.agent[a] # None => mapping[a] # None
      /\ mapping \in [Agents -> Families \cup {None}]
      /\ \A p \in PromptIds : db.prompt[p] # None => db.prompt[p].suits
  BY <1>1, DefinitionsAssumption
<1>5. PICK n \in 0 .. MaxPrompts : \A p \in PromptIds : db.prompt[p] # None <=> p <= n
  BY <1>1, DefinitionsAssumption
<1>6. lastId = n
  <2>1. {p \in PromptIds : Stored.rows.prompt[p] # None} = 1 .. n
    <3>1. MaxPrompts \in Nat /\ n \in Nat /\ n <= MaxPrompts
      BY DefinitionsAssumption
    <3>2. \A p \in PromptIds : Stored.rows.prompt[p] # None <=> p <= n
      BY <1>1, <1>5
    <3> QED
      BY <3>1, <3>2 DEF PromptIds
  <2>2. Cardinality(1 .. n) = n
    <3>1. n \in Nat
      BY DefinitionsAssumption
    <3> QED
      BY <3>1, FS_Interval
  <2> QED
    BY <1>1, <2>1, <2>2
<1>7. TablesOK /\ \A k \in Kinds : /\ ~cache[k].known /\ reading[k].at = "no"
                                   /\ \A key \in Keys[k] : cache[k].rows[key] = None /\ reading[k].rows[key] = None
  <2>1. PICK none : none = [k \in Kinds |-> [key \in Keys[k] |-> None]]
    OBVIOUS
  <2>2. \A k \in Kinds : none[k] \in Tables(k) /\ none[k] \in AnyTable /\ \A key \in Keys[k] : none[k][key] = None
    BY <2>1, NoRows, TableOfKind
  <2>3. \A k \in Kinds : none[k] = [key \in Keys[k] |-> None]
    BY <2>1
  <2>4. /\ cache = [k \in Kinds |-> [known |-> FALSE, rows |-> none[k]]]
        /\ reading = [k \in Kinds |-> [at |-> "no", rows |-> none[k]]]
    BY <1>1, <2>3
  <2>5. /\ cache \in [Kinds -> [known : BOOLEAN, rows : AnyTable]]
        /\ \A k \in Kinds : cache[k].known = FALSE /\ cache[k].rows = none[k]
    BY <2>2, <2>4
  <2>6. /\ reading \in [Kinds -> [at : {"no", "reading", "broken"}, rows : AnyTable]]
        /\ \A k \in Kinds : reading[k].at = "no" /\ reading[k].rows = none[k]
    BY <2>2, <2>4
  <2>7. db \in [Kinds -> AnyTable]
    BY <1>4, TableOfKind
  <2> QED
    BY <1>4, <2>2, <2>5, <2>6, <2>7 DEF TablesOK
<1>8. CacheInv
  BY <1>7 DEF CacheInv
<1>9. \A p \in PromptIds : \A f \in Families : Has(p, f) => OfFamily(db.prompt[p], f)
  <2> SUFFICES ASSUME NEW p \in PromptIds, NEW f \in Families, Has(p, f) PROVE OfFamily(db.prompt[p], f)
    OBVIOUS
  <2>1. cache.prompt.rows[p] = None /\ reading.prompt.rows[p] = None
    BY <1>7, TablesAre, FourKeys
  <2>2. \A c \in Callers : ~Copies(call[c], p, f)
    BY <1>3 DEF Copies
  <2> QED
    BY <2>1, <2>2 DEF Has, OfFamily
<1>10. CopiesInv
  BY <1>5, <1>6, <1>9 DEF CopiesInv, OfFamily
<1>11. SuitsInv /\ AgentInv
  BY <1>4 DEF SuitsInv, AgentInv
<1>12. \A c \in Callers : Touched(call[c]) = {}
  BY <1>3 DEF Touched
<1>13. CrowdInv
  BY <1>3, <1>12 DEF CrowdInv
<1>14. OneInv
  <2> SUFFICES ASSUME NEW f \in Families, NEW p \in ActiveOf(f), NEW q \in ActiveOf(f) PROVE p = q
    BY DEF OneInv
  <2>1. /\ p \in PromptIds /\ db.prompt[p] # None /\ db.prompt[p].family = f /\ db.prompt[p].active
        /\ q \in PromptIds /\ db.prompt[q] # None /\ db.prompt[q].family = f /\ db.prompt[q].active
    BY DEF ActiveOf
  <2> QED
    BY <1>1, <2>1, DefinitionsAssumption
<1>15. /\ template \in [Agents -> [known : BOOLEAN, text : Phrases, stale : BOOLEAN]]
       /\ \A a \in Agents : Current(a)
  <2>1. Blank \in [known : BOOLEAN, text : Phrases, stale : BOOLEAN] /\ ~Blank.known
    BY DEF Blank, Phrases
  <2> QED
    BY <1>1, <2>1 DEF Current
<1>16. lastId \in 0 .. MaxPrompts
  BY <1>6
<1>17. TablesInv
  BY <1>1, <1>4, <1>7, <1>8, <1>10, <1>11, <1>13, <1>14, <1>15, <1>16 DEF TablesInv
<1>18. \A c \in Callers : Good(call[c])
  BY <1>3 DEF Good, Placed, Informed, Tools, Writer, Marker, Found
<1>19. call \in [Callers -> CallType]
  <2>1. call = [c \in Callers |-> call[c]]
    BY <1>2
  <2> QED
    BY <1>3, <2>1
<1> QED
  BY <1>17, <1>18, <1>19, DefsInvIs

(* The invariant holds in every state.                                      *)
THEOREM DefsInvariance == Spec => []DefsInv
<1>1. Init => DefsInv
  BY DefsStart
<1>2. DefsInv /\ [Next]_vars => DefsInv'
  BY StepsKeepDefs, NothingKeepsDefs
<1> QED
  BY <1>1, <1>2, PTL DEF Spec

(* A populated cache holds the rows of the database, except the rows an     *)
(* update has changed in the cache and not yet, or not, in the database,    *)
(* and those written while the cache was being read.                        *)
THEOREM CachesFollowDatabase == Spec => []CacheIsDatabase
<1>1. DefsInv => CacheIsDatabase
  BY DEF DefsInv, CacheInv, CacheIsDatabase, Changing, Changes, InFlight
<1> QED
  BY <1>1, DefsInvariance, PTL

(* A family has one active prompt at most, unless two calls worked on it at *)
(* once, one set the activity of a single prompt, or a prompt is torn.      *)
THEOREM FamiliesHaveOneActive == Spec => []OneActivePerFamily
<1>1. ASSUME DefsInv PROVE OneActivePerFamily
  <2> SUFFICES ASSUME NEW p \in PromptIds, NEW q \in PromptIds, NEW f, f = db.prompt[p].family,
                      p # q, db.prompt[p] # None, db.prompt[q] # None,
                      f = db.prompt[q].family, db.prompt[p].active, db.prompt[q].active
               PROVE  f \in crowded \/ \E r \in PromptIds : <<"prompt", r>> \in torn
    BY DEF OneActivePerFamily
  <2>1. f \in Families
    <3>1. db.prompt[p] \in PromptRows
      BY <1>1, TablesAre DEF DefsInv, DefsTypeOK
    <3> QED
      BY <3>1 DEF PromptRows
  <2>2. p \in ActiveOf(f) /\ q \in ActiveOf(f)
    BY DEF ActiveOf
  <2> QED
    <3>1. OneInv
      BY <1>1 DEF DefsInv, FamilyInv
    <3>2. ~Calm(f)
      BY <2>1, <2>2, <3>1 DEF OneInv
    <3> QED
      BY <3>2 DEF Calm
<1> QED
  BY <1>1, DefsInvariance, PTL

(* An agent has its prompt: only an agent that is being created or deleted, *)
(* whose removal the database refused, or whose creation or removal a       *)
(* restart cut in two, is without a mapping.                                *)
THEOREM AgentsHavePrompts == Spec => []AgentHasPrompt
<1>1. DefsInv => AgentHasPrompt
  BY DEF DefsInv, AgentInv, AgentHasPrompt, Excuses, Req
<1> QED
  BY <1>1, DefsInvariance, PTL

(* The template the loader keeps for an agent is what the agent's family    *)
(* says in the database, once no prompt is being written; except one that a *)
(* change had overtaken, and one of an agent that was given another family. *)
THEOREM TemplatesAreCurrent == Spec => []TemplateIsCurrent
<1>1. ASSUME DefsInv PROVE TemplateIsCurrent
  <2>1. ASSUME torn = {}, \A c \in Callers : call[c].at = "write" => call[c].write.kind # "prompt"
        PROVE  \A a \in Agents : Current(a)
    <3>1. Unwritten
      BY <2>1 DEF Unwritten, Changing, Changes
    <3>2. TemplateInv
      BY <1>1 DEF DefsInv
    <3> QED
      BY <3>1, <3>2 DEF TemplateInv
  <2> SUFFICES ASSUME NEW a \in Agents, template[a].known, ~template[a].stale, db.agent[a] # None, mapping[a] # None,
                      torn = {}, \A c \in Callers : call[c].at = "write" => call[c].write.kind # "prompt"
               PROVE  IF ActiveOf(mapping[a]) = {} THEN template[a].text = None
                      ELSE template[a].text \in {db.prompt[p].text : p \in ActiveOf(mapping[a])}
    BY DEF TemplateIsCurrent, ActiveOf
  <2> QED
    BY <2>1 DEF Current
<1> QED
  BY <1>1, DefsInvariance, PTL

(* Tools are registered for configured, enabled servers only, unless two    *)
(* calls worked on the server at once or its row was torn.                  *)
THEOREM ToolsAreOfEnabledServers == Spec => []ToolsOfEnabledServers
<1>1. DefsInv => ToolsOfEnabledServers
  BY DEF DefsInv, ToolsInv, Offers, ToolsOfEnabledServers
<1> QED
  BY <1>1, DefsInvariance, PTL

(* What the services keep, whatever they are asked, is of its type.         *)
THEOREM DefsTypeCorrect == Spec => []DefsTypeOK
<1>1. DefsInv => DefsTypeOK
  BY DEF DefsInv
<1> QED
  BY <1>1, DefsInvariance, PTL

-----------------------------------------------------------------------------
(* Skills: folders and lists                                                *)

(* what the skills' service keeps is of its type                            *)
SkillTypeOK ==
  /\ folder \in [Directories -> [SkillNames -> Folders \cup {Absent}]]
  /\ mounted \subseteq Sources /\ sources \subseteq Sources /\ sourcesFile \subseteq Sources
  /\ disabled \subseteq SkillNames /\ disabledFile \subseteq SkillNames
  /\ asked \in [disabled : SUBSET SkillNames, sources : SUBSET Sources]
  /\ spoilt \in [folders : SUBSET (Directories \X SkillNames), lists : SUBSET {"disabled", "sources"},
                 dropped : SUBSET Sources]

(* a list whose last save did not fail is what its file says                *)
FilesFollow ==
  /\ "disabled" \notin spoilt.lists => disabledFile = disabled
  /\ "sources" \notin spoilt.lists => sourcesFile = sources

SkillInv == SkillTypeOK /\ SkillsAreWhole /\ FilesFollow /\ SettingsSurvive

(* a folder may be made, changed or removed                                 *)
Settings == <<mounted, sources, sourcesFile, disabled, disabledFile, asked>>
PutFolder(d, k, what, marked) ==
  /\ folder' = [folder EXCEPT ![d][k] = what]
  /\ spoilt' = [spoilt EXCEPT !.folders = marked]
  /\ UNCHANGED Settings

(* A folder that is written is whole or marked as spoilt, and no other is   *)
(* touched.                                                                 *)
LEMMA FolderStep ==
  ASSUME SkillInv, NEW d \in Directories, NEW k \in SkillNames, NEW what \in Folders \cup {Absent},
         NEW marked \in SUBSET (Directories \X SkillNames), spoilt.folders \ {<<d, k>>} \subseteq marked,
         what = Absent \/ <<d, k>> \in marked \/ Intact(d, what), PutFolder(d, k, what, marked)
  PROVE  SkillInv'
<1>1. SkillTypeOK /\ SkillsAreWhole /\ FilesFollow /\ SettingsSurvive
  BY DEF SkillInv
<1>2. /\ folder' = [folder EXCEPT ![d][k] = what]
      /\ spoilt' = [spoilt EXCEPT !.folders = marked]
      /\ UNCHANGED Settings
  BY DEF PutFolder
<1>3. /\ spoilt'.folders = marked /\ spoilt'.lists = spoilt.lists /\ spoilt'.dropped = spoilt.dropped
      /\ spoilt' \in [folders : SUBSET (Directories \X SkillNames), lists : SUBSET {"disabled", "sources"},
                      dropped : SUBSET Sources]
  BY <1>1, <1>2 DEF SkillTypeOK
<1>4. folder' \in [Directories -> [SkillNames -> Folders \cup {Absent}]]
  BY <1>1, <1>2 DEF SkillTypeOK
<1>5. SkillTypeOK'
  BY <1>1, <1>2, <1>3, <1>4 DEF SkillTypeOK, Settings
<1>6. SkillsAreWhole'
  <2> SUFFICES ASSUME NEW e \in Directories, NEW n \in SkillNames, folder'[e][n] # Absent,
                      <<e, n>> \notin spoilt'.folders
               PROVE  Intact(e, folder'[e][n])
    BY DEF SkillsAreWhole
  <2>1. CASE e = d /\ n = k
    <3>1. folder'[e][n] = what
      BY <1>1, <1>2, <2>1 DEF SkillTypeOK
    <3> QED
      BY <1>3, <2>1, <3>1
  <2>2. CASE ~(e = d /\ n = k)
    <3>1. folder'[e][n] = folder[e][n]
      BY <1>1, <1>2, <2>2 DEF SkillTypeOK
    <3>2. <<e, n>> \notin spoilt.folders
      BY <1>3, <2>2
    <3> QED
      BY <1>1, <3>1, <3>2 DEF SkillsAreWhole
  <2> QED
    BY <2>1, <2>2
<1>7. FilesFollow' /\ SettingsSurvive'
  BY <1>1, <1>2, <1>3 DEF FilesFollow, SettingsSurvive, Settings
<1> QED
  BY <1>5, <1>6, <1>7 DEF SkillInv

(* A skill that is used has a folder with a manifest that loads.            *)
LEMMA UsableIsThere ==
  ASSUME SkillTypeOK, NEW d \in Directories, NEW k \in SkillNames, Usable(d, k)
  PROVE  /\ folder[d][k] \in Folders /\ folder[d][k] # Absent
         /\ folder[d][k].doc \in Docs /\ folder[d][k].doc # Absent /\ Loads(folder[d][k].doc)
         /\ folder[d][k].git \in Repositories \cup {Absent}
<1>1. folder[d][k] # Absent /\ folder[d][k].doc # Absent /\ Loads(folder[d][k].doc)
  BY DEF Usable, Location
<1>2. folder[d][k] \in Folders \cup {Absent}
  BY DEF SkillTypeOK
<1> QED
  BY <1>1, <1>2 DEF Folders

(* the marks after a folder was written: sound, or spoilt                   *)
LEMMA SpoilMarks ==
  ASSUME SkillTypeOK, NEW d \in Directories, NEW k \in SkillNames, NEW sound \in BOOLEAN, Spoil(d, k, sound)
  PROVE  \E marked \in SUBSET (Directories \X SkillNames) :
           /\ spoilt' = [spoilt EXCEPT !.folders = marked]
           /\ spoilt.folders \subseteq marked
           /\ ~sound => <<d, k>> \in marked
<1> DEFINE marked == IF sound THEN spoilt.folders ELSE spoilt.folders \cup {<<d, k>>}
<1>1. marked \in SUBSET (Directories \X SkillNames)
  BY DEF SkillTypeOK
<1>2. spoilt' = [spoilt EXCEPT !.folders = marked]
  BY DEF Spoil
<1> QED
  BY <1>1, <1>2

(* A folder is written and, unless that is sound, marked.                   *)
LEMMA WriteStep ==
  ASSUME SkillInv, NEW d \in Directories, NEW k \in SkillNames, NEW what \in Folders \cup {Absent},
         NEW sound \in BOOLEAN, Put(d, k, what), Spoil(d, k, sound), UNCHANGED Settings,
         sound => what = Absent \/ <<d, k>> \in spoilt.folders \/ Intact(d, what)
  PROVE  SkillInv'
<1>1. PICK marked \in SUBSET (Directories \X SkillNames) :
           /\ spoilt' = [spoilt EXCEPT !.folders = marked]
           /\ spoilt.folders \subseteq marked
           /\ ~sound => <<d, k>> \in marked
  BY SpoilMarks DEF SkillInv
<1>2. PutFolder(d, k, what, marked)
  BY <1>1 DEF PutFolder, Put
<1> HIDE DEF PutFolder
<1>3. what = Absent \/ <<d, k>> \in marked \/ Intact(d, what)
  BY <1>1
<1> QED
  BY <1>1, <1>2, <1>3, FolderStep

LEMMA Manifests ==
  ASSUME NEW fit \in {"well", "broken"}, NEW text \in {"new", "ruled", "short"}
  PROVE  /\ Manifest(fit, text) \in Docs /\ Manifest(fit, text) # Absent
         /\ fit = "well" => Loads(Manifest(fit, text))
  BY SkillsAssumption DEF Manifest, Docs, Loads

(* The repository with a first version has one.                             *)
LEMMA FirstVersions ==
  ASSUME NEW doc \in Docs
  PROVE  /\ FirstVersion(doc) \in Repositories /\ FirstVersion(doc) # Absent
         /\ \E tag \in Tags : FirstVersion(doc).saved[tag] # Absent
<1>1. NoRepository.saved \in [Tags -> Docs \cup {Absent}]
  BY DEF NoRepository
<1>2. /\ [NoRepository.saved EXCEPT ![FirstTag] = doc] \in [Tags -> Docs \cup {Absent}]
      /\ [NoRepository.saved EXCEPT ![FirstTag] = doc][FirstTag] = doc
  BY <1>1, SkillsAssumption
<1>3. doc # Absent
  BY SkillsAssumption
<1>4. FirstVersion(doc) \in Repositories /\ FirstVersion(doc).saved[FirstTag] = doc
  BY <1>2 DEF FirstVersion, Repositories
<1> QED
  BY <1>3, <1>4, SkillsAssumption

(* Creating a skill.                                                        *)
LEMMA CreateStep ==
  ASSUME SkillInv, NEW k \in SkillNames, NEW fit \in {"well", "broken"}, NEW text \in {"new", "ruled"},
         NEW failed \in BOOLEAN, Create(k, fit, text, failed)
  PROVE  SkillInv'
<1> DEFINE doc == Manifest(fit, text)
           new == [doc |-> doc, git |-> FirstVersion(doc)]
           what == IF failed THEN Absent ELSE new
           sound == fit = "well" \/ failed
<1>1. Default \in Directories
  BY DEF Directories
<1>2. /\ doc \in Docs /\ doc # Absent /\ (fit = "well" => Loads(doc))
      /\ FirstVersion(doc) \in Repositories /\ FirstVersion(doc) # Absent
      /\ \E tag \in Tags : FirstVersion(doc).saved[tag] # Absent
  BY Manifests, FirstVersions
<1>3. new \in Folders /\ (fit = "well" => Intact(Default, new))
  BY <1>2 DEF Folders, Intact
<1>4. Put(Default, k, what) /\ Spoil(Default, k, sound) /\ UNCHANGED Settings
  BY DEF Create, Settings
<1>5. what \in Folders \cup {Absent} /\ sound \in BOOLEAN
  BY <1>3
<1>6. sound => what = Absent \/ Intact(Default, what)
  BY <1>3
<1> HIDE DEF what, sound
<1> QED
  BY <1>1, <1>4, <1>5, <1>6, WriteStep

(* A manifest is replaced: what it has been before is still the rest of the *)
(* folder.                                                                  *)
LEMMA ManifestStep ==
  ASSUME SkillInv, NEW d \in Directories, NEW k \in SkillNames, Usable(d, k),
         NEW doc \in Docs \cup {Absent}, NEW sound \in BOOLEAN,
         Put(d, k, [folder[d][k] EXCEPT !.doc = doc]), Spoil(d, k, sound), UNCHANGED Settings,
         sound => doc # Absent /\ Loads(doc)
  PROVE  SkillInv'
<1> DEFINE what == [folder[d][k] EXCEPT !.doc = doc]
<1>1. folder[d][k] \in Folders /\ folder[d][k] # Absent
  BY UsableIsThere DEF SkillInv
<1>2. what \in Folders /\ what.doc = doc /\ what.git = folder[d][k].git
  BY <1>1 DEF Folders
<1>3. <<d, k>> \notin spoilt.folders => Intact(d, folder[d][k])
  BY <1>1 DEF SkillInv, SkillsAreWhole
<1>4. sound => <<d, k>> \in spoilt.folders \/ Intact(d, what)
  BY <1>2, <1>3 DEF Intact
<1> HIDE DEF what
<1>5. Put(d, k, what) /\ what \in Folders \cup {Absent}
  BY <1>2 DEF what
<1> QED
  BY <1>4, <1>5, WriteStep

(* The git side of a folder is replaced.                                    *)
LEMMA RepositoryStep ==
  ASSUME SkillInv, NEW d \in Directories, NEW k \in SkillNames, Usable(d, k),
         NEW git \in Repositories, NEW sound \in BOOLEAN, SetGit(d, k, git), Spoil(d, k, sound),
         sound => \E tag \in Tags : git.saved[tag] # Absent
  PROVE  SkillInv'
<1> DEFINE what == [folder[d][k] EXCEPT !.git = git]
<1>1. folder[d][k] \in Folders /\ folder[d][k] # Absent /\ folder[d][k].doc # Absent /\ Loads(folder[d][k].doc)
  BY UsableIsThere DEF SkillInv
<1>2. what \in Folders /\ what.doc = folder[d][k].doc /\ what.git = git
  BY <1>1 DEF Folders
<1>3. git # Absent
  BY SkillsAssumption
<1>4. sound => Intact(d, what)
  BY <1>1, <1>2, <1>3 DEF Intact
<1>5. Put(d, k, what) /\ UNCHANGED Settings /\ what \in Folders \cup {Absent}
  BY <1>2 DEF SetGit, Settings
<1> HIDE DEF what
<1> QED
  BY <1>4, <1>5, WriteStep

(* Deleting a skill.                                                        *)
LEMMA RemoveStep ==
  ASSUME SkillInv, NEW d \in Directories, NEW k \in SkillNames, Remove(d, k)
  PROVE  SkillInv'
<1> DEFINE marked == spoilt.folders \ {<<d, k>>}
<1>1. marked \in SUBSET (Directories \X SkillNames)
  BY DEF SkillInv, SkillTypeOK
<1>2. PutFolder(d, k, Absent, marked)
  BY DEF Remove, Put, PutFolder, Settings
<1> HIDE DEF PutFolder
<1> QED
  BY <1>1, <1>2, FolderStep

(* Edits of a skill: its manifest is given, uploaded, deleted or taken from *)
(* a version.                                                               *)
LEMMA EditStep ==
  ASSUME SkillInv, SkillEdit
  PROVE  SkillInv'
<1>1. CASE SkillRead
  BY <1>1 DEF SkillRead, skillVars, SkillInv, SkillTypeOK, SkillsAreWhole, FilesFollow, SettingsSurvive
<1>2. ASSUME NEW k \in SkillNames, NEW d \in Directories, NEW text \in {"new", Absent},
             NEW fit \in {"well", "broken"}, Update(d, k, fit, text)
      PROVE  SkillInv'
  <2> DEFINE body == IF text = Absent THEN Loaded(folder[d][k].doc.text) ELSE text
             doc == Manifest(fit, body)
             sound == fit = "well"
  <2>1. Usable(d, k) /\ Put(d, k, [folder[d][k] EXCEPT !.doc = doc]) /\ Spoil(d, k, sound) /\ UNCHANGED Settings
    BY <1>2 DEF Update, Writable, Settings
  <2>2. folder[d][k].doc \in Docs
    BY <2>1, UsableIsThere DEF SkillInv
  <2>3. body \in {"new", "ruled", "short"}
    BY <2>2 DEF Docs, Loaded
  <2>4. doc \in Docs /\ doc # Absent /\ (sound => Loads(doc))
    BY <2>3, Manifests
  <2> HIDE DEF doc, sound
  <2>5. sound \in BOOLEAN
    BY DEF sound
  <2> QED
    BY <2>1, <2>4, <2>5, ManifestStep
<1>3. ASSUME NEW k \in SkillNames, NEW d \in Directories, NEW fit \in {"well", "broken"}, Upload(d, k, fit, "ruled")
      PROVE  SkillInv'
  <2> DEFINE doc == Manifest(fit, "ruled")
             sound == fit = "well"
  <2>1. Usable(d, k) /\ Put(d, k, [folder[d][k] EXCEPT !.doc = doc]) /\ Spoil(d, k, sound) /\ UNCHANGED Settings
    BY <1>3 DEF Upload, Writable, Settings
  <2>2. doc \in Docs /\ doc # Absent /\ (sound => Loads(doc))
    BY Manifests
  <2> HIDE DEF doc, sound
  <2>3. sound \in BOOLEAN
    BY DEF sound
  <2> QED
    BY <2>1, <2>2, <2>3, ManifestStep
<1>4. ASSUME NEW k \in SkillNames, NEW d \in Directories, DeleteFile(d, k)
      PROVE  SkillInv'
  <2>1. /\ Usable(d, k) /\ Put(d, k, [folder[d][k] EXCEPT !.doc = Absent]) /\ Spoil(d, k, FALSE)
        /\ UNCHANGED Settings
    BY <1>4 DEF DeleteFile, Writable, Settings
  <2> QED
    BY <2>1, ManifestStep
<1>5. ASSUME NEW k \in SkillNames, NEW d \in Directories, NEW tag \in Tags, ActivateVersion(d, k, tag)
      PROVE  SkillInv'
  <2> DEFINE doc == folder[d][k].git.saved[tag]
             what == [folder[d][k] EXCEPT !.doc = doc, !.git.head = doc]
             sound == Loads(doc)
  <2>1. Usable(d, k) /\ folder[d][k].git # Absent /\ doc # Absent
    BY <1>5 DEF ActivateVersion
  <2>2. folder[d][k] \in Folders /\ folder[d][k].git \in Repositories
    BY <2>1, UsableIsThere DEF SkillInv
  <2>3. doc \in Docs
    BY <2>1, <2>2 DEF Repositories
  <2>4. /\ what \in Folders /\ what.doc = doc /\ what.git # Absent
        /\ what.git.saved = folder[d][k].git.saved
    BY <2>2, <2>3, SkillsAssumption DEF Folders, Repositories
  <2>5. sound => Intact(d, what)
    BY <2>1, <2>4 DEF Intact
  <2>6. Put(d, k, what) /\ Spoil(d, k, sound) /\ UNCHANGED Settings
    BY <1>5 DEF ActivateVersion, Settings
  <2>7. sound \in BOOLEAN /\ what \in Folders \cup {Absent}
    BY <2>4 DEF Loads
  <2> HIDE DEF what, sound
  <2> QED
    BY <2>5, <2>6, <2>7, WriteStep
<1> QED
  BY <1>1, <1>2, <1>3, <1>4, <1>5, RemoveStep DEF SkillEdit

(* Making a repository and the versions in it.                              *)
LEMMA VersioningStep ==
  ASSUME SkillInv, NEW d \in Directories, NEW k \in SkillNames, NEW failed \in BOOLEAN,
         EnableVersioning(d, k, failed)
  PROVE  SkillInv'
<1> DEFINE git == IF failed THEN NoRepository ELSE FirstVersion(folder[d][k].doc)
<1>1. Usable(d, k) /\ SetGit(d, k, git) /\ Spoil(d, k, ~failed)
  BY DEF EnableVersioning, Writable
<1>2. folder[d][k].doc \in Docs
  BY <1>1, UsableIsThere DEF SkillInv
<1>3. NoRepository \in Repositories
  BY DEF NoRepository, Repositories
<1>4. git \in Repositories /\ (~failed => \E tag \in Tags : git.saved[tag] # Absent)
  BY <1>2, <1>3, FirstVersions
<1> HIDE DEF git
<1> QED
  BY <1>1, <1>4, RepositoryStep

LEMMA VersionStep ==
  ASSUME SkillInv, NEW d \in Directories, NEW k \in SkillNames, NEW tag \in Tags, NEW failed \in BOOLEAN,
         CreateVersion(d, k, tag, failed)
  PROVE  SkillInv'
<1> DEFINE git == folder[d][k].git
           doc == folder[d][k].doc
           new == [git EXCEPT !.head = doc, !.saved[tag] = IF failed THEN @ ELSE doc]
           later == [git.saved EXCEPT ![tag] = IF failed THEN @ ELSE doc]
           what == [folder[d][k] EXCEPT !.git = new]
           marked == spoilt.folders
<1>1. Usable(d, k) /\ git # Absent /\ SetGit(d, k, new) /\ spoilt' = spoilt
  BY DEF CreateVersion
<1>2. folder[d][k] \in Folders /\ folder[d][k] # Absent /\ doc \in Docs /\ doc # Absent /\ git \in Repositories
  BY <1>1, UsableIsThere DEF SkillInv
<1>3. git = [saved |-> git.saved, head |-> git.head] /\ git.saved \in [Tags -> Docs \cup {Absent}]
  BY <1>2 DEF Repositories
<1>4. /\ later \in [Tags -> Docs \cup {Absent}]
      /\ \A t \in Tags : git.saved[t] # Absent => later[t] # Absent
  BY <1>2, <1>3
<1>5. new.saved = later /\ new.head = doc /\ new \in Repositories
  <2> HIDE DEF later
  <2>1. new = [git EXCEPT !.head = doc, !.saved = later]
    BY <1>2, <1>3 DEF later, Repositories
  <2> HIDE DEF new
  <2> QED
    BY <1>2, <1>4, <2>1 DEF Repositories
<1>6. new # Absent
  BY <1>5, SkillsAssumption
<1>7. what \in Folders /\ what.doc = doc /\ what.git = new
  BY <1>2, <1>5 DEF Folders
<1>8. <<d, k>> \notin spoilt.folders => Intact(d, folder[d][k])
  BY <1>2 DEF SkillInv, SkillsAreWhole
<1>9. <<d, k>> \notin spoilt.folders => Intact(d, what)
  <2> HIDE DEF new, what, later
  <2> QED
    BY <1>1, <1>2, <1>4, <1>5, <1>6, <1>7, <1>8 DEF Intact
<1>10. marked \in SUBSET (Directories \X SkillNames) /\ spoilt' = [spoilt EXCEPT !.folders = marked]
  BY <1>1 DEF SkillInv, SkillTypeOK
<1>11. PutFolder(d, k, what, marked)
  <2> HIDE DEF new
  <2> QED
    BY <1>1, <1>10 DEF SetGit, Put, PutFolder, Settings
<1> HIDE DEF what, PutFolder
<1> QED
  BY <1>7, <1>9, <1>10, <1>11, FolderStep

(* the list of the disabled skills changes, or the list of sources          *)
DisabledBecomes(list, file, lists, wanted) ==
  /\ disabled' = list /\ disabledFile' = file
  /\ asked' = [asked EXCEPT !.disabled = wanted]
  /\ spoilt' = [spoilt EXCEPT !.lists = lists]
  /\ UNCHANGED <<folder, mounted, sources, sourcesFile>>

LEMMA DisabledStep ==
  ASSUME SkillInv, NEW list \in SUBSET SkillNames, NEW file \in SUBSET SkillNames,
         NEW lists \in SUBSET {"disabled", "sources"}, DisabledBecomes(list, file, lists, list),
         "disabled" \notin lists => file = list, lists \ {"disabled"} = spoilt.lists \ {"disabled"}
  PROVE  SkillInv'
<1>1. SkillTypeOK /\ SkillsAreWhole /\ FilesFollow /\ SettingsSurvive
  BY DEF SkillInv
<1>2. /\ disabled' = list /\ disabledFile' = file /\ UNCHANGED <<folder, mounted, sources, sourcesFile>>
      /\ asked' = [asked EXCEPT !.disabled = list] /\ spoilt' = [spoilt EXCEPT !.lists = lists]
  BY DEF DisabledBecomes
<1>3. /\ asked' \in [disabled : SUBSET SkillNames, sources : SUBSET Sources]
      /\ asked'.disabled = list /\ asked'.sources = asked.sources
  BY <1>1, <1>2 DEF SkillTypeOK
<1>4. /\ spoilt' \in [folders : SUBSET (Directories \X SkillNames), lists : SUBSET {"disabled", "sources"},
                      dropped : SUBSET Sources]
      /\ spoilt'.lists = lists /\ spoilt'.folders = spoilt.folders /\ spoilt'.dropped = spoilt.dropped
  BY <1>1, <1>2 DEF SkillTypeOK
<1>5. SkillTypeOK'
  BY <1>1, <1>2, <1>3, <1>4 DEF SkillTypeOK
<1>6. SkillsAreWhole'
  BY <1>1, <1>2, <1>4 DEF SkillsAreWhole, Intact, Loads
<1>7. FilesFollow' /\ SettingsSurvive'
  BY <1>1, <1>2, <1>3, <1>4 DEF FilesFollow, SettingsSurvive
<1> QED
  BY <1>5, <1>6, <1>7 DEF SkillInv

(* Enabling and disabling: the list changes, and unless it was so already   *)
(* it is saved or marked as behind.                                         *)
LEMMA ListStep ==
  ASSUME SkillInv, NEW list \in SUBSET SkillNames, NEW failed \in BOOLEAN, disabled' = list,
         IF list = disabled THEN UNCHANGED <<disabledFile, spoilt>> ELSE SaveDisabled(failed),
         asked' = [asked EXCEPT !.disabled = list], UNCHANGED <<folder, mounted, sources, sourcesFile>>
  PROVE  SkillInv'
<1> DEFINE same == list = disabled
           file == IF same \/ failed THEN disabledFile ELSE list
           lists == IF same THEN spoilt.lists
                    ELSE IF failed THEN spoilt.lists \cup {"disabled"} ELSE spoilt.lists \ {"disabled"}
<1>1. SkillTypeOK /\ FilesFollow
  BY DEF SkillInv
<1>2. file \in SUBSET SkillNames /\ lists \in SUBSET {"disabled", "sources"}
  BY <1>1 DEF SkillTypeOK
<1>3. ("disabled" \notin lists => file = list) /\ lists \ {"disabled"} = spoilt.lists \ {"disabled"}
  BY <1>1 DEF FilesFollow
<1>4. disabledFile' = file /\ spoilt' = [spoilt EXCEPT !.lists = lists]
  <2>1. CASE same
    <3>1. spoilt = [spoilt EXCEPT !.lists = spoilt.lists]
      BY <1>1 DEF SkillTypeOK
    <3> QED
      BY <2>1, <3>1
  <2>2. CASE ~same
    <3>1. SaveDisabled(failed)
      BY <2>2
    <3> QED
      BY <2>2, <3>1 DEF SaveDisabled, Behind
  <2> QED
    BY <2>1, <2>2
<1>5. DisabledBecomes(list, file, lists, list)
  BY <1>4 DEF DisabledBecomes
<1> HIDE DEF file, lists, DisabledBecomes
<1> QED
  BY <1>2, <1>3, <1>5, DisabledStep

LEMMA AbleStep ==
  ASSUME SkillInv, NEW k \in SkillNames, NEW failed \in BOOLEAN, Disable(k, failed) \/ Enable(k, failed)
  PROVE  SkillInv'
<1>1. disabled \subseteq SkillNames /\ asked.disabled = disabled
  BY DEF SkillInv, SkillTypeOK, SettingsSurvive
<1>2. CASE Disable(k, failed)
  <2> DEFINE list == disabled \cup {k}
  <2>1. /\ disabled' = list /\ asked' = [asked EXCEPT !.disabled = list]
        /\ UNCHANGED <<folder, mounted, sources, sourcesFile>>
    BY <1>1, <1>2 DEF Disable
  <2>2. IF list = disabled THEN UNCHANGED <<disabledFile, spoilt>> ELSE SaveDisabled(failed)
    <3>1. list = disabled <=> k \in disabled
      OBVIOUS
    <3>2. IF k \in disabled THEN UNCHANGED <<disabledFile, spoilt>> ELSE SaveDisabled(failed)
      BY <1>2 DEF Disable
    <3> QED
      BY <3>1, <3>2
  <2>3. list \in SUBSET SkillNames
    BY <1>1
  <2> HIDE DEF list
  <2> QED
    BY <2>1, <2>2, <2>3, ListStep
<1>3. CASE Enable(k, failed)
  <2> DEFINE list == disabled \ {k}
  <2>1. /\ disabled' = list /\ asked' = [asked EXCEPT !.disabled = list]
        /\ UNCHANGED <<folder, mounted, sources, sourcesFile>>
    BY <1>1, <1>3 DEF Enable
  <2>2. IF list = disabled THEN UNCHANGED <<disabledFile, spoilt>> ELSE SaveDisabled(failed)
    <3>1. list = disabled <=> k \notin disabled
      OBVIOUS
    <3>2. IF k \notin disabled THEN UNCHANGED <<disabledFile, spoilt>> ELSE SaveDisabled(failed)
      BY <1>3 DEF Enable
    <3> QED
      BY <3>1, <3>2
  <2>3. list \in SUBSET SkillNames
    BY <1>1
  <2> HIDE DEF list
  <2> QED
    BY <2>1, <2>2, <2>3, ListStep
<1> QED
  BY <1>2, <1>3

(* The list of sources changes, for one that was asked and without those    *)
(* that were lost.                                                          *)
LEMMA SourcesStep ==
  ASSUME SkillInv, NEW list \in SUBSET Sources, NEW failed \in BOOLEAN, NEW lost \in SUBSET Sources,
         NEW wanted \in SUBSET Sources, SetSources(list, failed, lost),
         asked' = [asked EXCEPT !.sources = wanted], list = wanted \ ((spoilt.dropped \ list) \cup lost)
  PROVE  SkillInv'
<1> DEFINE lists == IF failed THEN spoilt.lists \cup {"sources"} ELSE spoilt.lists \ {"sources"}
           dropped == (spoilt.dropped \ list) \cup lost
<1>1. SkillTypeOK /\ SkillsAreWhole /\ FilesFollow /\ SettingsSurvive
  BY DEF SkillInv
<1>2. /\ sources' = list /\ sourcesFile' = (IF failed THEN sourcesFile ELSE list)
      /\ UNCHANGED <<folder, mounted, disabled, disabledFile>>
  BY DEF SetSources
<1>3. /\ asked' \in [disabled : SUBSET SkillNames, sources : SUBSET Sources]
      /\ asked'.sources = wanted /\ asked'.disabled = asked.disabled
  BY <1>1 DEF SkillTypeOK
<1>4. lists \in SUBSET {"disabled", "sources"} /\ dropped \in SUBSET Sources
  BY <1>1 DEF SkillTypeOK
<1>5. spoilt' = [spoilt EXCEPT !.lists = lists, !.dropped = dropped]
  BY <1>1 DEF SetSources, Behind, SkillTypeOK
<1>6. /\ spoilt' \in [folders : SUBSET (Directories \X SkillNames), lists : SUBSET {"disabled", "sources"},
                      dropped : SUBSET Sources]
      /\ spoilt'.lists = lists /\ spoilt'.folders = spoilt.folders /\ spoilt'.dropped = dropped
  <2> HIDE DEF lists, dropped
  <2> QED
    BY <1>1, <1>4, <1>5 DEF SkillTypeOK
<1>7. SkillTypeOK'
  <2> HIDE DEF lists, dropped
  <2> QED
    BY <1>1, <1>2, <1>3, <1>6 DEF SkillTypeOK
<1>8. SkillsAreWhole'
  BY <1>1, <1>2, <1>6 DEF SkillsAreWhole, Intact, Loads
<1>9. FilesFollow' /\ SettingsSurvive'
  BY <1>1, <1>2, <1>3, <1>6 DEF FilesFollow, SettingsSurvive
<1> QED
  BY <1>7, <1>8, <1>9 DEF SkillInv

LEMMA SourceStep ==
  ASSUME SkillInv, NEW d \in Sources, NEW failed \in BOOLEAN, AddSource(d, failed) \/ RemoveSource(d, failed)
  PROVE  SkillInv'
<1>1. /\ mounted \subseteq Sources /\ sources \subseteq Sources /\ spoilt.dropped \subseteq Sources
      /\ asked.sources \subseteq Sources /\ sources = asked.sources \ spoilt.dropped
  BY DEF SkillInv, SkillTypeOK, SettingsSurvive
<1>2. CASE AddSource(d, failed)
  <2>1. /\ SetSources(sources \cup {d}, failed, {}) /\ asked' = [asked EXCEPT !.sources = asked.sources \cup {d}]
    BY <1>2 DEF AddSource
  <2>2. sources \cup {d} = (asked.sources \cup {d}) \ ((spoilt.dropped \ (sources \cup {d})) \cup {})
    BY <1>1
  <2>3. sources \cup {d} \in SUBSET Sources /\ asked.sources \cup {d} \in SUBSET Sources
    BY <1>1
  <2> QED
    BY <2>1, <2>2, <2>3, SourcesStep
<1>3. CASE RemoveSource(d, failed)
  <2> DEFINE list == Visible \ {d}
             lost == sources \ mounted
             wanted == asked.sources \ {d}
  <2>1. /\ SetSources(list, failed, lost) /\ asked' = [asked EXCEPT !.sources = wanted]
    BY <1>3 DEF RemoveSource
  <2>2. list = wanted \ ((spoilt.dropped \ list) \cup lost)
    BY <1>1 DEF Visible
  <2>3. list \in SUBSET Sources /\ wanted \in SUBSET Sources /\ lost \in SUBSET Sources
    BY <1>1 DEF Visible
  <2> HIDE DEF list, lost, wanted
  <2> QED
    BY <2>1, <2>2, <2>3, SourcesStep
<1> QED
  BY <1>2, <1>3

(* A source that vanishes or appears touches nothing the service keeps.     *)
LEMMA MountStep ==
  ASSUME SkillInv, NEW d \in Sources, Mount(d) \/ Unmount(d)
  PROVE  SkillInv'
<1>1. SkillTypeOK /\ SkillsAreWhole /\ FilesFollow /\ SettingsSurvive
  BY DEF SkillInv
<1>2. mounted' \subseteq Sources /\ UNCHANGED <<folder, sources, sourcesFile, disabled, disabledFile, asked, spoilt>>
  BY <1>1 DEF Mount, Unmount, SkillTypeOK
<1>3. SkillTypeOK' /\ SkillsAreWhole'
  BY <1>1, <1>2 DEF SkillTypeOK, SkillsAreWhole, Intact, Loads
<1>4. FilesFollow' /\ SettingsSurvive'
  BY <1>1, <1>2 DEF FilesFollow, SettingsSurvive
<1> QED
  BY <1>3, <1>4 DEF SkillInv

(* After a restart the lists are those of the files, and a folder that was  *)
(* being made is left half made.                                            *)
LEMMA SkillRestartStep ==
  ASSUME SkillInv, NEW begun \in SUBSET SkillNames, SkillRestart(begun)
  PROVE  SkillInv'
<1> DEFINE marked == spoilt.folders \cup {<<Default, k>> : k \in {n \in begun : folder[Default][n] = Absent}}
           dropped == IF "sources" \in spoilt.lists THEN {} ELSE spoilt.dropped
           halfOf(written, k) == [doc |-> IF k \in written THEN Manifest("well", "new") ELSE Absent, git |-> Absent]
<1>1. SkillTypeOK /\ SkillsAreWhole /\ FilesFollow /\ SettingsSurvive
  BY DEF SkillInv
<1>2. /\ disabled' = disabledFile /\ sources' = sourcesFile /\ UNCHANGED <<mounted, sourcesFile, disabledFile>>
      /\ asked' = [disabled |-> IF "disabled" \in spoilt.lists THEN disabledFile ELSE asked.disabled,
                   sources |-> IF "sources" \in spoilt.lists THEN sourcesFile ELSE asked.sources]
      /\ spoilt' = [spoilt EXCEPT !.lists = {}, !.dropped = dropped, !.folders = marked]
  BY DEF SkillRestart
<1>3. Default \in Directories
  BY DEF Directories
<1>4. marked \in SUBSET (Directories \X SkillNames) /\ dropped \in SUBSET Sources
  BY <1>1, <1>3 DEF SkillTypeOK
<1>5. /\ spoilt' \in [folders : SUBSET (Directories \X SkillNames), lists : SUBSET {"disabled", "sources"},
                      dropped : SUBSET Sources]
      /\ spoilt'.lists = {} /\ spoilt'.folders = marked /\ spoilt'.dropped = dropped
  <2> HIDE DEF marked, dropped
  <2> QED
    BY <1>1, <1>2, <1>4 DEF SkillTypeOK
<1>6. asked' \in [disabled : SUBSET SkillNames, sources : SUBSET Sources]
  BY <1>1, <1>2 DEF SkillTypeOK
<1>7. PICK written \in SUBSET begun :
        folder' = [folder EXCEPT ![Default] =
                     [k \in SkillNames |-> IF k \in begun /\ folder[Default][k] = Absent
                                           THEN halfOf(written, k) ELSE folder[Default][k]]]
  BY DEF SkillRestart
<1>8. \A k \in SkillNames : halfOf(written, k) \in Folders
  BY Manifests DEF Folders
<1>9. /\ \A d \in Directories, k \in SkillNames :
           folder'[d][k] = IF d = Default /\ k \in begun /\ folder[d][k] = Absent
                           THEN halfOf(written, k) ELSE folder[d][k]
      /\ folder' \in [Directories -> [SkillNames -> Folders \cup {Absent}]]
  <2> HIDE DEF halfOf
  <2>1. folder \in [Directories -> [SkillNames -> Folders \cup {Absent}]]
    BY <1>1 DEF SkillTypeOK
  <2> QED
    BY <1>3, <1>7, <1>8, <2>1
<1>10. SkillTypeOK'
  <2> HIDE DEF halfOf, marked, dropped
  <2> QED
    BY <1>1, <1>2, <1>5, <1>6, <1>9 DEF SkillTypeOK
<1>11. SkillsAreWhole'
  <2> SUFFICES ASSUME NEW d \in Directories, NEW k \in SkillNames, folder'[d][k] # Absent, <<d, k>> \notin marked
               PROVE  Intact(d, folder'[d][k])
    BY <1>5 DEF SkillsAreWhole
  <2>1. ~(d = Default /\ k \in begun /\ folder[d][k] = Absent) /\ <<d, k>> \notin spoilt.folders
    OBVIOUS
  <2>2. folder'[d][k] = folder[d][k]
    BY <1>9, <2>1
  <2> QED
    BY <1>1, <2>1, <2>2 DEF SkillsAreWhole
<1>12. FilesFollow' /\ SettingsSurvive'
  <2>1. asked'.disabled = (IF "disabled" \in spoilt.lists THEN disabledFile ELSE asked.disabled)
        /\ asked'.sources = (IF "sources" \in spoilt.lists THEN sourcesFile ELSE asked.sources)
    BY <1>2
  <2> HIDE DEF marked
  <2> QED
    BY <1>1, <1>2, <1>5, <2>1 DEF FilesFollow, SettingsSurvive
<1> QED
  BY <1>10, <1>11, <1>12 DEF SkillInv

LEMMA SkillInvStarts == SkillInit => SkillInv
<1> SUFFICES ASSUME SkillInit PROVE SkillInv
  OBVIOUS
<1>1. SkillTypeOK
  BY SkillsAssumption DEF SkillInit, SkillTypeOK
<1>2. SkillsAreWhole
  BY SkillsAssumption DEF SkillInit, SkillsAreWhole
<1>3. FilesFollow /\ SettingsSurvive
  BY DEF SkillInit, FilesFollow, SettingsSurvive
<1> QED
  BY <1>1, <1>2, <1>3 DEF SkillInv

LEMMA SkillInvStays == SkillInv /\ [SkillNext]_skillVars => SkillInv'
<1> SUFFICES ASSUME SkillInv, [SkillNext]_skillVars PROVE SkillInv'
  OBVIOUS
<1>1. CASE UNCHANGED skillVars
  BY <1>1, EditStep DEF SkillEdit, SkillRead
<1>2. ASSUME NEW failed \in BOOLEAN, SkillMutation(failed)
      PROVE  SkillInv'
  BY <1>2, CreateStep, AbleStep, VersioningStep, SourceStep DEF SkillMutation
<1>3. ASSUME NEW failed \in BOOLEAN, SkillTool(failed)
      PROVE  SkillInv'
  BY <1>3, VersionStep DEF SkillTool
<1> QED
  BY <1>1, <1>2, <1>3, EditStep, MountStep, SkillRestartStep DEF SkillNext

(* The invariant holds in every state.                                      *)
THEOREM SkillInvariance == SkillSpec => []SkillInv
<1> QED
  BY SkillInvStarts, SkillInvStays, PTL DEF SkillSpec

(* Folders, lists and files are of their types.                             *)
THEOREM SkillTypeCorrect == SkillSpec => []SkillTypeOK
<1>1. SkillInv => SkillTypeOK
  BY DEF SkillInv
<1> QED
  BY <1>1, SkillInvariance, PTL

(* A folder holds a skill that loads, with a repository that has a version, *)
(* unless it is among the spoilt.                                           *)
THEOREM SkillsStayWhole == SkillSpec => []SkillsAreWhole
<1>1. SkillInv => SkillsAreWhole
  BY DEF SkillInv
<1> QED
  BY <1>1, SkillInvariance, PTL

(* The disabled skills and the sources are those that were asked for, over  *)
(* restarts, but for what a file could not be told and what was dropped.    *)
THEOREM SettingsOutliveRestarts == SkillSpec => []SettingsSurvive
<1>1. SkillInv => SettingsSurvive
  BY DEF SkillInv
<1> QED
  BY <1>1, SkillInvariance, PTL

-----------------------------------------------------------------------------
(* Teams: the manifest keeps what was configured, the team of the host is   *)
(* built from it and from the definition, and what the worker was made to   *)
(* know of the definition agrees with the host's, until one is edited.      *)

BindingMeant(config) ==
  [name |-> config.name, key |-> config.key, id |-> config.id, model |-> config.model, root |-> PlaceMeant(config)]
RestoredConfigs == [i \in DOMAIN RuntimeConfigs |-> Restored(BindingMeant(RuntimeConfigs[i]))]

TeamTypeOK ==
  /\ dossier \in Dossiers
  /\ teamDefs = [n \in Nodes |-> [id \in TeamIds |-> teamDefs[n][id]]]
  /\ crew = [n \in Nodes |-> crew[n]]
  /\ opened = [n \in Nodes |-> opened[n]]
  /\ \A id \in Known(teamDefs[Host]) : Proper(teamDefs[Host][id])
  /\ \A id \in KnownIds : \A node \in teamDefs[Worker][id].nodes : IsNode(node)

ManifestOK ==
  IF record.made
  THEN record.team = dossier.team /\ record.bindings = [i \in DOMAIN RuntimeConfigs |-> BindingMeant(RuntimeConfigs[i])]
  ELSE opened[Host] = dossier.opened[Host]

HostCrewOK ==
  crew[Host] # Missing =>
    /\ record.made /\ crew[Host].team = dossier.team
    /\ crew[Host].configs = IF crew[Host].how.restored THEN RestoredConfigs ELSE RuntimeConfigs
    /\ "team" \notin edited =>
         \E known : crew[Host].members = Built(Host, teamDefs[Host], dossier.team, crew[Host].configs, known)

MappingOK ==
  mappedId # Missing =>
    /\ mappedId \in TeamIds
    /\ "mapping" \notin edited =>
         mappedId \in KnownIds /\ Signature(teamDefs[Worker][mappedId]) = Signature(teamDefs[Host][dossier.team])

TeamStaysKnown == record.made => dossier.team \in Known(teamDefs[Host])

MembersInv == TeamTypeOK /\ ManifestOK /\ TeamStaysKnown /\ HostCrewOK /\ MappingOK /\ MembersAsConfigured

(* What depends on nothing but the dossier stays with it.                   *)
LEMMA SameDossier ==
  ASSUME dossier' = dossier
  PROVE  /\ RuntimeConfigs' = RuntimeConfigs
         /\ \A c : PlaceMeant(c)' = PlaceMeant(c)
         /\ \A m : RightAtHost(m)' = RightAtHost(m)
         /\ \A m, w, r : RightAtWorker(m, w, r)' = RightAtWorker(m, w, r)
<1>1. RuntimeConfigs' = RuntimeConfigs
  BY DEF RuntimeConfigs, Runtime, Stated
<1>2. \A c : PlaceMeant(c)' = PlaceMeant(c)
  BY DEF PlaceMeant
<1>3. \A key : Own(key)' = Own(key)
  BY <1>1 DEF Own, Wanted
<1>4. \A key : Listed(RuntimeConfigs, NameOf(key))' = Listed(RuntimeConfigs, NameOf(key))
  BY <1>1 DEF Listed, NameOf
<1>5. \A key : Meant(key)' = Meant(key)
  BY <1>1, <1>3, <1>4 DEF Meant, Wanted
<1>6. \A key : Shadowed(key)' = Shadowed(key)
  BY <1>1, <1>3 DEF Shadowed, Wanted
<1>7. \A m : RightAtHost(m)' = RightAtHost(m)
  BY <1>2, <1>5, <1>6 DEF RightAtHost, Alike, Near
<1>8. \A m, w, r : RightAtWorker(m, w, r)' = RightAtWorker(m, w, r)
  BY <1>5, <1>6 DEF RightAtWorker
<1> QED
  BY <1>1, <1>2, <1>7, <1>8

LEMMA SameManifest ==
  ASSUME dossier' = dossier
  PROVE  /\ [i \in DOMAIN RuntimeConfigs |-> BindingMeant(RuntimeConfigs[i])]'
              = [i \in DOMAIN RuntimeConfigs |-> BindingMeant(RuntimeConfigs[i])]
         /\ RestoredConfigs' = RestoredConfigs
<1>1. \A c : BindingMeant(c)' = BindingMeant(c)
  BY SameDossier DEF BindingMeant
<1> QED
  BY <1>1, SameDossier DEF RestoredConfigs, Restored

LEMMA ConfigFacts ==
  ASSUME dossier \in Dossiers
  PROVE  /\ \E n \in Nat : DOMAIN RuntimeConfigs = 1 .. n
         /\ \A i \in DOMAIN RuntimeConfigs :
              /\ RuntimeConfigs[i].id # NoText /\ RuntimeConfigs[i].root # NoText
              /\ RuntimeConfigs[i].root # Missing => <<Host, RuntimeConfigs[i].root>> \notin {NoText, Missing}
              /\ RuntimeConfigs[i] = [name |-> RuntimeConfigs[i].name, key |-> RuntimeConfigs[i].key,
                                      id |-> RuntimeConfigs[i].id, model |-> RuntimeConfigs[i].model,
                                      place |-> RuntimeConfigs[i].place, root |-> RuntimeConfigs[i].root]
<1>1. /\ DOMAIN RuntimeConfigs = DOMAIN dossier.configs
      /\ \A i \in DOMAIN dossier.configs : RuntimeConfigs[i] = Runtime(dossier.configs[i])
  BY DEF RuntimeConfigs
<1>2. dossier.configs \in Seq({dossier.configs[i] : i \in DOMAIN dossier.configs})
  BY TeamMembersAssumption
<1>3. \E n \in Nat : DOMAIN dossier.configs = 1 .. n
  <2> DEFINE T == {dossier.configs[i] : i \in DOMAIN dossier.configs}
  <2>1. dossier.configs \in Seq(T)
    BY <1>2
  <2> HIDE DEF T
  <2> QED
    BY <2>1
<1>4. ASSUME NEW i \in DOMAIN RuntimeConfigs
      PROVE  /\ RuntimeConfigs[i].id # NoText /\ RuntimeConfigs[i].root # NoText
             /\ RuntimeConfigs[i].root # Missing => <<Host, RuntimeConfigs[i].root>> \notin {NoText, Missing}
             /\ RuntimeConfigs[i] = [name |-> RuntimeConfigs[i].name, key |-> RuntimeConfigs[i].key,
                                     id |-> RuntimeConfigs[i].id, model |-> RuntimeConfigs[i].model,
                                     place |-> RuntimeConfigs[i].place, root |-> RuntimeConfigs[i].root]
  <2> DEFINE c == dossier.configs[i]
  <2>1. IsConfig(c)
    BY <1>1, TeamMembersAssumption
  <2>2. RuntimeConfigs[i] = Runtime(c)
    BY <1>1
  <2> HIDE DEF c
  <2>3. Runtime(c).root = Stated(c.root)
    BY <2>1 DEF IsConfig, Runtime
  <2>4. Stated(c.root) # NoText /\ (Stated(c.root) # Missing => Stated(c.root) = c.root)
    BY TeamMembersAssumption DEF Stated
  <2>5. Runtime(c) = [name |-> Runtime(c).name, key |-> Runtime(c).key, id |-> Runtime(c).id,
                      model |-> Runtime(c).model, place |-> Runtime(c).place, root |-> Runtime(c).root]
    <3> DEFINE key == IF c.key = Missing THEN <<c.name>> ELSE c.key
               id == IF Stated(c.id) = Missing THEN <<"member", key>> ELSE c.id
               root == Stated(c.root)
    <3>1. c = [name |-> c.name, key |-> c.key, id |-> c.id, model |-> c.model, place |-> c.place, root |-> c.root]
      BY <2>1 DEF IsConfig
    <3>2. Runtime(c) = [c EXCEPT !.key = key, !.id = id, !.root = root]
      BY <3>1 DEF Runtime
    <3> HIDE DEF key, id, root
    <3>3. Runtime(c) = [name |-> c.name, key |-> key, id |-> id, model |-> c.model, place |-> c.place, root |-> root]
      BY <3>1, <3>2
    <3> QED
      BY <3>3
  <2>6. Runtime(c).id # NoText /\ <<Host, c.root>> \notin {NoText, Missing}
    BY <2>1 DEF IsConfig
  <2> QED
    BY <2>2, <2>3, <2>4, <2>5, <2>6
<1> QED
  BY <1>1, <1>3, <1>4

LEMMA LeastOf ==
  ASSUME NEW T \in SUBSET Nat, T # {}
  PROVE  \E n \in T : \A m \in T : n <= m
<1>1. PICK n \in T : \A m \in T : ~(<<m, n>> \in OpToRel(<, Nat))
  BY WFMin, NatLessThanWellFounded
<1>2. \A m \in T : ~(m < n)
  BY <1>1 DEF OpToRel
<1> QED
  BY <1>2

LEMMA LatestIs ==
  ASSUME NEW n \in Nat, NEW S \in SUBSET (1 .. n), S # {}
  PROVE  Latest(S) \in S /\ \A j \in S : j <= Latest(S)
<1> DEFINE T == {k \in 0 .. n : n - k \in S}
<1>1. PICK i \in S : TRUE
  OBVIOUS
<1>2. n - i \in T
  <2>1. i \in 1 .. n /\ n - i \in 0 .. n /\ n - (n - i) = i
    BY <1>1
  <2> QED
    BY <1>1, <2>1
<1>3. T \in SUBSET Nat
  OBVIOUS
<1>4. PICK k \in T : \A m \in T : k <= m
  <2> HIDE DEF T
  <2> QED
    BY <1>2, <1>3, LeastOf
<1>5. n - k \in S /\ k \in 0 .. n
  BY <1>4
<1>6. ASSUME NEW j \in S
      PROVE  j <= n - k
  <2>1. j \in 1 .. n
    OBVIOUS
  <2>2. n - j \in 0 .. n /\ n - (n - j) = j
    BY <2>1
  <2>3. n - j \in T
    BY <2>2
  <2>4. k <= n - j
    BY <1>4, <2>3
  <2> HIDE DEF T
  <2> QED
    BY <1>5, <2>1, <2>4
<1>7. \E x \in S : \A j \in S : j <= x
  <2> HIDE DEF T
  <2> QED
    BY <1>5, <1>6
<1> QED
  <2> HIDE DEF T
  <2> QED
    BY <1>7 DEF Latest

(* Configurations with the names and route keys of those that are wanted    *)
(* are found where those are found.                                         *)
NamedAlike(configs) ==
  /\ DOMAIN configs = DOMAIN RuntimeConfigs
  /\ \A i \in DOMAIN RuntimeConfigs : configs[i].name = RuntimeConfigs[i].name /\ configs[i].key = RuntimeConfigs[i].key

Candidates(key) == IF Listed(RuntimeConfigs, key) # {} THEN Listed(RuntimeConfigs, key)
                   ELSE Listed(RuntimeConfigs, NameOf(key))

LEMMA FoundAt ==
  ASSUME NEW configs, NamedAlike(configs), NEW key, NEW config
  PROVE  config \in ConfigFor(configs, key)
           <=> Candidates(key) # {} /\ config = configs[Latest(Candidates(key))]
<1>1. \A k : Listed(configs, k) = Listed(RuntimeConfigs, k)
  BY DEF NamedAlike, Listed
<1> QED
  BY <1>1 DEF ConfigFor, Candidates

LEMMA FoundIsMeant ==
  ASSUME dossier \in Dossiers, NEW key, Candidates(key) # {}
  PROVE  LET i == Latest(Candidates(key))
         IN  i \in DOMAIN RuntimeConfigs /\ (Shadowed(key) \/ RuntimeConfigs[i] \in Meant(key))
<1> DEFINE i == Latest(Candidates(key))
<1>1. PICK n \in Nat : DOMAIN RuntimeConfigs = 1 .. n
  BY ConfigFacts
<1>2. Candidates(key) \in SUBSET (1 .. n)
  BY <1>1 DEF Candidates, Listed
<1>3. i \in Candidates(key) /\ \A j \in Candidates(key) : j <= i
  BY <1>2, LatestIs
<1>4. i \in 1 .. n
  BY <1>2, <1>3
<1> HIDE DEF i
<1>5. CASE Own(key) = {}
  <2>1. Meant(key) = {RuntimeConfigs[j] : j \in Listed(RuntimeConfigs, NameOf(key))}
    BY <1>5 DEF Meant, Wanted
  <2>2. CASE Listed(RuntimeConfigs, key) = {}
    BY <1>1, <1>3, <1>4, <2>1, <2>2 DEF Candidates, i
  <2>3. CASE Listed(RuntimeConfigs, key) # {}
    <3>1. i \in Listed(RuntimeConfigs, key)
      BY <1>3, <2>3 DEF Candidates
    <3>2. key = <<RuntimeConfigs[i].name>>
      BY <1>1, <1>4, <1>5, <3>1 DEF Listed, Own, Wanted
    <3>3. NameOf(key) = key
      BY <3>2 DEF NameOf
    <3> QED
      BY <1>1, <1>4, <2>1, <3>1, <3>3 DEF i
  <2> QED
    BY <2>2, <2>3
<1>6. CASE Own(key) # {}
  <2>1. PICK j \in Own(key) : TRUE
    BY <1>6
  <2>2. Own(key) \subseteq Listed(RuntimeConfigs, key)
    BY DEF Own, Wanted, Listed
  <2>3. Candidates(key) = Listed(RuntimeConfigs, key)
    BY <1>6, <2>2 DEF Candidates
  <2>4. j <= i /\ j \in 1 .. n
    BY <1>1, <1>3, <2>1, <2>2, <2>3 DEF Own, Wanted
  <2>5. CASE i \in Own(key)
    BY <1>1, <1>4, <1>6, <2>5 DEF Meant, Wanted, i
  <2>6. CASE i \notin Own(key)
    <3>1. RuntimeConfigs[i].key # key
      BY <1>1, <1>4, <2>6 DEF Own, Wanted
    <3>2. <<RuntimeConfigs[i].name>> = key
      BY <1>3, <2>3, <3>1 DEF Listed
    <3>3. j # i
      BY <2>1, <2>6
    <3>4. j < i
      BY <1>4, <2>4, <3>3
    <3>5. Shadowed(key)
      BY <1>1, <1>4, <2>1, <3>1, <3>2, <3>4 DEF Shadowed, Wanted
    <3> QED
      BY <1>1, <1>4, <3>5 DEF i
  <2> QED
    BY <2>5, <2>6
<1> QED
  BY <1>5, <1>6 DEF i

LEMMA BuiltAt ==
  ASSUME NEW configs, NamedAlike(configs), NEW n, NEW defs, NEW team, NEW known, NEW m
  PROVE  m \in Built(n, defs, team, configs, known)
           <=> \E way \in Ways(defs, team) :
                 /\ NodeAt(way).kind # "team" /\ Candidates(KeyOf(way)) # {}
                 /\ m = Member(n, NodeAt(way), KeyOf(way), configs[Latest(Candidates(KeyOf(way)))], known)
<1> DEFINE BuiltOn(way) == {Member(n, NodeAt(way), KeyOf(way), config, known) : config \in ConfigFor(configs, KeyOf(way))}
           ending == {w \in Ways(defs, team) : NodeAt(w).kind # "team"}
<1>a. Built(n, defs, team, configs, known) = UNION {BuiltOn(way) : way \in ending}
  BY DEF Built
<1>b. m \in UNION {BuiltOn(way) : way \in ending} <=> \E way \in ending : m \in BuiltOn(way)
  <2> HIDE DEF BuiltOn, ending
  <2> QED
    OBVIOUS
<1>1. m \in Built(n, defs, team, configs, known)
        <=> \E way \in Ways(defs, team) : NodeAt(way).kind # "team" /\
              \E config \in ConfigFor(configs, KeyOf(way)) : m = Member(n, NodeAt(way), KeyOf(way), config, known)
  BY <1>a, <1>b
<1> QED
  BY <1>1, FoundAt

(* a member that is built from the configurations as the user made them     *)
LEMMA FreshIsRight ==
  ASSUME dossier \in Dossiers, NEW defs, NEW team,
         NEW m \in Built(Host, defs, team, RuntimeConfigs, dossier.opened[Host])
  PROVE  RightAtHost(m)
<1>1. NamedAlike(RuntimeConfigs)
  BY DEF NamedAlike
<1>2. PICK way \in Ways(defs, team) :
        /\ Candidates(KeyOf(way)) # {}
        /\ m = Member(Host, NodeAt(way), KeyOf(way), RuntimeConfigs[Latest(Candidates(KeyOf(way)))], dossier.opened[Host])
  BY <1>1, BuiltAt
<1> DEFINE i == Latest(Candidates(KeyOf(way)))
           c == RuntimeConfigs[i]
<1>3. i \in DOMAIN RuntimeConfigs /\ (Shadowed(KeyOf(way)) \/ c \in Meant(KeyOf(way)))
  BY <1>2, FoundIsMeant
<1>4. /\ m.key = KeyOf(way) /\ m.model = c.model /\ m.id = c.id /\ m.home = NodeAt(way).home
      /\ m.root = Workplace(Host, NodeAt(way).home, c, dossier.opened[Host])
  BY <1>2 DEF Member
<1>5. c.root # NoText
  BY <1>3, ConfigFacts
<1> HIDE DEF c
<1>6. \A r \in dossier.opened[Host] : <<Host, r>> \notin {NoText, Missing}
  BY TeamMembersAssumption
<1>7. m.root = PlaceMeant(c) \/ ~Near(m.home, Host) \/ (c.root # Missing /\ c.place # Missing)
  <2>1. CASE Stated(c.place) # Missing
    <3>1. c.place # Missing
      BY <2>1 DEF Stated
    <3> QED
      BY <1>4, <2>1, <3>1 DEF Workplace, PlaceMeant
  <2>2. CASE Stated(c.place) = Missing
    <3>1. c.place \in {NoText, Missing}
      BY <2>2 DEF Stated
    <3>2. c.place \notin {<<Host, r>> : r \in dossier.opened[Host]}
      BY <1>6, <3>1
    <3> QED
      BY <1>4, <2>2, <3>2 DEF Workplace, PlaceMeant
  <2> QED
    BY <2>1, <2>2
<1> QED
  BY <1>3, <1>4, <1>7 DEF RightAtHost, Alike

(* one that is built from the manifest, when its workspaces were opened     *)
LEMMA RestoredIsRight ==
  ASSUME dossier \in Dossiers, NEW defs, NEW team, NEW known,
         \A i \in DOMAIN RuntimeConfigs : PlaceMeant(RuntimeConfigs[i]) \in known \cup {Missing},
         NEW m \in Built(Host, defs, team, RestoredConfigs, known)
  PROVE  RightAtHost(m)
<1>1. NamedAlike(RestoredConfigs)
  BY DEF NamedAlike, RestoredConfigs, Restored, BindingMeant
<1>2. PICK way \in Ways(defs, team) :
        /\ Candidates(KeyOf(way)) # {}
        /\ m = Member(Host, NodeAt(way), KeyOf(way), RestoredConfigs[Latest(Candidates(KeyOf(way)))], known)
  BY <1>1, BuiltAt
<1> DEFINE i == Latest(Candidates(KeyOf(way)))
           c == RuntimeConfigs[i]
           b == Restored(BindingMeant(c))
<1>3. i \in DOMAIN RuntimeConfigs /\ (Shadowed(KeyOf(way)) \/ c \in Meant(KeyOf(way)))
  BY <1>2, FoundIsMeant
<1>4. RestoredConfigs[i] = b
  BY <1>3 DEF RestoredConfigs
<1>5. /\ m.key = KeyOf(way) /\ m.model = b.model /\ m.id = b.id /\ m.home = NodeAt(way).home
      /\ m.root = Workplace(Host, NodeAt(way).home, b, known)
  BY <1>2, <1>4 DEF Member
<1>6. PlaceMeant(c) \in known \cup {Missing}
  BY <1>3
<1>7. PlaceMeant(c) # Missing => <<Host, PlaceMeant(c)>> \notin {NoText, Missing}
  <2>1. c.root # Missing => <<Host, c.root>> \notin {NoText, Missing}
    BY <1>3, ConfigFacts
  <2>2. \A r \in dossier.opened[Host] : <<Host, r>> \notin {NoText, Missing}
    BY TeamMembersAssumption
  <2>3. CASE c.root # Missing
    BY <2>1, <2>3 DEF PlaceMeant
  <2>4. CASE c.root = Missing /\ c.place \in {<<Host, r>> : r \in dossier.opened[Host]}
    <3>1. PlaceMeant(c) = c.place[2]
      BY <2>4 DEF PlaceMeant
    <3> HIDE DEF c
    <3>2. PlaceMeant(c) \in dossier.opened[Host]
      BY <2>4, <3>1
    <3> QED
      BY <2>2, <3>2
  <2>5. CASE c.root = Missing /\ c.place \notin {<<Host, r>> : r \in dossier.opened[Host]}
    BY <2>5 DEF PlaceMeant
  <2> QED
    BY <2>3, <2>4, <2>5
<1>8. /\ b.model = c.model /\ b.id = c.id /\ b.root = Missing
      /\ b.place = IF PlaceMeant(c) = Missing THEN Missing ELSE <<Host, PlaceMeant(c)>>
  BY DEF Restored, BindingMeant
<1> HIDE DEF c, b
<1>9. m.root = PlaceMeant(c) \/ ~Near(m.home, Host)
  <2>1. CASE PlaceMeant(c) = Missing
    <3>1. Stated(b.place) = Missing
      BY <1>8, <2>1 DEF Stated
    <3> QED
      BY <1>5, <1>8, <2>1, <3>1 DEF Workplace
  <2>2. CASE PlaceMeant(c) # Missing
    <3>1. b.place = <<Host, PlaceMeant(c)>> /\ Stated(b.place) # Missing /\ PlaceMeant(c) \in known
      BY <1>6, <1>7, <1>8, <2>2 DEF Stated
    <3> QED
      BY <1>5, <3>1 DEF Workplace
  <2> QED
    BY <2>1, <2>2
<1> QED
  BY <1>3, <1>5, <1>8, <1>9 DEF RightAtHost, Alike

(* The worker's node for a node: all that is kept of a home is where it is. *)
LEMMA NodeKept ==
  ASSUME NEW a, IsNode(a), NEW b, IsNode(b), AtHome(a) = AtHome(b)
  PROVE  a.name = b.name /\ a.kind = b.kind /\ a.ref = b.ref /\ (a.home = Worker => b.home = Worker)
<1> DEFINE home(x) == IF Stated(x) = Missing THEN Embedded ELSE x
<1>1. ASSUME NEW x, IsNode(x)
      PROVE  AtHome(x) = [name |-> x.name, kind |-> x.kind, ref |-> x.ref, home |-> home(x.home)]
  BY <1>1 DEF IsNode, AtHome
<1>2. /\ [name |-> a.name, kind |-> a.kind, ref |-> a.ref, home |-> home(a.home)]
         = [name |-> b.name, kind |-> b.kind, ref |-> b.ref, home |-> home(b.home)]
  BY <1>1
<1>3. a.name = b.name /\ a.kind = b.kind /\ a.ref = b.ref /\ home(a.home) = home(b.home)
  <2> HIDE DEF home
  <2> QED
    BY <1>2
<1>4. a.home = Worker => b.home = Worker
  BY <1>3, TeamMembersAssumption DEF Stated
<1> QED
  BY <1>3, <1>4

LEMMA AtHomeTwice ==
  ASSUME NEW node, IsNode(node)
  PROVE  IsNode(AtHome(node)) /\ AtHome(AtHome(node)) = AtHome(node)
<1> DEFINE home(x) == IF Stated(x) = Missing THEN Embedded ELSE x
<1>1. ASSUME NEW x, IsNode(x)
      PROVE  AtHome(x) = [name |-> x.name, kind |-> x.kind, ref |-> x.ref, home |-> home(x.home)]
  BY <1>1 DEF IsNode, AtHome
<1>2. home(home(node.home)) = home(node.home)
  OBVIOUS
<1> HIDE DEF home
<1>3. IsNode(AtHome(node))
  BY <1>1 DEF IsNode
<1> QED
  BY <1>1, <1>2, <1>3

LEMMA SnapshotKeeps ==
  ASSUME NEW def, Proper(def)
  PROVE  /\ Signature(Snapshot(def)) = Signature(def)
         /\ \A node \in Snapshot(def).nodes : IsNode(node)
<1>1. Snapshot(def).nodes = {AtHome(node) : node \in def.nodes}
  BY DEF Proper, Snapshot
<1>2. \A node \in def.nodes : IsNode(AtHome(node)) /\ AtHome(AtHome(node)) = AtHome(node)
  BY AtHomeTwice DEF Proper
<1> QED
  BY <1>1, <1>2 DEF Signature

(* A way is of the nodes of known teams, one below the other.               *)
LEMMA WayIs ==
  ASSUME NEW defs, NEW team, NEW way
  PROVE  way \in Ways(defs, team)
           <=> \E depth \in 1 .. MaxDepth :
                 /\ way = [i \in 1 .. depth |-> way[i]]
                 /\ \A i \in 1 .. depth :
                      /\ i > 1 => way[i - 1].kind = "team"
                      /\ TeamAt(team, way, i) \in Known(defs) /\ way[i] \in defs[TeamAt(team, way, i)].nodes
<1> DEFINE nodes == UNION {defs[id].nodes : id \in Known(defs)}
           all == UNION {[1 .. depth -> nodes] : depth \in 1 .. MaxDepth}
           linked(w) == \A i \in DOMAIN w : /\ i > 1 => w[i - 1].kind = "team"
                                            /\ TeamAt(team, w, i) \in Known(defs) /\ w[i] \in defs[TeamAt(team, w, i)].nodes
<1>1. Ways(defs, team) = {w \in all : linked(w)}
  BY DEF Ways
<1>2. way \in all <=> \E depth \in 1 .. MaxDepth : way \in [1 .. depth -> nodes]
  <2> HIDE DEF nodes
  <2> QED
    OBVIOUS
<1>3. ASSUME way \in Ways(defs, team)
      PROVE  \E depth \in 1 .. MaxDepth : way = [i \in 1 .. depth |-> way[i]] /\ linked(way)
  <2> HIDE DEF nodes, linked
  <2> QED
    BY <1>1, <1>2, <1>3
<1>4. ASSUME NEW depth \in 1 .. MaxDepth, way = [i \in 1 .. depth |-> way[i]], linked(way)
      PROVE  way \in Ways(defs, team)
  <2>1. \A i \in 1 .. depth : way[i] \in nodes
    BY <1>4
  <2>2. way \in [1 .. depth -> nodes]
    <3> HIDE DEF nodes, linked
    <3> QED
      BY <1>4, <2>1
  <2> HIDE DEF nodes, linked
  <2> QED
    BY <1>1, <1>2, <1>4, <2>2
<1>5. \A depth : way = [i \in 1 .. depth |-> way[i]] => DOMAIN way = 1 .. depth
  OBVIOUS
<1> QED
  BY <1>3, <1>4, <1>5

LEMMA SubteamOnWay ==
  ASSUME NEW defs, NEW team, NEW way, NEW depth \in 1 .. MaxDepth, way = [i \in 1 .. depth |-> way[i]],
         \A i \in 1 .. depth :
           /\ i > 1 => way[i - 1].kind = "team"
           /\ TeamAt(team, way, i) \in Known(defs) /\ way[i] \in defs[TeamAt(team, way, i)].nodes,
         NEW k \in 1 .. depth, way[k].kind = "team"
  PROVE  way[k].ref \in Subteams(defs, team)
<1> DEFINE part == [i \in 1 .. k |-> way[i]]
<1>0. MaxDepth \in Nat
  BY TeamMembersAssumption
<1>1. k \in 1 .. MaxDepth /\ \A i \in 1 .. k : i \in 1 .. depth /\ (i > 1 => i - 1 \in 1 .. k)
  BY <1>0
<1>2. \A i \in 1 .. k : part[i] = way[i] /\ TeamAt(team, part, i) = TeamAt(team, way, i)
  BY <1>1 DEF TeamAt
<1>3. part = [i \in 1 .. k |-> part[i]]
  OBVIOUS
<1>4. \A i \in 1 .. k :
        /\ i > 1 => part[i - 1].kind = "team"
        /\ TeamAt(team, part, i) \in Known(defs) /\ part[i] \in defs[TeamAt(team, part, i)].nodes
  BY <1>1, <1>2
<1>5. k \in Nat /\ k \in 1 .. k /\ Len(part) = k
  BY <1>0, <1>1
<1> HIDE DEF part
<1>6. part \in Ways(defs, team)
  BY <1>1, <1>3, <1>4, WayIs
<1>7. NodeAt(part) = way[k]
  BY <1>2, <1>5 DEF NodeAt
<1> QED
  BY <1>6, <1>7 DEF Subteams

(* Where the nested teams are alike, a way down the host's definition has   *)
(* its counterpart on the worker.                                           *)
LEMMA WayOver ==
  ASSUME NEW here, NEW team, NEW there, NEW id,
         \A t \in Known(here) : \A node \in here[t].nodes : IsNode(node),
         \A t \in Known(there) : \A node \in there[t].nodes : IsNode(node),
         id \in Known(there), Signature(there[id]) = Signature(here[team]),
         \A t \in Subteams(here, team) : t \in Known(there) /\ Signature(there[t]) = Signature(here[t]),
         NEW way \in Ways(here, team)
  PROVE  \E over \in Ways(there, id) :
           /\ KeyOf(over) = KeyOf(way) /\ NodeAt(over).kind = NodeAt(way).kind /\ NodeAt(over).ref = NodeAt(way).ref
           /\ NodeAt(way).home = Worker => NodeAt(over).home = Worker
<1>0. MaxDepth \in Nat
  BY TeamMembersAssumption
<1>1. PICK depth \in 1 .. MaxDepth :
        /\ way = [i \in 1 .. depth |-> way[i]]
        /\ \A i \in 1 .. depth :
             /\ i > 1 => way[i - 1].kind = "team"
             /\ TeamAt(team, way, i) \in Known(here) /\ way[i] \in here[TeamAt(team, way, i)].nodes
  BY WayIs
<1> DEFINE Counterpart(i, node) == node \in there[TeamAt(id, way, i)].nodes /\ AtHome(node) = AtHome(way[i])
<1>2. ASSUME NEW i \in 1 .. depth
      PROVE  TeamAt(id, way, i) \in Known(there) /\ \E node : Counterpart(i, node)
  <2>1. TeamAt(id, way, i) \in Known(there) /\ Signature(there[TeamAt(id, way, i)]) = Signature(here[TeamAt(team, way, i)])
    <3>1. CASE i = 1
      BY <3>1 DEF TeamAt
    <3>2. CASE i # 1
      <4>1. i > 1 /\ i - 1 \in 1 .. depth
        BY <1>0, <3>2
      <4>2. way[i - 1].ref \in Subteams(here, team)
        BY <1>1, <4>1, SubteamOnWay
      <4> QED
        BY <3>2, <4>2 DEF TeamAt
    <3> QED
      BY <3>1, <3>2
  <2>2. AtHome(way[i]) \in Signature(here[TeamAt(team, way, i)])
    BY <1>1 DEF Signature
  <2> QED
    BY <2>1, <2>2 DEF Signature
<1> DEFINE over == [i \in 1 .. depth |-> CHOOSE node : Counterpart(i, node)]
<1>3. \A i \in 1 .. depth : Counterpart(i, over[i])
  BY <1>2
<1>4. over = [i \in 1 .. depth |-> over[i]] /\ DOMAIN over = 1 .. depth
  OBVIOUS
<1>5. Len(over) = depth /\ Len(way) = depth /\ depth \in 1 .. depth /\ DOMAIN way = 1 .. depth
  <2>1. depth \in Nat /\ depth \in 1 .. depth
    BY <1>0
  <2>2. DOMAIN way = 1 .. depth
    BY <1>1
  <2> HIDE DEF over
  <2> QED
    BY <1>4, <2>1, <2>2
<1> HIDE DEF over
<1>6. ASSUME NEW i \in 1 .. depth
      PROVE  /\ over[i].name = way[i].name /\ over[i].kind = way[i].kind /\ over[i].ref = way[i].ref
             /\ way[i].home = Worker => over[i].home = Worker
  <2>1. IsNode(over[i]) /\ IsNode(way[i]) /\ AtHome(way[i]) = AtHome(over[i])
    BY <1>1, <1>2, <1>3
  <2> QED
    BY <2>1, NodeKept
<1>7. \A i \in 1 .. depth : (i > 1 => i - 1 \in 1 .. depth) /\ TeamAt(id, over, i) = TeamAt(id, way, i)
  <2>1. \A i \in 1 .. depth : i # 1 => i - 1 \in 1 .. depth
    BY <1>0
  <2> QED
    BY <1>6, <2>1 DEF TeamAt
<1>8. over \in Ways(there, id)
  <2>1. \A i \in 1 .. depth :
          /\ i > 1 => over[i - 1].kind = "team"
          /\ TeamAt(id, over, i) \in Known(there) /\ over[i] \in there[TeamAt(id, over, i)].nodes
    <3> HIDE DEF Counterpart
    <3>1. \A i \in 1 .. depth : over[i] \in there[TeamAt(id, way, i)].nodes
      BY <1>3 DEF Counterpart
    <3> QED
      BY <1>1, <1>2, <1>6, <1>7, <3>1
  <2> HIDE DEF Counterpart
  <2> QED
    BY <1>4, <2>1, WayIs
<1>9. KeyOf(over) = KeyOf(way)
  BY <1>4, <1>5, <1>6 DEF KeyOf
<1>10. NodeAt(over) = over[depth] /\ NodeAt(way) = way[depth]
  BY <1>5 DEF NodeAt
<1> QED
  BY <1>5, <1>6, <1>8, <1>9, <1>10

HostMade(restored) == IF restored THEN RestoredConfigs ELSE RuntimeConfigs

LEMMA HostMadeFacts ==
  ASSUME dossier \in Dossiers, NEW restored
  PROVE  /\ NamedAlike(HostMade(restored))
         /\ \A i \in DOMAIN RuntimeConfigs :
              LET c == HostMade(restored)[i]
              IN  /\ c.id # NoText /\ c.model = RuntimeConfigs[i].model
                  /\ c = [name |-> c.name, key |-> c.key, id |-> c.id, model |-> c.model,
                          place |-> c.place, root |-> c.root]
                  /\ ~restored => c = RuntimeConfigs[i]
<1>1. NamedAlike(RuntimeConfigs) /\ NamedAlike(RestoredConfigs)
  BY DEF NamedAlike, RestoredConfigs, Restored, BindingMeant
<1>2. CASE restored
  <2>1. ASSUME NEW i \in DOMAIN RuntimeConfigs
        PROVE  LET c == RestoredConfigs[i]
               IN  /\ c.id # NoText /\ c.model = RuntimeConfigs[i].model
                   /\ c = [name |-> c.name, key |-> c.key, id |-> c.id, model |-> c.model,
                           place |-> c.place, root |-> c.root]
    <3>1. RestoredConfigs[i] = Restored(BindingMeant(RuntimeConfigs[i])) /\ RuntimeConfigs[i].id # NoText
      BY ConfigFacts DEF RestoredConfigs
    <3> QED
      BY <3>1 DEF Restored, BindingMeant
  <2> QED
    BY <1>1, <1>2, <2>1 DEF HostMade
<1>3. CASE ~restored
  BY <1>1, <1>3, ConfigFacts DEF HostMade
<1> QED
  BY <1>2, <1>3

(* What the worker builds from what it was sent is right for what the host  *)
(* built, member for member.                                                *)
LEMMA WorkerIsRight ==
  ASSUME dossier \in Dossiers, NEW here, NEW team, NEW there, NEW id,
         \A t \in Known(here) : \A node \in here[t].nodes : IsNode(node),
         \A t \in Known(there) : \A node \in there[t].nodes : IsNode(node),
         id \in Known(there), Signature(there[id]) = Signature(here[team]),
         \A t \in Subteams(here, team) : t \in Known(there) /\ Signature(there[t]) = Signature(here[t]),
         NEW restored, NEW known, NEW open,
         NEW m \in Built(Host, here, team, HostMade(restored), known), m.home = Worker
  PROVE  \E w \in Built(Worker, there, id, [i \in DOMAIN HostMade(restored) |-> Received(HostMade(restored)[i])], open) :
           RightAtWorker(m, w, restored)
<1> DEFINE received == [i \in DOMAIN HostMade(restored) |-> Received(HostMade(restored)[i])]
<1>1. NamedAlike(HostMade(restored))
  BY HostMadeFacts
<1>2. PICK way \in Ways(here, team) :
        /\ NodeAt(way).kind # "team" /\ Candidates(KeyOf(way)) # {}
        /\ m = Member(Host, NodeAt(way), KeyOf(way), HostMade(restored)[Latest(Candidates(KeyOf(way)))], known)
  BY <1>1, BuiltAt
<1> DEFINE i == Latest(Candidates(KeyOf(way)))
           c == HostMade(restored)[i]
<1>3. i \in DOMAIN RuntimeConfigs /\ (Shadowed(KeyOf(way)) \/ RuntimeConfigs[i] \in Meant(KeyOf(way)))
  BY <1>2, FoundIsMeant
<1>4. /\ m.key = KeyOf(way) /\ m.as = c.key /\ m.agent = NodeAt(way).ref /\ m.home = NodeAt(way).home
      /\ m.model = c.model /\ m.id = c.id
  BY <1>2 DEF Member
<1>5. PICK over \in Ways(there, id) :
        /\ KeyOf(over) = KeyOf(way) /\ NodeAt(over).kind = NodeAt(way).kind /\ NodeAt(over).ref = NodeAt(way).ref
        /\ NodeAt(way).home = Worker => NodeAt(over).home = Worker
  BY WayOver
<1> DEFINE r == Received(c)
           w == Member(Worker, NodeAt(over), KeyOf(over), r, open)
<1>6. /\ c.id # NoText
      /\ c = [name |-> c.name, key |-> c.key, id |-> c.id, model |-> c.model, place |-> c.place, root |-> c.root]
      /\ ~restored => c = RuntimeConfigs[i]
  BY <1>3, HostMadeFacts
<1>7. /\ r.name = c.name /\ r.key = c.key /\ r.id = c.id /\ r.model = c.model /\ r.place = c.place
      /\ r.root = Stated(c.root)
  <2> HIDE DEF c
  <2> QED
    BY <1>6 DEF Received, Stated
<1>8. received[i] = r
  BY <1>1, <1>3 DEF NamedAlike
<1>9. NamedAlike(received)
  <2>1. DOMAIN received = DOMAIN RuntimeConfigs
    BY <1>1 DEF NamedAlike
  <2>2. ASSUME NEW j \in DOMAIN RuntimeConfigs
        PROVE  received[j].name = RuntimeConfigs[j].name /\ received[j].key = RuntimeConfigs[j].key
    <3> DEFINE d == HostMade(restored)[j]
    <3>1. /\ d.name = RuntimeConfigs[j].name /\ d.key = RuntimeConfigs[j].key
          /\ d = [name |-> d.name, key |-> d.key, id |-> d.id, model |-> d.model, place |-> d.place, root |-> d.root]
      BY <1>1, HostMadeFacts DEF NamedAlike
    <3>2. received[j] = Received(d)
      BY <1>1 DEF NamedAlike
    <3> HIDE DEF d, received
    <3> QED
      BY <3>1, <3>2 DEF Received
  <2> HIDE DEF received
  <2> QED
    BY <2>1, <2>2 DEF NamedAlike
<1>10. w \in Built(Worker, there, id, received, open)
  <2> HIDE DEF received, r
  <2> QED
    BY <1>2, <1>5, <1>8, <1>9, BuiltAt
<1>11. /\ w.key = KeyOf(way) /\ w.as = c.key /\ w.agent = NodeAt(way).ref /\ w.model = c.model /\ w.id = c.id
       /\ w.root = Workplace(Worker, NodeAt(over).home, r, open)
  <2> HIDE DEF r, c
  <2> QED
    BY <1>5, <1>7 DEF Member
<1>12. ASSUME ~restored, ~Shadowed(m.key)
       PROVE  \E config \in Meant(m.key) : config.place # Missing \/ w.root = config.root
  <2>1. c = RuntimeConfigs[i] /\ c \in Meant(m.key)
    BY <1>3, <1>4, <1>6, <1>12
  <2>2. c.root # NoText
    BY <1>3, <2>1, ConfigFacts
  <2> HIDE DEF c, r, w
  <2>3. ASSUME c.place = Missing
        PROVE  w.root = c.root
    <3>1. Near(NodeAt(over).home, Worker)
      BY <1>4, <1>5 DEF Near
    <3>2. Stated(r.place) = Missing
      BY <1>7, <2>3 DEF Stated
    <3> QED
      BY <1>7, <1>11, <2>2, <3>1, <3>2 DEF Workplace, Stated
  <2> QED
    BY <2>1, <2>3
<1>13. RightAtWorker(m, w, restored)
  <2> HIDE DEF w, c
  <2> QED
    BY <1>4, <1>11, <1>12 DEF RightAtWorker
<1> QED
  BY <1>10, <1>13

HostRight == crew[Host] # Missing => \A m \in crew[Host].members : RightAtHost(m)
WorkerRight ==
  crew[Worker] # Missing /\ crew[Worker].how.clean =>
    \A m \in crew[Worker].how.of : m.home = Worker =>
      \E w \in crew[Worker].members : RightAtWorker(m, w, crew[Worker].how.restored)

LEMMA RightsTogether == MembersAsConfigured <=> HostRight /\ WorkerRight
  BY DEF MembersAsConfigured, HostRight, WorkerRight

LEMMA HostRightStays ==
  ASSUME HostRight, dossier' = dossier, crew'[Host] = crew[Host]
  PROVE  HostRight'
<1>1. \A m : RightAtHost(m)' = RightAtHost(m)
  BY SameDossier
<1> QED
  BY <1>1 DEF HostRight

LEMMA WorkerRightStays ==
  ASSUME WorkerRight, dossier' = dossier, crew'[Worker] = crew[Worker]
  PROVE  WorkerRight'
<1>1. \A m, w, r : RightAtWorker(m, w, r)' = RightAtWorker(m, w, r)
  BY SameDossier
<1> QED
  BY <1>1 DEF WorkerRight

LEMMA ManifestStays ==
  ASSUME ManifestOK, dossier' = dossier, record' = record, opened'[Host] = opened[Host] \/ record.made
  PROVE  ManifestOK'
  BY SameManifest DEF ManifestOK

LEMMA HostCrewStays ==
  ASSUME HostCrewOK, dossier' = dossier, record'.made = record.made, crew'[Host] = crew[Host],
         crew[Host] # Missing => "team" \in edited' \/ (teamDefs'[Host] = teamDefs[Host] /\ ("team" \in edited => "team" \in edited'))
  PROVE  HostCrewOK'
<1>1. RuntimeConfigs' = RuntimeConfigs /\ RestoredConfigs' = RestoredConfigs
  BY SameDossier, SameManifest
<1>2. CASE crew[Host] = Missing
  BY <1>2 DEF HostCrewOK
<1>3. CASE crew[Host] # Missing
  <2>1. /\ record'.made /\ crew'[Host].team = dossier'.team
        /\ crew'[Host].configs = IF crew'[Host].how.restored THEN RestoredConfigs' ELSE RuntimeConfigs'
    BY <1>1, <1>3 DEF HostCrewOK
  <2>2. ASSUME "team" \notin edited'
        PROVE  (\E known : crew[Host].members = Built(Host, teamDefs[Host], dossier.team, crew[Host].configs, known))'
    <3>1. "team" \notin edited /\ teamDefs'[Host] = teamDefs[Host]
      BY <1>3, <2>2
    <3>2. PICK known : crew[Host].members = Built(Host, teamDefs[Host], dossier.team, crew[Host].configs, known)
      BY <1>3, <3>1 DEF HostCrewOK
    <3>3. crew'[Host].members = Built(Host, teamDefs'[Host], dossier'.team, crew'[Host].configs, known)
      BY <3>1, <3>2
    <3> QED
      BY <3>3
  <2> QED
    BY <2>1, <2>2 DEF HostCrewOK
<1> QED
  BY <1>2, <1>3

LEMMA MappingStays ==
  ASSUME MappingOK, dossier' = dossier,
         mappedId' = mappedId \/ mappedId' = Missing,
         mappedId' # Missing => "mapping" \in edited' \/
           (teamDefs' = teamDefs /\ ("mapping" \in edited => "mapping" \in edited'))
  PROVE  MappingOK'
  BY DEF MappingOK, KnownIds, Known, Signature, AtHome, Stated

LEMMA TypesStay ==
  ASSUME TeamTypeOK, dossier' = dossier, teamDefs' = teamDefs,
         crew' = [n \in Nodes |-> crew'[n]], opened' = [n \in Nodes |-> opened'[n]]
  PROVE  TeamTypeOK'
  BY DEF TeamTypeOK, Known, KnownIds, Proper, IsNode, Snapshot, AtHome, Stated

LEMMA AssembledIs ==
  ASSUME TeamTypeOK, NEW n \in Nodes, NEW defs, NEW team, NEW configs, NEW known, NEW how,
         Assembled(n, defs, team, configs, known, how)
  PROVE  /\ crew' = [k \in Nodes |-> crew'[k]] /\ opened' = [k \in Nodes |-> opened'[k]]
         /\ crew'[n] = [team |-> team, configs |-> configs, members |-> Built(n, defs, team, configs, known), how |-> how]
         /\ \A k \in Nodes \ {n} : crew'[k] = crew[k] /\ opened'[k] = opened[k]
<1> DEFINE members == Built(n, defs, team, configs, known)
           made == [team |-> team, configs |-> configs, members |-> members, how |-> how]
           open == known \cup ({m.root : m \in members} \ {Missing})
<1>1. crew' = [crew EXCEPT ![n] = made] /\ opened' = [opened EXCEPT ![n] = open]
  BY DEF Assembled
<1>2. crew = [k \in Nodes |-> crew[k]] /\ opened = [k \in Nodes |-> opened[k]]
  BY DEF TeamTypeOK
<1>3. /\ crew' = [k \in Nodes |-> IF k = n THEN made ELSE crew[k]]
      /\ opened' = [k \in Nodes |-> IF k = n THEN open ELSE opened[k]]
  <2> HIDE DEF made, open
  <2> QED
    BY <1>1, <1>2
<1> HIDE DEF open
<1> QED
  BY <1>3

LEMMA NodesAre == Host \in Nodes /\ Worker \in Nodes /\ Host # Worker
  BY TeamMembersAssumption DEF Nodes

LEMMA CreateKeeps == MembersInv /\ CreateTeamRun => MembersInv'
<1> SUFFICES ASSUME MembersInv, CreateTeamRun
             PROVE  MembersInv'
  OBVIOUS
<1>1. TeamTypeOK /\ ManifestOK /\ TeamStaysKnown /\ HostCrewOK /\ MappingOK /\ HostRight /\ WorkerRight
  BY RightsTogether DEF MembersInv
<1>2. /\ ~record.made /\ Assembled(Host, teamDefs[Host], dossier.team, RuntimeConfigs, opened[Host], HowAtHost(FALSE))
      /\ record' = [made |-> TRUE, team |-> dossier.team,
                    bindings |-> [i \in DOMAIN RuntimeConfigs |-> Binding(RuntimeConfigs[i])]]
      /\ edited' = edited \ {"team"} /\ dossier' = dossier /\ teamDefs' = teamDefs /\ mappedId' = mappedId
  BY DEF CreateTeamRun
<1>3. dossier \in Dossiers /\ opened[Host] = dossier.opened[Host]
  BY <1>1, <1>2 DEF TeamTypeOK, ManifestOK
<1>4. /\ crew' = [k \in Nodes |-> crew'[k]] /\ opened' = [k \in Nodes |-> opened'[k]]
      /\ crew'[Host] = [team |-> dossier.team, configs |-> RuntimeConfigs,
                        members |-> Built(Host, teamDefs[Host], dossier.team, RuntimeConfigs, opened[Host]),
                        how |-> HowAtHost(FALSE)]
      /\ crew'[Worker] = crew[Worker]
  <2>1. PICK defs, team, configs, known, how :
          defs = teamDefs[Host] /\ team = dossier.team /\ configs = RuntimeConfigs /\ known = opened[Host] /\ how = HowAtHost(FALSE)
    OBVIOUS
  <2>2. Assembled(Host, defs, team, configs, known, how)
    BY <1>2, <2>1 DEF Assembled
  <2>3. /\ crew' = [k \in Nodes |-> crew'[k]] /\ opened' = [k \in Nodes |-> opened'[k]]
        /\ crew'[Host] = [team |-> team, configs |-> configs, members |-> Built(Host, defs, team, configs, known), how |-> how]
        /\ crew'[Worker] = crew[Worker]
    BY <1>1, <2>2, AssembledIs, NodesAre
  <2> QED
    BY <2>1, <2>3
<1>5. TeamTypeOK'
  BY <1>1, <1>2, <1>4, TypesStay
<1>6. ManifestOK'
  <2>1. ASSUME NEW i \in DOMAIN RuntimeConfigs
        PROVE  Binding(RuntimeConfigs[i]) = BindingMeant(RuntimeConfigs[i])
    <3> DEFINE c == RuntimeConfigs[i]
    <3>1. \A r \in dossier.opened[Host] : <<Host, r>> \notin {NoText, Missing}
      BY <1>3, TeamMembersAssumption
    <3> HIDE DEF c
    <3>2. RootOf(c) = PlaceMeant(c)
      BY <1>3, <3>1 DEF RootOf, PlaceMeant, Stated
    <3> QED
      BY <3>2 DEF Binding, BindingMeant, c
  <2>2. record'.bindings = [i \in DOMAIN RuntimeConfigs |-> BindingMeant(RuntimeConfigs[i])]
    BY <1>2, <2>1
  <2>3. record'.made /\ record'.team = dossier'.team
    BY <1>2
  <2> QED
    BY <1>2, <2>2, <2>3, SameManifest DEF ManifestOK
<1>7. HostCrewOK'
  <2>1. RuntimeConfigs' = RuntimeConfigs
    BY <1>2, SameDossier
  <2>2. ~crew'[Host].how.restored /\ crew'[Host].configs = RuntimeConfigs' /\ crew'[Host].team = dossier'.team
    BY <1>2, <1>4, <2>1 DEF HowAtHost
  <2>3. crew'[Host].members = Built(Host, teamDefs'[Host], dossier'.team, crew'[Host].configs, opened[Host])
    BY <1>2, <1>4
  <2>4. PICK known : known = opened[Host]
    OBVIOUS
  <2>5. (\E k : crew[Host].members = Built(Host, teamDefs[Host], dossier.team, crew[Host].configs, k))'
    BY <2>3, <2>4
  <2>6. record'.made
    BY <1>2
  <2> QED
    BY <2>2, <2>5, <2>6 DEF HostCrewOK
<1>8. MappingOK'
  BY <1>1, <1>2, MappingStays
<1>9. HostRight'
  <2>1. \A m \in crew'[Host].members : RightAtHost(m)
    BY <1>3, <1>4, FreshIsRight
  <2>2. \A m : RightAtHost(m)' = RightAtHost(m)
    BY <1>2, SameDossier
  <2> QED
    BY <2>1, <2>2 DEF HostRight
<1>10. WorkerRight'
  BY <1>1, <1>2, <1>4, WorkerRightStays
<1>11. MembersAsConfigured'
  BY <1>9, <1>10, RightsTogether, PTL
<1>12. TeamStaysKnown'
  <2>1. dossier.team \in Known(teamDefs[Host])
    BY DEF CreateTeamRun, Buildable, Led
  <2> QED
    BY <1>2, <2>1 DEF TeamStaysKnown, Known
<1> QED
  BY <1>5, <1>6, <1>7, <1>8, <1>11, <1>12 DEF MembersInv

LEMMA RestoreKeeps == MembersInv /\ RestoreTeamRun => MembersInv'
<1> SUFFICES ASSUME MembersInv, RestoreTeamRun
             PROVE  MembersInv'
  OBVIOUS
<1>1. TeamTypeOK /\ ManifestOK /\ TeamStaysKnown /\ HostCrewOK /\ MappingOK /\ HostRight /\ WorkerRight
  BY RightsTogether DEF MembersInv
<1> DEFINE configs == [i \in DOMAIN record.bindings |-> Restored(record.bindings[i])]
           known == opened[Host] \cup ({record.bindings[i].root : i \in DOMAIN record.bindings} \ {Missing})
<1>2. /\ record.made /\ Assembled(Host, teamDefs[Host], record.team, configs, known, HowAtHost(TRUE))
      /\ edited' = edited \ {"team"}
      /\ dossier' = dossier /\ teamDefs' = teamDefs /\ record' = record /\ mappedId' = mappedId
  BY DEF RestoreTeamRun, RestoreWith
<1>3. /\ record.team = dossier.team
      /\ record.bindings = [i \in DOMAIN RuntimeConfigs |-> BindingMeant(RuntimeConfigs[i])]
  BY <1>1, <1>2 DEF ManifestOK
<1>4. dossier \in Dossiers
  BY <1>1 DEF TeamTypeOK
<1>5. configs = RestoredConfigs
  <2>1. \A i \in DOMAIN RuntimeConfigs : record.bindings[i] = BindingMeant(RuntimeConfigs[i])
    BY <1>3
  <2>2. DOMAIN record.bindings = DOMAIN RuntimeConfigs
    BY <1>3
  <2> QED
    BY <2>1, <2>2 DEF RestoredConfigs
<1>6. \A i \in DOMAIN RuntimeConfigs : PlaceMeant(RuntimeConfigs[i]) \in known \cup {Missing}
  <2>1. ASSUME NEW i \in DOMAIN RuntimeConfigs
        PROVE  PlaceMeant(RuntimeConfigs[i]) \in known \cup {Missing}
    <3>1. i \in DOMAIN record.bindings /\ record.bindings[i].root = PlaceMeant(RuntimeConfigs[i])
      BY <1>3 DEF BindingMeant
    <3> QED
      BY <3>1
  <2> QED
    BY <2>1
<1> HIDE DEF configs, known
<1>7. /\ crew' = [k \in Nodes |-> crew'[k]] /\ opened' = [k \in Nodes |-> opened'[k]]
      /\ crew'[Host] = [team |-> dossier.team, configs |-> RestoredConfigs,
                        members |-> Built(Host, teamDefs[Host], dossier.team, RestoredConfigs, known),
                        how |-> HowAtHost(TRUE)]
      /\ crew'[Worker] = crew[Worker]
  <2>1. PICK defs, team, cs, open, how :
          defs = teamDefs[Host] /\ team = dossier.team /\ cs = RestoredConfigs /\ open = known /\ how = HowAtHost(TRUE)
    OBVIOUS
  <2>2. Assembled(Host, defs, team, cs, open, how)
    BY <1>2, <1>3, <1>5, <2>1 DEF Assembled
  <2>3. /\ crew' = [k \in Nodes |-> crew'[k]] /\ opened' = [k \in Nodes |-> opened'[k]]
        /\ crew'[Host] = [team |-> team, configs |-> cs, members |-> Built(Host, defs, team, cs, open), how |-> how]
        /\ crew'[Worker] = crew[Worker]
    BY <1>1, <2>2, AssembledIs, NodesAre
  <2> QED
    BY <2>1, <2>3
<1>8. TeamTypeOK'
  BY <1>1, <1>2, <1>7, TypesStay
<1>9. ManifestOK'
  BY <1>1, <1>2, ManifestStays
<1>10. HostCrewOK'
  <2>1. RestoredConfigs' = RestoredConfigs
    BY <1>2, SameManifest
  <2>2. crew'[Host].how.restored /\ crew'[Host].configs = RestoredConfigs' /\ crew'[Host].team = dossier'.team
    BY <1>2, <1>7, <2>1 DEF HowAtHost
  <2>3. PICK open : open = known
    OBVIOUS
  <2>4. crew'[Host].members = Built(Host, teamDefs'[Host], dossier'.team, crew'[Host].configs, open)
    BY <1>2, <1>7, <2>3
  <2>5. (\E k : crew[Host].members = Built(Host, teamDefs[Host], dossier.team, crew[Host].configs, k))'
    BY <2>4
  <2>6. record'.made
    BY <1>2
  <2> QED
    BY <2>2, <2>5, <2>6 DEF HostCrewOK
<1>11. MappingOK'
  BY <1>1, <1>2, MappingStays
<1>12. HostRight'
  <2>1. PICK defs, team, open : defs = teamDefs[Host] /\ team = dossier.team /\ open = known
    OBVIOUS
  <2>2. \A m \in Built(Host, defs, team, RestoredConfigs, open) : RightAtHost(m)
    BY <1>4, <1>6, <2>1, RestoredIsRight
  <2>3. \A m \in crew'[Host].members : RightAtHost(m)
    BY <1>7, <2>1, <2>2
  <2>4. \A m : RightAtHost(m)' = RightAtHost(m)
    BY <1>2, SameDossier
  <2> QED
    BY <2>3, <2>4 DEF HostRight
<1>13. WorkerRight'
  BY <1>1, <1>2, <1>7, WorkerRightStays
<1>14. MembersAsConfigured'
  BY <1>12, <1>13, RightsTogether, PTL
<1>15. TeamStaysKnown'
  BY <1>1, <1>2 DEF TeamStaysKnown, Known
<1> QED
  BY <1>8, <1>9, <1>10, <1>11, <1>14, <1>15 DEF MembersInv

LEMMA ChangedIs ==
  ASSUME TeamTypeOK, NEW n \in Nodes, NEW id \in TeamIds, NEW def, Changed(n, id, def)
  PROVE  /\ teamDefs' = [k \in Nodes |-> [i \in TeamIds |-> teamDefs'[k][i]]]
         /\ teamDefs'[n][id] = def /\ \A i \in TeamIds \ {id} : teamDefs'[n][i] = teamDefs[n][i]
         /\ \A k \in Nodes \ {n} : teamDefs'[k] = teamDefs[k]
<1>1. teamDefs = [k \in Nodes |-> [i \in TeamIds |-> teamDefs[k][i]]]
  BY DEF TeamTypeOK
<1>2. teamDefs' = [teamDefs EXCEPT ![n] = [teamDefs[n] EXCEPT ![id] = def]]
  BY DEF Changed
<1>3. teamDefs[n] = [i \in TeamIds |-> teamDefs[n][i]]
  BY <1>1
<1>4. [teamDefs[n] EXCEPT ![id] = def] = [i \in TeamIds |-> IF i = id THEN def ELSE teamDefs[n][i]]
  BY <1>3
<1>5. teamDefs' = [k \in Nodes |-> IF k = n THEN [i \in TeamIds |-> IF i = id THEN def ELSE teamDefs[n][i]] ELSE teamDefs[k]]
  BY <1>1, <1>2, <1>4
<1>6. \A k \in Nodes : teamDefs[k] = [i \in TeamIds |-> teamDefs[k][i]]
  BY <1>1
<1> QED
  BY <1>5, <1>6

LEMMA EditKeeps == MembersInv /\ EditTeam => MembersInv'
<1> SUFFICES ASSUME MembersInv, EditTeam
             PROVE  MembersInv'
  OBVIOUS
<1>1. TeamTypeOK /\ ManifestOK /\ TeamStaysKnown /\ HostCrewOK /\ MappingOK /\ HostRight /\ WorkerRight
  BY RightsTogether DEF MembersInv
<1>2. /\ Changed(Host, dossier.team, dossier.edition)
      /\ edited' = edited \cup (IF crew[Host] # Missing THEN {"team"} ELSE {})
                          \cup (IF mappedId # Missing THEN {"mapping"} ELSE {})
      /\ dossier' = dossier /\ crew' = crew /\ record' = record /\ opened' = opened /\ mappedId' = mappedId
  BY DEF EditTeam
<1>3. dossier \in Dossiers /\ dossier.team \in TeamIds /\ Proper(dossier.edition)
  BY <1>1, TeamMembersAssumption DEF TeamTypeOK
<1>4. /\ teamDefs' = [k \in Nodes |-> [i \in TeamIds |-> teamDefs'[k][i]]]
      /\ teamDefs'[Host][dossier.team] = dossier.edition
      /\ \A i \in TeamIds \ {dossier.team} : teamDefs'[Host][i] = teamDefs[Host][i]
      /\ teamDefs'[Worker] = teamDefs[Worker]
  <2>1. PICK id, def : id = dossier.team /\ def = dossier.edition
    OBVIOUS
  <2>2. Changed(Host, id, def)
    BY <1>2, <2>1 DEF Changed
  <2>3. /\ teamDefs' = [k \in Nodes |-> [i \in TeamIds |-> teamDefs'[k][i]]]
        /\ teamDefs'[Host][id] = def
        /\ \A i \in TeamIds \ {id} : teamDefs'[Host][i] = teamDefs[Host][i]
        /\ teamDefs'[Worker] = teamDefs[Worker]
    BY <1>1, <1>3, <2>1, <2>2, ChangedIs, NodesAre
  <2> QED
    BY <2>1, <2>3
<1>5. TeamTypeOK'
  <2>1. \A id \in TeamIds : teamDefs'[Host][id] \notin {Missing, Gone} => Proper(teamDefs'[Host][id])
    BY <1>1, <1>3, <1>4 DEF TeamTypeOK, Known
  <2>2. \A id \in TeamIds : teamDefs'[Worker][id] \notin {Missing, Gone} =>
          \A node \in teamDefs'[Worker][id].nodes : IsNode(node)
    BY <1>1, <1>4 DEF TeamTypeOK, Known, KnownIds
  <2>3. \A id : Proper(teamDefs[Host][id])' <=> Proper(teamDefs'[Host][id])
    BY DEF Proper, IsNode, Snapshot, AtHome, Stated
  <2> QED
    BY <1>1, <1>2, <1>4, <2>1, <2>2, <2>3 DEF TeamTypeOK, Known, KnownIds
<1>6. ManifestOK'
  BY <1>1, <1>2, ManifestStays
<1>7. HostCrewOK'
  BY <1>1, <1>2, HostCrewStays
<1>8. MappingOK'
  BY <1>1, <1>2, MappingStays
<1>9. HostRight' /\ WorkerRight'
  BY <1>1, <1>2, HostRightStays, WorkerRightStays
<1>10. MembersAsConfigured'
  BY <1>9, RightsTogether, PTL
<1>11. TeamStaysKnown'
  <2>1. dossier'.team \in TeamIds /\ teamDefs'[Host][dossier'.team] \notin {Missing, Gone}
    BY <1>2, <1>3, <1>4 DEF Proper
  <2> QED
    BY <2>1 DEF TeamStaysKnown, Known
<1> QED
  BY <1>5, <1>6, <1>7, <1>8, <1>10, <1>11 DEF MembersInv

LEMMA NothingKeepsMembers == MembersInv /\ UNCHANGED teamVars => MembersInv'
<1> SUFFICES ASSUME MembersInv, UNCHANGED teamVars
             PROVE  MembersInv'
  OBVIOUS
<1>1. TeamTypeOK /\ ManifestOK /\ TeamStaysKnown /\ HostCrewOK /\ MappingOK /\ HostRight /\ WorkerRight
  BY RightsTogether DEF MembersInv
<1>2. /\ dossier' = dossier /\ teamDefs' = teamDefs /\ crew' = crew /\ record' = record
      /\ opened' = opened /\ mappedId' = mappedId /\ edited' = edited
  BY DEF teamVars
<1>3. crew' = [n \in Nodes |-> crew'[n]] /\ opened' = [n \in Nodes |-> opened'[n]]
  BY <1>1, <1>2 DEF TeamTypeOK
<1>4. TeamTypeOK' /\ ManifestOK' /\ HostCrewOK' /\ MappingOK'
  BY <1>1, <1>2, <1>3, TypesStay, ManifestStays, HostCrewStays, MappingStays
<1>5. TeamStaysKnown'
  BY <1>1, <1>2 DEF TeamStaysKnown, Known
<1>6. HostRight' /\ WorkerRight'
  BY <1>1, <1>2, HostRightStays, WorkerRightStays
<1>7. MembersAsConfigured'
  BY <1>6, RightsTogether, PTL
<1> QED
  BY <1>4, <1>5, <1>7 DEF MembersInv

LEMMA HostRestartKeeps == MembersInv /\ HostRestart => MembersInv'
<1> SUFFICES ASSUME MembersInv, HostRestart, record.made
             PROVE  MembersInv'
  <2>1. ASSUME MembersInv, HostRestart, ~record.made
        PROVE  MembersInv'
    <3>1. UNCHANGED teamVars
      BY <2>1 DEF HostRestart
    <3> QED
      BY <2>1, <3>1, NothingKeepsMembers
  <2> QED
    BY <2>1
<1>1. TeamTypeOK /\ ManifestOK /\ TeamStaysKnown /\ HostCrewOK /\ MappingOK /\ HostRight /\ WorkerRight
  BY RightsTogether DEF MembersInv
<1>2. /\ crew' = [crew EXCEPT ![Host] = Missing] /\ opened' = [opened EXCEPT ![Host] = {}]
      /\ edited' = edited \ {"team"}
      /\ dossier' = dossier /\ teamDefs' = teamDefs /\ record' = record /\ mappedId' = mappedId
  BY DEF HostRestart
<1>3. /\ crew' = [k \in Nodes |-> crew'[k]] /\ opened' = [k \in Nodes |-> opened'[k]]
      /\ crew'[Host] = Missing /\ crew'[Worker] = crew[Worker]
  BY <1>1, <1>2, NodesAre DEF TeamTypeOK
<1>4. TeamTypeOK'
  BY <1>1, <1>2, <1>3, TypesStay
<1>5. ManifestOK'
  BY <1>1, <1>2, ManifestStays
<1>6. TeamStaysKnown'
  BY <1>1, <1>2 DEF TeamStaysKnown, Known
<1>7. HostCrewOK' /\ HostRight'
  BY <1>3 DEF HostCrewOK, HostRight
<1>8. MappingOK'
  BY <1>1, <1>2, MappingStays
<1>9. WorkerRight'
  BY <1>1, <1>2, <1>3, WorkerRightStays
<1>10. MembersAsConfigured'
  BY <1>7, <1>9, RightsTogether, PTL
<1> QED
  BY <1>4, <1>5, <1>6, <1>7, <1>8, <1>10 DEF MembersInv

LEMMA WorkerRestartKeeps == MembersInv /\ WorkerRestart => MembersInv'
<1> SUFFICES ASSUME MembersInv, WorkerRestart
             PROVE  MembersInv'
  OBVIOUS
<1>1. TeamTypeOK /\ ManifestOK /\ TeamStaysKnown /\ HostCrewOK /\ MappingOK /\ HostRight /\ WorkerRight
  BY RightsTogether DEF MembersInv
<1>2. /\ crew' = [crew EXCEPT ![Worker] = Missing] /\ opened' = [opened EXCEPT ![Worker] = {}]
      /\ mappedId' = Missing /\ edited' = edited \ {"mapping"}
      /\ dossier' = dossier /\ teamDefs' = teamDefs /\ record' = record
  BY DEF WorkerRestart
<1>3. /\ crew' = [k \in Nodes |-> crew'[k]] /\ opened' = [k \in Nodes |-> opened'[k]]
      /\ crew'[Worker] = Missing /\ crew'[Host] = crew[Host] /\ opened'[Host] = opened[Host]
  BY <1>1, <1>2, NodesAre DEF TeamTypeOK
<1>4. TeamTypeOK'
  BY <1>1, <1>2, <1>3, TypesStay
<1>5. ManifestOK'
  BY <1>1, <1>2, <1>3, ManifestStays
<1>6. TeamStaysKnown'
  BY <1>1, <1>2 DEF TeamStaysKnown, Known
<1>7. HostCrewOK'
  BY <1>1, <1>2, <1>3, HostCrewStays
<1>8. MappingOK'
  BY <1>2 DEF MappingOK
<1>9. HostRight'
  BY <1>1, <1>2, <1>3, HostRightStays
<1>10. WorkerRight'
  BY <1>3 DEF WorkerRight
<1>11. MembersAsConfigured'
  BY <1>9, <1>10, RightsTogether, PTL
<1> QED
  BY <1>4, <1>5, <1>6, <1>7, <1>8, <1>11 DEF MembersInv

LEMMA WorkerEditKeeps == MembersInv /\ WorkerEdit => MembersInv'
<1> SUFFICES ASSUME MembersInv, WorkerEdit
             PROVE  MembersInv'
  OBVIOUS
<1>1. TeamTypeOK /\ ManifestOK /\ TeamStaysKnown /\ HostCrewOK /\ MappingOK /\ HostRight /\ WorkerRight
  BY RightsTogether DEF MembersInv
<1>2. /\ edited' = edited \cup {"mapping"}
      /\ dossier' = dossier /\ crew' = crew /\ record' = record /\ opened' = opened /\ mappedId' = mappedId
  BY DEF WorkerEdit
<1>3. PICK id, def : id = mappedId /\ def \in {dossier.edition, Gone} /\ Changed(Worker, id, def) /\ id \in TeamIds
  <2>1. mappedId \in TeamIds
    BY DEF WorkerEdit, KnownIds, Known
  <2>2. Changed(Worker, mappedId, dossier.edition) \/ Changed(Worker, mappedId, Gone)
    BY DEF WorkerEdit
  <2>3. CASE Changed(Worker, mappedId, dossier.edition)
    <3>1. PICK id, def : id = mappedId /\ def = dossier.edition
      OBVIOUS
    <3>2. Changed(Worker, id, def)
      BY <2>3, <3>1 DEF Changed
    <3> QED
      BY <2>1, <3>1, <3>2
  <2>4. CASE Changed(Worker, mappedId, Gone)
    <3>1. PICK id, def : id = mappedId /\ def = Gone
      OBVIOUS
    <3>2. Changed(Worker, id, def)
      BY <2>4, <3>1 DEF Changed
    <3> QED
      BY <2>1, <3>1, <3>2
  <2> QED
    BY <2>2, <2>3, <2>4
<1>4. /\ teamDefs' = [k \in Nodes |-> [i \in TeamIds |-> teamDefs'[k][i]]]
      /\ teamDefs'[Worker][id] = def
      /\ \A i \in TeamIds \ {id} : teamDefs'[Worker][i] = teamDefs[Worker][i]
      /\ teamDefs'[Host] = teamDefs[Host]
  BY <1>1, <1>3, ChangedIs, NodesAre
<1>5. TeamTypeOK'
  <2>1. dossier \in Dossiers /\ Proper(dossier.edition)
    BY <1>1, TeamMembersAssumption DEF TeamTypeOK
  <2>2. \A i \in TeamIds : teamDefs'[Worker][i] \notin {Missing, Gone} =>
          \A node \in teamDefs'[Worker][i].nodes : IsNode(node)
    BY <1>1, <1>3, <1>4, <2>1 DEF TeamTypeOK, Known, KnownIds, Proper
  <2>3. \A i \in TeamIds : teamDefs'[Host][i] \notin {Missing, Gone} => Proper(teamDefs'[Host][i])
    BY <1>1, <1>4 DEF TeamTypeOK, Known
  <2>4. \A i : Proper(teamDefs[Host][i])' <=> Proper(teamDefs'[Host][i])
    BY DEF Proper, IsNode, Snapshot, AtHome, Stated
  <2> QED
    BY <1>1, <1>2, <1>4, <2>2, <2>3, <2>4 DEF TeamTypeOK, Known, KnownIds
<1>6. ManifestOK'
  BY <1>1, <1>2, ManifestStays
<1>7. TeamStaysKnown'
  BY <1>1, <1>2, <1>4 DEF TeamStaysKnown, Known
<1>8. HostCrewOK'
  BY <1>1, <1>2, <1>4, HostCrewStays
<1>9. MappingOK'
  BY <1>1, <1>2, MappingStays
<1>10. HostRight' /\ WorkerRight'
  BY <1>1, <1>2, HostRightStays, WorkerRightStays
<1>11. MembersAsConfigured'
  BY <1>10, RightsTogether, PTL
<1> QED
  BY <1>5, <1>6, <1>7, <1>8, <1>9, <1>11 DEF MembersInv

LEMMA LowestIs ==
  ASSUME NEW S \in SUBSET TeamIds, S # {}
  PROVE  Lowest(S) \in S
<1>1. S \in SUBSET Nat
  BY TeamMembersAssumption
<1>2. \E n \in S : \A m \in S : n <= m
  BY <1>1, LeastOf
<1> QED
  BY <1>2 DEF Lowest

LEMMA WorkerIdIs ==
  ASSUME NEW hostId, NEW snapshot, \E free \in TeamIds : teamDefs[Worker][free] = Missing
  PROVE  WorkerId(hostId, snapshot) \in TeamIds /\ (mappedId \in KnownIds => WorkerId(hostId, snapshot) = mappedId)
<1>1. KnownIds \subseteq TeamIds /\ Namesakes(snapshot) \subseteq TeamIds
  BY DEF KnownIds, Known, Namesakes
<1> DEFINE free == {id \in TeamIds : teamDefs[Worker][id] = Missing}
<1>2. Lowest(free) \in TeamIds
  <2>1. free \in SUBSET TeamIds /\ free # {}
    OBVIOUS
  <2> HIDE DEF free
  <2> QED
    BY <2>1, LowestIs
<1>3. Namesakes(snapshot) # {} => Lowest(Namesakes(snapshot)) \in TeamIds
  BY <1>1, LowestIs
<1> QED
  BY <1>1, <1>2, <1>3 DEF WorkerId

(* What the worker has for the host's team after a bootstrap agrees with it,*)
(* unless its mapped definition was edited.                                 *)
LEMMA MatchIs ==
  ASSUME NEW id, NEW def, Proper(def), id \in KnownIds => \A node \in teamDefs[Worker][id].nodes : IsNode(node),
         mappedId = id /\ id \in KnownIds /\ "mapping" \notin edited => Signature(teamDefs[Worker][id]) = Signature(def)
  PROVE  LET made == MadeToMatch(id, Snapshot(def))
         IN  /\ made \notin {Missing, Gone}
             /\ \A node \in made.nodes : IsNode(node)
             /\ ~(mappedId = id /\ id \in KnownIds /\ "mapping" \in edited) => Signature(made) = Signature(def)
<1> DEFINE made == MadeToMatch(id, Snapshot(def))
<1>1. /\ Signature(Snapshot(def)) = Signature(def) /\ \A node \in Snapshot(def).nodes : IsNode(node)
      /\ Snapshot(def) \notin {Missing, Gone}
  BY SnapshotKeeps DEF Proper
<1>2. CASE made = Snapshot(def)
  BY <1>1, <1>2
<1>3. CASE made # Snapshot(def)
  <2>1. /\ id \in KnownIds /\ made = teamDefs[Worker][id]
        /\ mappedId = id \/ MatchesSnapshot(teamDefs[Worker][id], Snapshot(def))
    BY <1>3 DEF MadeToMatch
  <2>2. made \notin {Missing, Gone} /\ \A node \in made.nodes : IsNode(node)
    BY <2>1 DEF KnownIds, Known
  <2> QED
    BY <1>1, <2>1, <2>2 DEF MatchesSnapshot
<1> QED
  BY <1>2, <1>3

LEMMA BootstrapKeeps == MembersInv /\ Bootstrap => MembersInv'
<1> SUFFICES ASSUME MembersInv, Bootstrap
             PROVE  MembersInv'
  OBVIOUS
<1>1. TeamTypeOK /\ ManifestOK /\ TeamStaysKnown /\ HostCrewOK /\ MappingOK /\ HostRight /\ WorkerRight
  BY RightsTogether DEF MembersInv
<1>2. crew[Host] # Missing /\ crew[Host].team = dossier.team /\ record.made /\ dossier \in Dossiers
  BY <1>1 DEF Bootstrap, HostCrewOK, TeamTypeOK
<1>3. PICK id, def, made, defs, others, how, configs :
        /\ id = WorkerId(crew[Host].team, HostSnapshot)
        /\ def = teamDefs[Host][dossier.team] /\ made = MadeToMatch(id, Snapshot(def))
        /\ defs = [teamDefs[Worker] EXCEPT ![id] = made]
        /\ others = IF mappedId = id THEN edited ELSE edited \ {"mapping"}
        /\ how = [restored |-> crew[Host].how.restored, of |-> crew[Host].members,
                  clean |-> others = {} /\ SubteamsAlike(defs)]
        /\ configs = ReceivedConfigs
  OBVIOUS
<1>4. HostSnapshot = Snapshot(def)
  BY <1>2, <1>3 DEF HostSnapshot
<1>5. /\ \E free \in TeamIds : teamDefs[Worker][free] = Missing
      /\ teamDefs' = [teamDefs EXCEPT ![Worker] = defs] /\ mappedId' = id /\ edited' = others
      /\ TeamFor(id, defs, configs, how) \/ (crew' = crew /\ opened' = opened)
      /\ dossier' = dossier /\ record' = record
  BY <1>3, <1>4 DEF Bootstrap
<1>6. id \in TeamIds /\ (mappedId \in KnownIds => id = mappedId)
  BY <1>3, <1>5, WorkerIdIs
<1>7. Proper(def)
  BY <1>1, <1>2, <1>3 DEF TeamTypeOK, TeamStaysKnown
<1>8. /\ made \notin {Missing, Gone}
      /\ \A node \in made.nodes : IsNode(node)
      /\ ~(mappedId = id /\ id \in KnownIds /\ "mapping" \in edited) => Signature(made) = Signature(def)
  <2>1. id \in KnownIds => \A node \in teamDefs[Worker][id].nodes : IsNode(node)
    BY <1>1 DEF TeamTypeOK
  <2>2. mappedId = id /\ id \in KnownIds /\ "mapping" \notin edited => Signature(teamDefs[Worker][id]) = Signature(def)
    BY <1>1, <1>3, <1>6, TeamMembersAssumption DEF MappingOK
  <2> QED
    BY <1>3, <1>7, <2>1, <2>2, MatchIs
<1>9. /\ teamDefs' = [k \in Nodes |-> [i \in TeamIds |-> teamDefs'[k][i]]]
      /\ teamDefs'[Host] = teamDefs[Host] /\ teamDefs'[Worker] = defs
      /\ defs[id] = made /\ \A i \in TeamIds \ {id} : defs[i] = teamDefs[Worker][i]
  <2>1. Changed(Worker, id, made)
    BY <1>3, <1>5 DEF Changed
  <2>2. defs[id] = made
    <3>1. teamDefs[Worker] = [i \in TeamIds |-> teamDefs[Worker][i]]
      BY <1>1, NodesAre DEF TeamTypeOK
    <3> QED
      BY <1>3, <1>6, <3>1
  <2>3. teamDefs'[Worker] = defs
    BY <1>1, <1>5, NodesAre DEF TeamTypeOK
  <2> QED
    BY <1>1, <1>6, <2>1, <2>2, <2>3, ChangedIs, NodesAre
<1>10. \A i \in Known(defs) : \A node \in defs[i].nodes : IsNode(node)
  BY <1>1, <1>8, <1>9 DEF TeamTypeOK, Known, KnownIds
<1>11. /\ crew' = [k \in Nodes |-> crew'[k]] /\ opened' = [k \in Nodes |-> opened'[k]]
       /\ crew'[Host] = crew[Host] /\ opened'[Host] = opened[Host]
       /\ \/ crew'[Worker] = crew[Worker] \/ crew'[Worker] = Missing
          \/ crew'[Worker] = [team |-> id, configs |-> configs,
                              members |-> Built(Worker, defs, id, configs, opened[Worker]), how |-> how]
  <2>1. crew = [k \in Nodes |-> crew[k]] /\ opened = [k \in Nodes |-> opened[k]]
    BY <1>1 DEF TeamTypeOK
  <2>2. CASE crew' = crew /\ opened' = opened
    BY <2>1, <2>2
  <2>3. CASE crew' = [crew EXCEPT ![Worker] = Missing] /\ opened' = opened
    BY <2>1, <2>3, NodesAre
  <2>4. CASE Assembled(Worker, defs, id, configs, opened[Worker], how)
    <3>1. PICK open : open = opened[Worker]
      OBVIOUS
    <3>2. Assembled(Worker, defs, id, configs, open, how)
      BY <2>4, <3>1 DEF Assembled
    <3> QED
      BY <1>1, <3>1, <3>2, AssembledIs, NodesAre
  <2> QED
    BY <1>5, <2>2, <2>3, <2>4 DEF TeamFor
<1>12. TeamTypeOK'
  <2>1. \A i \in TeamIds : teamDefs'[Worker][i] \notin {Missing, Gone} =>
          \A node \in teamDefs'[Worker][i].nodes : IsNode(node)
    BY <1>9, <1>10 DEF Known
  <2>2. \A i \in TeamIds : teamDefs'[Host][i] \notin {Missing, Gone} => Proper(teamDefs'[Host][i])
    BY <1>1, <1>9 DEF TeamTypeOK, Known
  <2>3. \A i : Proper(teamDefs[Host][i])' <=> Proper(teamDefs'[Host][i])
    BY DEF Proper, IsNode, Snapshot, AtHome, Stated
  <2> QED
    BY <1>1, <1>5, <1>9, <1>11, <2>1, <2>2, <2>3 DEF TeamTypeOK, Known, KnownIds
<1>13. ManifestOK' /\ TeamStaysKnown'
  BY <1>1, <1>5, <1>9, <1>11, ManifestStays DEF TeamStaysKnown, Known
<1>14. HostCrewOK' /\ HostRight'
  BY <1>1, <1>3, <1>5, <1>9, <1>11, HostCrewStays, HostRightStays
<1>15. "mapping" \notin others => Signature(defs[id]) = Signature(def)
  BY <1>3, <1>8, <1>9
<1>16. MappingOK'
  <2>1. "mapping" \notin edited' => id \in KnownIds' /\ Signature(teamDefs'[Worker][id]) = Signature(teamDefs'[Host][dossier'.team])
    BY <1>3, <1>5, <1>6, <1>8, <1>9, <1>15 DEF KnownIds, Known
  <2> QED
    BY <1>5, <1>6, <2>1 DEF MappingOK, Signature, AtHome, Stated
<1>17. WorkerRight'
  <2>1. CASE crew'[Worker] = crew[Worker]
    BY <1>1, <1>5, <2>1, WorkerRightStays
  <2>2. CASE crew'[Worker] = Missing
    BY <2>2 DEF WorkerRight
  <2>3. CASE crew'[Worker] = [team |-> id, configs |-> configs,
                              members |-> Built(Worker, defs, id, configs, opened[Worker]), how |-> how]
    <3> SUFFICES ASSUME how.clean, NEW m \in how.of, m.home = Worker
                 PROVE  \E w \in Built(Worker, defs, id, configs, opened[Worker]) : RightAtWorker(m, w, how.restored)
      <4>1. /\ crew'[Worker].how = how
            /\ crew'[Worker].members = Built(Worker, defs, id, configs, opened[Worker])
        BY <2>3
      <4>2. \A x, w, r : RightAtWorker(x, w, r)' = RightAtWorker(x, w, r)
        BY <1>5, SameDossier
      <4> QED
        BY <4>1, <4>2 DEF WorkerRight
    <3>1. others = {} /\ SubteamsAlike(defs) /\ how.of = crew[Host].members /\ how.restored = crew[Host].how.restored
      BY <1>3
    <3>2. PICK here, team, open, restored :
            here = teamDefs[Host] /\ team = dossier.team /\ open = opened[Worker] /\ restored = how.restored
      OBVIOUS
    <3>3. crew[Host].configs = HostMade(restored)
      BY <1>1, <1>2, <3>1, <3>2 DEF HostCrewOK, HostMade
    <3>4. PICK known : crew[Host].members = Built(Host, here, team, HostMade(restored), known)
      BY <1>1, <1>2, <1>3, <3>1, <3>2, <3>3 DEF HostCrewOK
    <3>5. configs = [i \in DOMAIN HostMade(restored) |-> Received(HostMade(restored)[i])]
      BY <1>3, <3>3 DEF ReceivedConfigs, HostConfigs
    <3>6. \A t \in Known(here) : \A node \in here[t].nodes : IsNode(node)
      BY <1>1, <3>2 DEF TeamTypeOK, Proper
    <3>7. id \in Known(defs) /\ Signature(defs[id]) = Signature(here[team])
      BY <1>3, <1>6, <1>8, <1>9, <1>15, <3>1, <3>2 DEF Known
    <3>8. \A t \in Subteams(here, team) : t \in Known(defs) /\ Signature(defs[t]) = Signature(here[t])
      BY <1>2, <3>1, <3>2 DEF SubteamsAlike
    <3>9. m \in Built(Host, here, team, HostMade(restored), known)
      BY <3>1, <3>4
    <3>10. \E w \in Built(Worker, defs, id, [i \in DOMAIN HostMade(restored) |-> Received(HostMade(restored)[i])], open) :
             RightAtWorker(m, w, restored)
      BY <1>2, <1>10, <3>6, <3>7, <3>8, <3>9, WorkerIsRight
    <3> QED
      BY <3>2, <3>5, <3>10
  <2> QED
    BY <1>11, <2>1, <2>2, <2>3
<1>18. MembersAsConfigured'
  BY <1>14, <1>17, RightsTogether, PTL
<1> QED
  BY <1>12, <1>13, <1>14, <1>16, <1>18 DEF MembersInv

LEMMA MembersStart == TeamInit => MembersInv
<1> SUFFICES ASSUME TeamInit
             PROVE  MembersInv
  OBVIOUS
<1>1. /\ dossier \in Dossiers /\ teamDefs = dossier.defs /\ crew = [n \in Nodes |-> Missing] /\ ~record.made
      /\ opened = [n \in Nodes |-> dossier.opened[n]] /\ mappedId = Missing
  BY DEF TeamInit
<1>2. /\ dossier.defs = [n \in Nodes |-> [id \in TeamIds |-> dossier.defs[n][id]]]
      /\ \A n \in Nodes : \A id \in Known(dossier.defs[n]) : Proper(dossier.defs[n][id])
  BY <1>1, TeamMembersAssumption
<1>3. crew = [n \in Nodes |-> crew[n]] /\ opened = [n \in Nodes |-> opened[n]]
  BY <1>1
<1>4. TeamTypeOK
  BY <1>1, <1>2, <1>3, NodesAre DEF TeamTypeOK, KnownIds, Proper
<1>5. ManifestOK /\ TeamStaysKnown /\ MappingOK
  BY <1>1, NodesAre DEF ManifestOK, TeamStaysKnown, MappingOK
<1>6. HostCrewOK /\ MembersAsConfigured
  BY <1>1, NodesAre DEF HostCrewOK, MembersAsConfigured
<1> QED
  BY <1>4, <1>5, <1>6 DEF MembersInv

LEMMA MembersStay == MembersInv /\ [TeamNext]_teamVars => MembersInv'
  BY CreateKeeps, RestoreKeeps, EditKeeps, BootstrapKeeps, HostRestartKeeps, WorkerEditKeeps, WorkerRestartKeeps,
     NothingKeepsMembers DEF TeamNext, TeamRequest

THEOREM MembersInvariance == TeamSpec => []MembersInv
<1> QED
  BY MembersStart, MembersStay, PTL DEF TeamSpec

(* What is configured for a member of a team reaches it: on the host when   *)
(* the team is created or restored, and on the worker it is at home on, as  *)
(* long as no definition was changed and the nested teams are the same.     *)
THEOREM MembersGetTheirConfiguration == TeamSpec => []MembersAsConfigured
<1>1. MembersInv => MembersAsConfigured
  BY DEF MembersInv
<1> QED
  BY <1>1, MembersInvariance, PTL
================================================================================
