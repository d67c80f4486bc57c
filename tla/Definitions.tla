------------------------------ MODULE Definitions ------------------------------
(****************************************************************************)
(* What a node knows of prompts, agents, teams and MCP servers: database    *)
(* rows behind caches that hold every row, the mapping from agents to       *)
(* prompts, the prompt loader's templates and the MCP tool registry; and    *)
(* what the services do to them when GraphQL mutations, agent tools and the *)
(* start of the server call them.                                           *)
(*                                                                          *)
(* A caller has an agenda of jobs, each the requests that one GraphQL       *)
(* operation or one tool makes of the services.  A request advances at its  *)
(* awaits: the population of a cache, a database call, the registration of  *)
(* tools, the lookup of a model's name.  Answers of the database arrive in the     *)
(* order of its writes, so a write and the callback that follows are one    *)
(* step.  Agents, teams and servers are known by their unique names; a      *)
(* prompt family is a name and category, and "suits" says whether a prompt  *)
(* names models (the database always does).  A cached agent's prompt is the *)
(* one of the mapping, which every read of the agent asks for.              *)
(*                                                                          *)
(* Bounds: every caller has one agenda; MaxPrompts rows are ever created    *)
(* (no less than the agendas create); the server restarts, and database,    *)
(* tool servers and model lookups fail, MaxFaults times together.           *)
(****************************************************************************)
EXTENDS Naturals, Sequences, FiniteSets

CONSTANTS
  Callers,
  Workloads,  \* the agendas the callers may have together
  Families, Texts, Agents, Teams, Servers,
  MaxPrompts, MaxFaults,
  Stored,     \* the rows and mappings at the start
  None

PromptIds == 1 .. MaxPrompts

Keys == [prompt |-> PromptIds, agent |-> Agents, team |-> Teams, mcp |-> Servers]
Kinds == DOMAIN Keys

Phrases == Texts \cup {None}
PromptRows == [family : Families, text : Phrases, active : BOOLEAN, suits : BOOLEAN, version : Nat]
RowOf == [prompt |-> PromptRows, agent |-> [text : Phrases], team |-> [text : Phrases], mcp |-> [enabled : BOOLEAN]]
Tables(k) == [Keys[k] -> RowOf[k] \cup {None}]

Jobs == UNION {UNION {{w[c][i] : i \in DOMAIN w[c]} : c \in Callers} : w \in Workloads}
Requests == UNION {{job[i] : i \in DOMAIN job} : job \in Jobs}

(* what a request is about                                                  *)
WellFormed(r) ==
  /\ r.do = "read" => r.kind \in Kinds /\ r.key \in Keys[r.kind] \cup {None}
  /\ r.do \in {"revise", "updatePrompt", "markActive", "deletePrompt"} => r.key \in PromptIds
  /\ r.do \in {"load", "createAgent", "updateAgent", "deleteAgent"} => r.key \in Agents
  /\ r.do \in {"createTeam", "updateTeam", "deleteTeam"} => r.key \in Teams
  /\ r.do \in {"configure", "discover", "deleteServer"} => r.key \in Servers
  /\ r.do \in {"createPrompt", "createAgent"} => r.family \in Families
  /\ r.do = "updateAgent" => r.family \in Families \cup {None}
  /\ r.do \in {"createPrompt", "revise", "updatePrompt", "updateAgent", "createTeam", "updateTeam"} => r.text \in Phrases
  /\ r.do = "updatePrompt" => r.active \in BOOLEAN
  /\ r.do = "configure" => r.enabled \in BOOLEAN

(* The server starts with the rows a server left behind: ids given in turn, *)
(* prompts with models, one active prompt in a family, agents with prompts. *)
ASSUME DefinitionsAssumption ==
  /\ MaxPrompts \in Nat /\ MaxFaults \in Nat
  /\ None \notin Families /\ None \notin Requests /\ \A k \in Kinds : None \notin RowOf[k]
  /\ \A w \in Workloads : w \in [Callers -> Seq(Jobs)]
  /\ \A job \in Jobs : job \in Seq(Requests) /\ job # <<>>
  /\ \A r \in Requests : WellFormed(r)
  /\ Stored.rows = [k \in Kinds |-> Stored.rows[k]] /\ \A k \in Kinds : Stored.rows[k] \in Tables(k)
  /\ Stored.mapping \in [Agents -> Families \cup {None}]
  /\ \A a \in Agents : Stored.rows.agent[a] # None => Stored.mapping[a] # None
  /\ \E n \in 0 .. MaxPrompts : \A p \in PromptIds : Stored.rows.prompt[p] # None <=> p <= n
  /\ \A p \in PromptIds : Stored.rows.prompt[p] # None => Stored.rows.prompt[p].suits
  /\ \A p, q \in PromptIds :
       LET P == Stored.rows.prompt[p]
           Q == Stored.rows.prompt[q]
       IN  P # None /\ Q # None /\ P.family = Q.family /\ P.active /\ Q.active => p = q

VARIABLES
  db,         \* the tables: a row or None for every key of a kind
  cache,      \* the caching providers: known (populated) and rows
  reading,    \* populatePromise: "no", "reading" (with what was read), "broken"
  mapping,    \* agent_prompt_mappings: the family of an agent, or None
  template,   \* PromptLoader.cache
  registered, \* servers whose tools are registered
  call,       \* the callers
  lastId,     \* the autoincrement id of prompts
  faults,
  torn,       \* history: rows that were written by halves or while a cache was read
  crowded     \* history: families and servers two calls worked on at once

vars == <<db, cache, reading, mapping, template, registered, call, lastId, faults, torn, crowded>>

Rows(k) == cache[k].rows
Present(k, key) == Rows(k)[key] # None
Family(f) == {p \in PromptIds : Present("prompt", p) /\ Rows("prompt")[p].family = f}
Suited(S) == {p \in S : Rows("prompt")[p].suits}
Active(S) == {p \in S : Present("prompt", p) /\ Rows("prompt")[p].active}
Largest(S) == CHOOSE n \in S \cup {0} : \A m \in S : n >= m

Blank == [known |-> FALSE, text |-> None, stale |-> FALSE]
NoCall == [at |-> "idle", req |-> None, job |-> <<>>, agenda |-> <<>>, write |-> None,
           rest |-> {}, was |-> {}, raced |-> FALSE]

Init ==
  /\ db = Stored.rows
  /\ cache = [k \in Kinds |-> [known |-> FALSE, rows |-> [key \in Keys[k] |-> None]]]
  /\ reading = [k \in Kinds |-> [at |-> "no", rows |-> [key \in Keys[k] |-> None]]]
  /\ mapping = Stored.mapping
  /\ template = [a \in Agents |-> Blank]
  /\ registered = {}
  /\ \E agendas \in Workloads : call = [c \in Callers |-> [NoCall EXCEPT !.agenda = agendas[c]]]
  /\ lastId = Cardinality({p \in PromptIds : Stored.rows.prompt[p] # None})
  /\ faults = 0
  /\ torn = {}
  /\ crowded = {}

-----------------------------------------------------------------------------
(* How requests go on and end                                               *)

Req(c) == call[c].req
To(c, record) == call' = [call EXCEPT ![c] = record]
At(c, place) == [call[c] EXCEPT !.at = place]

(* the next request of the job, or the next job, or the end                 *)
Done(r) ==
  IF r.job # <<>>
  THEN [NoCall EXCEPT !.at = "begin", !.req = Head(r.job), !.job = Tail(r.job), !.agenda = r.agenda]
  ELSE IF r.agenda # <<>>
       THEN [NoCall EXCEPT !.at = "begin", !.req = Head(Head(r.agenda)), !.job = Tail(Head(r.agenda)),
                           !.agenda = Tail(r.agenda)]
       ELSE [NoCall EXCEPT !.at = "end"]

(* what a request throws ends its job and is answered to the caller         *)
Thrown(r) == Done([r EXCEPT !.job = <<>>])

Finish(c) == To(c, Done(call[c]))
Fail(c) == To(c, Thrown(call[c]))
Fault == faults < MaxFaults /\ faults' = faults + 1

Begin(c) ==
  /\ call[c].at = "idle"
  /\ Finish(c)
  /\ UNCHANGED <<db, cache, reading, mapping, template, registered, lastId, faults, torn>>

-----------------------------------------------------------------------------
(* The caches                                                               *)

(* the caches a request awaits before it looks at anything.  Creations of   *)
(* teams and deletions of prompts and servers go straight to the database.  *)
Needs(r) ==
  IF r.at = "refer" THEN {"prompt"} ELSE IF r.at # "begin" THEN {} ELSE
  CASE r.req.do = "read" -> {r.req.kind}
    [] r.req.do \in {"createPrompt", "revise", "updatePrompt", "markActive", "createAgent"} -> {"prompt"}
    [] r.req.do \in {"updateAgent", "deleteAgent"} -> {"agent"}
    [] r.req.do \in {"updateTeam", "deleteTeam"} -> {"team"}
    [] r.req.do \in {"configure", "discover", "loadAll"} -> {"mcp"}
    [] r.req.do = "load" /\ ~template[r.req.key].known -> {"agent", "prompt"}
    [] OTHER -> {}

Waiting(k) == {c \in Callers : k \in Needs(call[c])}
Doing(c, what) ==
  /\ call[c].at = "begin" /\ Req(c).do = what
  /\ \A k \in Needs(call[c]) : cache[k].known

(* ensureCachePopulated: the first caller starts the read, all await it     *)
Populate(k) ==
  /\ Waiting(k) # {}
  /\ ~cache[k].known
  /\ reading[k].at = "no"
  /\ reading' = [reading EXCEPT ![k] = [at |-> "reading", rows |-> db[k]]]
  /\ UNCHANGED <<db, cache, mapping, template, registered, call, lastId, faults, torn>>

Populated(k) ==
  /\ reading[k].at = "reading"
  /\ cache' = [cache EXCEPT ![k] = [known |-> TRUE, rows |-> reading[k].rows]]
  /\ reading' = [reading EXCEPT ![k] = [at |-> "no", rows |-> [key \in Keys[k] |-> None]]]
  /\ UNCHANGED <<db, mapping, template, registered, call, lastId, faults, torn>>

(* the rejected promise is kept, except by the provider of MCP servers      *)
PopulateFails(k) ==
  /\ reading[k].at = "reading"
  /\ Fault
  /\ reading' = [reading EXCEPT ![k] = [at |-> IF k = "mcp" THEN "no" ELSE "broken",
                                        rows |-> [key \in Keys[k] |-> None]]]
  /\ call' = [c \in Callers |-> IF c \in Waiting(k) THEN Thrown(call[c]) ELSE call[c]]
  /\ UNCHANGED <<db, cache, mapping, template, registered, lastId, torn>>

(* (slip: a later caller awaits the read that failed and is told nothing)   *)
StillBrokenUntold(c) ==
  /\ \E k \in Needs(call[c]) : reading[k].at = "broken"
  /\ UNCHANGED <<db, cache, reading, mapping, template, registered, call, lastId, faults, torn>>

(* every later caller of the cache gets the same rejection                  *)
StillBroken(c) ==
  /\ \E k \in Needs(call[c]) : reading[k].at = "broken"
  /\ Fail(c)
  /\ UNCHANGED <<db, cache, reading, mapping, template, registered, lastId, faults, torn>>

-----------------------------------------------------------------------------
(* Calls of the database                                                    *)

Write(mode, kind, key, row) == [mode |-> mode, kind |-> kind, key |-> key, row |-> row]
Issue(c, write) == To(c, [At(c, "write") EXCEPT !.write = write])

(* an update changes the object in the cache before the database is asked   *)
ChangeInPlace(kind, key, row) == cache' = [cache EXCEPT ![kind].rows[key] = row]

(* whether the database takes a write: unique indexes and existing rows     *)
Takes(w) ==
  CASE w.mode = "create" /\ w.kind = "prompt" ->
         \A p \in PromptIds : db.prompt[p] # None =>
           <<db.prompt[p].family, db.prompt[p].version>> # <<w.row.family, w.row.version>>
    [] w.mode = "create" /\ w.kind # "prompt" -> db[w.kind][w.key] = None
    [] w.mode = "update" -> db[w.kind][w.key] # None
    [] w.mode = "delete" -> TRUE

(* what the database keeps: models that were blanked stay as they were      *)
Kept(w) == IF w.kind = "prompt" /\ w.row # None THEN [w.row EXCEPT !.suits = TRUE] ELSE w.row

(* (slip: a removal does not reach the cache)                               *)
CacheKeepingRemoved(w, key) ==
  IF cache[w.kind].known /\ w.row # None THEN [cache EXCEPT ![w.kind].rows[key] = Kept(w)] ELSE cache

(* the provider puts what the database answered into a populated cache      *)
CacheAfter(w, key) ==
  IF cache[w.kind].known THEN [cache EXCEPT ![w.kind].rows[key] = Kept(w)] ELSE cache

(* (slip: a removal leaves the loader's templates)                          *)
TemplatesKeptOnRemoval(w, key) ==
  CASE w.kind = "prompt" /\ w.row # None -> [a \in Agents |-> Blank]
    [] w.kind = "agent" /\ w.mode = "create" -> [template EXCEPT ![key] = Blank]
    [] OTHER -> template

(* every change of a prompt clears the loader; a new agent has a new id     *)
TemplatesAfter(w, key) ==
  CASE w.kind = "prompt" /\ (w.row # None \/ db.prompt[key] # None) -> [a \in Agents |-> Blank]
    [] w.kind = "agent" /\ w.mode = "create" -> [template EXCEPT ![key] = Blank]
    [] OTHER -> template

(* a disabled server loses its tools                                        *)
ToolsAfter(w, key) ==
  IF w.kind = "mcp" /\ w.row # None /\ ~w.row.enabled THEN registered \ {key} ELSE registered

(* where a request goes when its write is done                              *)
AfterWrite(r, key) ==
  CASE r.req.do = "markActive" /\ key # r.req.key -> [r EXCEPT !.at = "marking", !.write = None]
    [] r.req.do = "createAgent" /\ r.write.mode = "create" -> [r EXCEPT !.at = "map", !.write = None]
    [] r.req.do = "updateAgent" /\ r.req.family # None -> [r EXCEPT !.at = "refer", !.write = None]
    [] r.req.do = "createAgent" /\ r.write.mode # "create" -> Thrown(r)
    [] OTHER -> Done(r)

Written(c) ==
  LET w == call[c].write
      new == w.mode = "create" /\ w.kind = "prompt"
      key == IF new THEN lastId + 1 ELSE w.key
  IN  /\ call[c].at = "write"
      /\ Takes(w)
      /\ key \in Keys[w.kind]
      /\ lastId' = IF new THEN key ELSE lastId
      /\ db' = [db EXCEPT ![w.kind][key] = Kept(w)]
      /\ cache' = CacheAfter(w, key)
      /\ torn' = IF reading[w.kind].at = "reading" THEN torn \cup {<<w.kind, key>>} ELSE torn
      /\ mapping' = IF w.kind = "agent" /\ w.row = None THEN [mapping EXCEPT ![key] = None] ELSE mapping
      /\ template' = TemplatesAfter(w, key)
      /\ registered' = ToolsAfter(w, key)
      /\ call' = [d \in Callers |->
                    IF d = c THEN AfterWrite(call[c], key)
                    ELSE IF w.kind = "prompt" /\ call[d].at = "naming" THEN [call[d] EXCEPT !.raced = TRUE]
                    ELSE call[d]]
      /\ UNCHANGED <<reading, faults>>

(* the database refuses: a conflict, a row that is gone, or a failure.  The *)
(* object an update changed in the cache stays changed.                     *)
WriteFails(c) ==
  LET w == call[c].write
  IN  /\ call[c].at = "write"
      /\ (~Takes(w) /\ UNCHANGED faults) \/ (Takes(w) /\ Fault)
      /\ torn' = IF w.mode = "create" THEN torn ELSE torn \cup {<<w.kind, w.key>>}
      /\ Fail(c)
      /\ UNCHANGED <<db, cache, reading, mapping, template, registered, lastId>>

-----------------------------------------------------------------------------
(* Prompts                                                                  *)

Others(c) == UNCHANGED <<db, reading, mapping, template, registered, lastId, faults, torn>>

NewVersion(c, f, text) ==
  LET family == Suited(Family(f))
  IN  Issue(c, Write("create", "prompt", 0,
        [family |-> f, text |-> text, active |-> family = {}, suits |-> TRUE,
         version |-> Largest({Rows("prompt")[p].version : p \in family}) + 1]))

CreatePrompt(c) ==
  /\ Doing(c, "createPrompt")
  /\ NewVersion(c, Req(c).family, Req(c).text)
  /\ Others(c) /\ UNCHANGED cache

(* addNewPromptRevision, also of the tools that patch or rewrite a prompt   *)
Revise(c) ==
  /\ Doing(c, "revise")
  /\ IF Present("prompt", Req(c).key)
     THEN NewVersion(c, Rows("prompt")[Req(c).key].family, Req(c).text)
     ELSE Fail(c)
  /\ Others(c) /\ UNCHANGED cache

Change(c, kind, key, row) ==
  ChangeInPlace(kind, key, row) /\ Issue(c, Write("update", kind, key, row))

(* the mutation and the tool pass null for the models they are not given    *)
UpdatePrompt(c) ==
  LET key == Req(c).key
      row == Rows("prompt")[key]
  IN  /\ Doing(c, "updatePrompt")
      /\ IF Present("prompt", key)
         THEN Change(c, "prompt", key, [row EXCEPT !.text = IF Req(c).text = None THEN @ ELSE Req(c).text,
                                                   !.suits = FALSE, !.active = @ \/ Req(c).active])
         ELSE Fail(c) /\ UNCHANGED cache
      /\ Others(c)

(* the members of a prompt's family: of its models, or of any if it has none *)
Relatives(p) ==
  LET all == Family(Rows("prompt")[p].family)
  IN  IF Rows("prompt")[p].suits THEN Suited(all) ELSE all

(* (slip: the family of a prompt is only itself)                            *)
MarkActiveAlone(c) ==
  LET key == Req(c).key
  IN  /\ Doing(c, "markActive")
      /\ IF Present("prompt", key) THEN To(c, At(c, "marking")) ELSE Fail(c)
      /\ Others(c) /\ UNCHANGED cache

MarkActive(c) ==
  LET key == Req(c).key
  IN  /\ Doing(c, "markActive")
      /\ IF Present("prompt", key)
         THEN To(c, [At(c, "marking") EXCEPT !.rest = Relatives(key) \ {key},
                                              !.was = Active(Relatives(key))])
         ELSE Fail(c)
      /\ Others(c) /\ UNCHANGED cache

(* the loop over the family as it was found, one update after the other.    *)
(* Whether a relative that changed since counts as active depends on which  *)
(* object changed, the one that was found or its replacement.               *)
Deactivate(c) ==
  /\ call[c].at = "marking"
  /\ \E p \in call[c].rest :
       /\ p \in call[c].was \/ p \in Active(PromptIds)
       /\ IF Present("prompt", p)
          THEN LET row == [Rows("prompt")[p] EXCEPT !.active = FALSE]
               IN  /\ ChangeInPlace("prompt", p, row)
                   /\ To(c, [At(c, "write") EXCEPT !.rest = @ \ {p},
                                                   !.write = Write("update", "prompt", p, row)])
          ELSE Fail(c) /\ UNCHANGED cache
  /\ Others(c)

Activate(c) ==
  LET key == Req(c).key
  IN  /\ call[c].at = "marking"
      /\ call[c].rest \cap call[c].was \cap Active(PromptIds) = {}
      /\ IF Present("prompt", key)
         THEN Change(c, "prompt", key, [Rows("prompt")[key] EXCEPT !.active = TRUE])
         ELSE Fail(c) /\ UNCHANGED cache
      /\ Others(c)

DeletePrompt(c) ==
  /\ Doing(c, "deletePrompt")
  /\ Issue(c, Write("delete", "prompt", Req(c).key, None))
  /\ Others(c) /\ UNCHANGED cache

-----------------------------------------------------------------------------
(* The prompt loader, asked for an agent's system prompt                    *)

(* an agent without a mapping, or a family without an active prompt: None   *)
(* is kept as the template                                                  *)
Load(c) ==
  LET a == Req(c).key
      found == IF Present("agent", a) /\ mapping[a] # None THEN Active(Family(mapping[a])) ELSE {}
  IN  /\ Doing(c, "load")
      /\ IF ~template[a].known /\ found # {}
         THEN To(c, [At(c, "naming") EXCEPT !.was = found]) /\ UNCHANGED template
         ELSE /\ template' = IF template[a].known THEN template
                             ELSE [template EXCEPT ![a] = [known |-> TRUE, text |-> None, stale |-> FALSE]]
              /\ Finish(c)
      /\ UNCHANGED <<db, cache, reading, mapping, registered, lastId, faults, torn>>

(* the model's name is known: the first found prompt that suits.  A change  *)
(* since the prompts were found cleared the templates before this one is    *)
(* kept, and it is kept all the same; so is the nothing of an unknown name. *)
Named(c) ==
  LET a == Req(c).key
      kept(text, stale) == template' = [template EXCEPT ![a] = [known |-> TRUE, text |-> text, stale |-> stale]]
      suited == {p \in call[c].was : Present("prompt", p) /\ Rows("prompt")[p].suits}
  IN  /\ call[c].at = "naming"
      /\ \/ call[c].raced /\ kept(None, TRUE) /\ UNCHANGED faults
         \/ Fault /\ kept(None, TRUE)
         \/ ~call[c].raced /\ suited = {} /\ kept(None, FALSE) /\ UNCHANGED faults
         \/ ~call[c].raced /\ UNCHANGED faults
            /\ \E p \in suited : kept(Rows("prompt")[p].text, FALSE)
      /\ Finish(c)
      /\ UNCHANGED <<db, cache, reading, mapping, registered, lastId, torn>>

-----------------------------------------------------------------------------
(* Agents and teams                                                         *)

(* a new agent needs a family with at least one prompt                      *)
CreateAgent(c) ==
  /\ Doing(c, "createAgent")
  /\ IF Family(Req(c).family) # {}
     THEN Issue(c, Write("create", "agent", Req(c).key, [text |-> None]))
     ELSE Fail(c)
  /\ Others(c) /\ UNCHANGED cache

UpdateAgent(c) ==
  /\ Doing(c, "updateAgent")
  /\ IF Present("agent", Req(c).key)
     THEN Change(c, "agent", Req(c).key, [text |-> Req(c).text])
     ELSE Fail(c) /\ UNCHANGED cache
  /\ Others(c)

(* the row is already changed when the new family turns out not to exist    *)
Refer(c) ==
  /\ call[c].at = "refer" /\ cache.prompt.known
  /\ IF Family(Req(c).family) # {} THEN To(c, At(c, "map")) ELSE Fail(c)
  /\ Others(c) /\ UNCHANGED cache

(* the mapping is upserted; nobody clears the loader's templates            *)
Mapped(c) ==
  LET a == Req(c).key
  IN  /\ call[c].at = "map" /\ db.agent[a] # None
      /\ mapping' = [mapping EXCEPT ![a] = Req(c).family]
      /\ template' = [template EXCEPT ![a].stale = @ \/ template[a].known]
      /\ call' = [d \in Callers |->
                    IF d = c THEN Done(call[c])
                    ELSE IF call[d].at = "naming" /\ Req(d).key = a THEN [call[d] EXCEPT !.raced = TRUE]
                    ELSE call[d]]
      /\ UNCHANGED <<db, cache, reading, registered, lastId, faults, torn>>

(* (slip: the new agent is kept when its mapping failed)                    *)
MapFailsAndAgentStays(c) ==
  /\ call[c].at = "map"
  /\ (db.agent[Req(c).key] = None /\ UNCHANGED faults) \/ (db.agent[Req(c).key] # None /\ Fault)
  /\ Finish(c)
  /\ UNCHANGED <<db, cache, reading, mapping, template, registered, lastId, torn>>

(* a new agent is taken back when its mapping fails                         *)
MapFails(c) ==
  /\ call[c].at = "map"
  /\ (db.agent[Req(c).key] = None /\ UNCHANGED faults) \/ (db.agent[Req(c).key] # None /\ Fault)
  /\ IF Req(c).do = "createAgent" THEN Issue(c, Write("delete", "agent", Req(c).key, None)) ELSE Fail(c)
  /\ UNCHANGED <<db, cache, reading, mapping, template, registered, lastId, torn>>

DeleteAgent(c) ==
  /\ Doing(c, "deleteAgent")
  /\ IF Present("agent", Req(c).key) THEN To(c, At(c, "unmap")) ELSE Fail(c)
  /\ Others(c) /\ UNCHANGED cache

(* that the mapping could not be deleted is only logged                     *)
Unmapped(c) ==
  /\ call[c].at = "unmap"
  /\ \/ mapping' = [mapping EXCEPT ![Req(c).key] = None] /\ UNCHANGED faults
     \/ Fault /\ UNCHANGED mapping
  /\ Issue(c, Write("delete", "agent", Req(c).key, None))
  /\ UNCHANGED <<db, cache, reading, template, registered, lastId, torn>>

CreateTeam(c) ==
  /\ Doing(c, "createTeam")
  /\ Issue(c, Write("create", "team", Req(c).key, [text |-> Req(c).text]))
  /\ Others(c) /\ UNCHANGED cache

UpdateTeam(c) ==
  /\ Doing(c, "updateTeam")
  /\ IF Present("team", Req(c).key)
     THEN Change(c, "team", Req(c).key, [text |-> Req(c).text])
     ELSE Fail(c) /\ UNCHANGED cache
  /\ Others(c)

DeleteTeam(c) ==
  /\ Doing(c, "deleteTeam")
  /\ IF Present("team", Req(c).key) THEN Issue(c, Write("delete", "team", Req(c).key, None)) ELSE Fail(c)
  /\ Others(c) /\ UNCHANGED cache

-----------------------------------------------------------------------------
(* MCP servers and their tools                                              *)

Configure(c) ==
  LET key == Req(c).key
      mode == IF Present("mcp", key) THEN "update" ELSE "create"
  IN  /\ Doing(c, "configure")
      /\ Issue(c, Write(mode, "mcp", key, [enabled |-> Req(c).enabled]))
      /\ Others(c) /\ UNCHANGED cache

Discover(c) ==
  LET key == Req(c).key
  IN  /\ Doing(c, "discover")
      /\ IF Present("mcp", key) /\ Rows("mcp")[key].enabled
         THEN To(c, At(c, "register")) /\ UNCHANGED registered
         ELSE IF Present("mcp", key)
         THEN Finish(c) /\ registered' = registered \ {key}
         ELSE Fail(c) /\ UNCHANGED registered
      /\ UNCHANGED <<db, cache, reading, mapping, template, lastId, faults, torn>>

(* the server has answered with its tools, or has not                       *)
Registered(c) ==
  /\ call[c].at = "register"
  /\ \/ registered' = registered \cup {Req(c).key} /\ Finish(c) /\ UNCHANGED faults
     \/ Fault /\ Fail(c) /\ UNCHANGED registered
  /\ UNCHANGED <<db, cache, reading, mapping, template, lastId, torn>>

(* loadAllAndRegister, when the server starts                               *)
LoadAll(c) ==
  /\ Doing(c, "loadAll")
  /\ To(c, [At(c, "reload") EXCEPT !.rest = {s \in Servers : Present("mcp", s) /\ Rows("mcp")[s].enabled}])
  /\ Others(c) /\ UNCHANGED cache

Reloaded(c) ==
  /\ call[c].at = "reload"
  /\ \/ registered' = call[c].rest /\ UNCHANGED faults
     \/ Fault /\ \E s \in call[c].rest : registered' = call[c].rest \ {s}
  /\ Finish(c)
  /\ UNCHANGED <<db, cache, reading, mapping, template, lastId, torn>>

(* (slip: the tools of a deleted server stay)                               *)
DeleteServerOnly(c) ==
  /\ Doing(c, "deleteServer")
  /\ Issue(c, Write("delete", "mcp", Req(c).key, None))
  /\ Others(c) /\ UNCHANGED cache

(* the tools go before the row                                              *)
DeleteServer(c) ==
  /\ Doing(c, "deleteServer")
  /\ registered' = registered \ {Req(c).key}
  /\ Issue(c, Write("delete", "mcp", Req(c).key, None))
  /\ UNCHANGED <<db, cache, reading, mapping, template, lastId, faults, torn>>

(* the tools of a server that is only asked for them                        *)
Preview(c) ==
  /\ Doing(c, "preview")
  /\ (Finish(c) /\ UNCHANGED faults) \/ (Fail(c) /\ Fault)
  /\ UNCHANGED <<db, cache, reading, mapping, template, registered, lastId, torn>>

-----------------------------------------------------------------------------
(* Reads of a cache (a key of None reads all) and the end of the process    *)

Read(c) ==
  /\ Doing(c, "read")
  /\ IF Req(c).key = None \/ Present(Req(c).kind, Req(c).key) THEN Finish(c) ELSE Fail(c)
  /\ Others(c) /\ UNCHANGED cache

(* the server restarts: what is in memory is gone, and with it the requests *)
(* under way                                                                *)
Restart ==
  /\ Fault
  /\ cache' = [k \in Kinds |-> [known |-> FALSE, rows |-> [key \in Keys[k] |-> None]]]
  /\ reading' = [k \in Kinds |-> [at |-> "no", rows |-> [key \in Keys[k] |-> None]]]
  /\ template' = [a \in Agents |-> Blank]
  /\ registered' = {}
  /\ torn' = torn \cup {<<"agent", Req(c).key>> :
                          c \in {d \in Callers : /\ call[d].at \in {"map", "write"}
                                                 /\ Req(d).do \in {"createAgent", "deleteAgent"}}}
  /\ call' = [c \in Callers |-> IF call[c].at \in {"idle", "end"} THEN call[c] ELSE Thrown(call[c])]
  /\ UNCHANGED <<db, mapping, lastId>>

-----------------------------------------------------------------------------
Step(c) ==
  \/ Begin(c) \/ StillBroken(c) \/ Written(c) \/ WriteFails(c)
  \/ CreatePrompt(c) \/ Revise(c) \/ UpdatePrompt(c) \/ MarkActive(c) \/ Deactivate(c)
  \/ Activate(c) \/ DeletePrompt(c) \/ Load(c) \/ Named(c)
  \/ CreateAgent(c) \/ UpdateAgent(c) \/ Refer(c) \/ Mapped(c) \/ MapFails(c)
  \/ DeleteAgent(c) \/ Unmapped(c) \/ CreateTeam(c) \/ UpdateTeam(c) \/ DeleteTeam(c)
  \/ Configure(c) \/ Discover(c) \/ Registered(c) \/ LoadAll(c) \/ Reloaded(c) \/ DeleteServer(c)
  \/ Preview(c) \/ Read(c)

(* history: the families and servers a request is at work on                *)
Touched(r) ==
  IF r.at \in {"idle", "end", "naming"} THEN {} ELSE
  CASE r.req.do = "createPrompt" -> {r.req.family}
    [] r.req.do \in {"revise", "updatePrompt", "markActive", "deletePrompt"} ->
         {row.family : row \in {db.prompt[r.req.key], Rows("prompt")[r.req.key]} \ {None}}
    [] r.req.do \in {"configure", "discover", "deleteServer"} -> {r.req.key}
    [] r.req.do = "loadAll" -> Servers
    [] OTHER -> {}

History ==
  crowded' = crowded
    \cup (UNION {(Touched(call[p[1]])' \cap Touched(call[p[2]])') : p \in {q \in Callers \X Callers : q[1] # q[2]}})
    \cup (UNION {Touched(call[c])' : c \in {d \in Callers : call'[d].req # None /\ call'[d].req.do = "updatePrompt"
                                                           /\ call'[d].req.active}})

Advance ==
  \/ \E c \in Callers : Step(c)
  \/ \E k \in Kinds : Populate(k) \/ Populated(k) \/ PopulateFails(k)

Next == (Advance \/ Restart) /\ History

(* the database, the tool servers and the model lookup answer: as long as   *)
(* something can go on without a failure, something does                    *)
Fairness == WF_vars(Advance /\ UNCHANGED faults /\ History)

Spec == Init /\ [][Next]_vars /\ Fairness

-----------------------------------------------------------------------------
(* Properties                                                               *)

InFlight(kind, key) ==
  \E c \in Callers : call[c].at = "write" /\ call[c].write.kind = kind /\ call[c].write.key = key

(* A populated cache holds the rows of the database, except the rows an     *)
(* update has changed in the cache and not yet, or not, in the database,    *)
(* and those written while the cache was being read.                        *)
CacheIsDatabase ==
  \A k \in Kinds : cache[k].known =>
    \A key \in Keys[k] : cache[k].rows[key] = db[k][key] \/ InFlight(k, key) \/ <<k, key>> \in torn

(* However creations, revisions, activations and removals of different      *)
(* families interleave, a family has one active prompt at most, unless two  *)
(* calls worked on it at once, one set the activity of a single prompt, or  *)
(* a row of it is torn.                                                     *)
OneActivePerFamily ==
  \A p, q \in PromptIds :
    /\ p # q /\ db.prompt[p] # None /\ db.prompt[q] # None
    /\ db.prompt[p].family = db.prompt[q].family /\ db.prompt[p].active /\ db.prompt[q].active
    => db.prompt[p].family \in crowded \/ \E r \in PromptIds : <<"prompt", r>> \in torn

(* An agent has its prompt: only an agent that is being created or deleted, *)
(* whose removal the database refused, or whose creation or removal a       *)
(* restart cut in two, is without a mapping.                                *)
AgentHasPrompt ==
  \A a \in Agents : db.agent[a] # None /\ mapping[a] = None =>
    \/ <<"agent", a>> \in torn
    \/ \E c \in Callers : /\ call[c].at \in {"map", "write"}
                          /\ Req(c).do \in {"createAgent", "deleteAgent"} /\ Req(c).key = a

(* The template the loader keeps for an agent is what the agent's family    *)
(* says in the database, once no prompt is being written; except one that   *)
(* was kept by a load a change had overtaken, and one of an agent that was  *)
(* given another family.                                                    *)
TemplateIsCurrent ==
  \A a \in Agents :
    LET active == {p \in PromptIds : db.prompt[p] # None /\ db.prompt[p].family = mapping[a] /\ db.prompt[p].active}
    IN  /\ template[a].known /\ ~template[a].stale /\ db.agent[a] # None /\ mapping[a] # None
        /\ torn = {}
        /\ \A c \in Callers : call[c].at = "write" => call[c].write.kind # "prompt"
        => IF active = {} THEN template[a].text = None
           ELSE template[a].text \in {db.prompt[p].text : p \in active}

(* Tools are registered for configured, enabled servers only, unless two    *)
(* calls worked on the server at once or its row was torn.                  *)
ToolsOfEnabledServers ==
  \A s \in registered :
    \/ db.mcp[s] # None /\ db.mcp[s].enabled
    \/ s \in crowded \/ <<"mcp", s>> \in torn

(* Every call ends: those that wait for the read of a cache that fails,     *)
(* those that come after it, and those that others overtake.                *)
CallsEnd == <>(\A c \in Callers : call[c].at = "end")
=============================================================================
