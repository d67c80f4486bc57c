-------------------------------- MODULE Skills ---------------------------------
(****************************************************************************)
(* The skills of a node: folders with a SKILL.md below a default directory  *)
(* and below configured sources, some under git; the list of disabled       *)
(* skills and the list of sources, each in memory and in a file.            *)
(*                                                                          *)
(* Every operation is synchronous.  Its parameter "failed" says that the    *)
(* step of it that can fail (git, the writing of a file) does.  What an     *)
(* operation refuses changes nothing and is SkillRead.  A manifest is well  *)
(* or broken (it does not load), and its text is new, ruled (with dashes in *)
(* it) or the short rest of a ruled one.  Left out: other files of a skill, *)
(* nested skills directories, manifests that name another skill.            *)
(****************************************************************************)
EXTENDS FiniteSets

CONSTANTS
  SkillNames,
  Default, Sources,  \* the default directory and those that may be configured
  ReadOnly,          \* directories that cannot be written
  Tags, FirstTag,
  Installed,         \* the folders at the start
  Absent

Directories == Sources \cup {Default}

Docs == [fit : {"well", "broken"}, text : {"new", "ruled", "short"}]
Repositories == [saved : [Tags -> Docs \cup {Absent}], head : Docs \cup {Absent}]
Folders == [doc : Docs \cup {Absent}, git : Repositories \cup {Absent}]

Loads(doc) == doc.fit # "broken"

(* a folder of a directory d holds a skill that loads, its repository has a *)
(* version, and it has one below the default directory                      *)
Intact(d, what) ==
  /\ what.doc # Absent /\ Loads(what.doc)
  /\ d = Default => what.git # Absent
  /\ what.git # Absent => \E tag \in Tags : what.git.saved[tag] # Absent

ASSUME SkillsAssumption ==
  /\ Default \notin Sources /\ FirstTag \in Tags
  /\ Absent \notin Docs \cup Repositories \cup Folders
  /\ Installed \in [Directories -> [SkillNames -> Folders \cup {Absent}]]
  /\ \A d \in Directories, k \in SkillNames : Installed[d][k] # Absent => Intact(d, Installed[d][k])

VARIABLES
  folder,       \* per directory and name: Absent, or its manifest and its repository
  mounted,      \* the sources that exist
  sources,      \* AUTOBYTEUS_SKILLS_PATHS
  sourcesFile,  \* and what the .env file says of it
  disabled,     \* DisabledSkillsStore
  disabledFile,
  asked,        \* history: the skills to be disabled and the sources wanted
  spoilt        \* history: broken folders, lists whose file is behind, dropped sources

skillVars == <<folder, mounted, sources, sourcesFile, disabled, disabledFile, asked, spoilt>>

NoRepository == [saved |-> [t \in Tags |-> Absent], head |-> Absent]

SkillInit ==
  /\ folder = Installed
  /\ mounted = Sources
  /\ sources = {} /\ sourcesFile = {}
  /\ disabled = {} /\ disabledFile = {}
  /\ asked = [disabled |-> {}, sources |-> {}]
  /\ spoilt = [folders |-> {}, lists |-> {}, dropped |-> {}]

-----------------------------------------------------------------------------
(* Finding a skill                                                          *)

(* a source that does not exist is skipped                                  *)
Visible == sources \cap mounted

(* the folder a name means: the default directory goes before the sources   *)
Location(k) ==
  LET has(d) == folder[d][k] # Absent /\ folder[d][k].doc # Absent
  IN  IF has(Default) THEN {Default} ELSE {d \in Visible : has(d)}

(* a skill that getSkill returns                                            *)
Usable(d, k) == d \in Location(k) /\ Loads(folder[d][k].doc)
Writable(d, k) == Usable(d, k) /\ d \notin ReadOnly

Put(d, k, what) == folder' = [folder EXCEPT ![d][k] = what]
Manifest(fit, text) == [fit |-> fit, text |-> text]

(* what the loader returns as the body ends at the first line of dashes     *)
Loaded(text) == IF text = "ruled" THEN "short" ELSE text

Spoil(d, k, sound) == spoilt' = [spoilt EXCEPT !.folders = IF sound THEN @ ELSE @ \cup {<<d, k>>}]

-----------------------------------------------------------------------------
(* Skills                                                                   *)

FirstVersion(doc) == [saved |-> [NoRepository.saved EXCEPT ![FirstTag] = doc], head |-> doc]

(* (slip: only the manifest is taken back when the repository cannot be     *)
(* made)                                                                    *)
CreateLeavingFolder(k, fit, text, failed) ==
  /\ folder[Default][k] = Absent
  /\ Put(Default, k, [doc |-> IF failed THEN Absent ELSE Manifest(fit, text),
                      git |-> FirstVersion(Manifest(fit, text))])
  /\ Spoil(Default, k, fit = "well" \/ failed)
  /\ UNCHANGED <<mounted, sources, sourcesFile, disabled, disabledFile, asked>>

(* a description with a field of its own makes a manifest that does not     *)
(* load: the caller gets the loader's error and the folder stays            *)
Create(k, fit, text, failed) ==
  /\ folder[Default][k] = Absent
  /\ Put(Default, k, IF failed THEN Absent
                     ELSE [doc |-> Manifest(fit, text), git |-> FirstVersion(Manifest(fit, text))])
  /\ Spoil(Default, k, fit = "well" \/ failed)
  /\ UNCHANGED <<mounted, sources, sourcesFile, disabled, disabledFile, asked>>

(* the body that was not given is the one that was loaded                   *)
Update(d, k, fit, text) ==
  /\ Writable(d, k)
  /\ Put(d, k, [folder[d][k] EXCEPT
                  !.doc = Manifest(fit, IF text = Absent THEN Loaded(folder[d][k].doc.text) ELSE text)])
  /\ Spoil(d, k, fit = "well")
  /\ UNCHANGED <<mounted, sources, sourcesFile, disabled, disabledFile, asked>>

(* a deleted skill stays on the list of the disabled                        *)
Remove(d, k) ==
  /\ Writable(d, k)
  /\ Put(d, k, Absent)
  /\ spoilt' = [spoilt EXCEPT !.folders = @ \ {<<d, k>>}]
  /\ UNCHANGED <<mounted, sources, sourcesFile, disabled, disabledFile, asked>>

(* a file put into a skill may be its manifest                              *)
Upload(d, k, fit, text) ==
  /\ Writable(d, k)
  /\ Put(d, k, [folder[d][k] EXCEPT !.doc = Manifest(fit, text)])
  /\ Spoil(d, k, fit = "well")
  /\ UNCHANGED <<mounted, sources, sourcesFile, disabled, disabledFile, asked>>

DeleteFile(d, k) ==
  /\ Writable(d, k)
  /\ Put(d, k, [folder[d][k] EXCEPT !.doc = Absent])
  /\ Spoil(d, k, FALSE)
  /\ UNCHANGED <<mounted, sources, sourcesFile, disabled, disabledFile, asked>>

-----------------------------------------------------------------------------
(* Versions                                                                 *)

SetGit(d, k, git) ==
  /\ Put(d, k, [folder[d][k] EXCEPT !.git = git])
  /\ UNCHANGED <<mounted, sources, sourcesFile, disabled, disabledFile, asked>>

(* the repository is made and its first version fails: it is not made again *)
EnableVersioning(d, k, failed) ==
  /\ Writable(d, k)
  /\ folder[d][k].git = Absent
  /\ SetGit(d, k, IF failed THEN NoRepository ELSE FirstVersion(folder[d][k].doc))
  /\ Spoil(d, k, ~failed)

(* add, commit and tag; a failed tag leaves the commit, and the next        *)
(* attempt finds nothing to commit                                          *)
CreateVersion(d, k, tag, failed) ==
  LET git == folder[d][k].git
      doc == folder[d][k].doc
  IN  /\ Usable(d, k)
      /\ git # Absent /\ git.saved[tag] = Absent /\ git.head # doc
      /\ SetGit(d, k, [git EXCEPT !.head = doc, !.saved[tag] = IF failed THEN @ ELSE doc])
      /\ UNCHANGED spoilt

(* reset --hard: what was not committed is lost                             *)
ActivateVersion(d, k, tag) ==
  /\ Usable(d, k)
  /\ folder[d][k].git # Absent
  /\ LET doc == folder[d][k].git.saved[tag]
     IN  /\ doc # Absent
         /\ Put(d, k, [folder[d][k] EXCEPT !.doc = doc, !.git.head = doc])
         /\ Spoil(d, k, Loads(doc))
  /\ UNCHANGED <<mounted, sources, sourcesFile, disabled, disabledFile, asked>>

-----------------------------------------------------------------------------
(* The disabled skills and the sources                                      *)

Behind(list, failed) == [spoilt EXCEPT !.lists = IF failed THEN @ \cup {list} ELSE @ \ {list}]

(* the store saves; a failed save is only logged                            *)
SaveDisabled(failed) ==
  /\ disabledFile' = IF failed THEN disabledFile ELSE disabled'
  /\ spoilt' = Behind("disabled", failed)

Disable(k, failed) ==
  /\ \E d \in Location(k) : Usable(d, k)
  /\ disabled' = disabled \cup {k}
  /\ IF k \in disabled THEN UNCHANGED <<disabledFile, spoilt>> ELSE SaveDisabled(failed)
  /\ asked' = [asked EXCEPT !.disabled = @ \cup {k}]
  /\ UNCHANGED <<folder, mounted, sources, sourcesFile>>

(* (slip: that a skill is enabled again is not saved)                       *)
EnableInMemory(k, failed) ==
  /\ \E d \in Location(k) : Usable(d, k)
  /\ disabled' = disabled \ {k}
  /\ asked' = [asked EXCEPT !.disabled = @ \ {k}]
  /\ UNCHANGED <<folder, mounted, sources, sourcesFile, disabledFile, spoilt>>

Enable(k, failed) ==
  /\ \E d \in Location(k) : Usable(d, k)
  /\ disabled' = disabled \ {k}
  /\ IF k \notin disabled THEN UNCHANGED <<disabledFile, spoilt>> ELSE SaveDisabled(failed)
  /\ asked' = [asked EXCEPT !.disabled = @ \ {k}]
  /\ UNCHANGED <<folder, mounted, sources, sourcesFile>>

(* the setting is changed, in memory and in the file if that can be written *)
SetSources(list, failed, lost) ==
  /\ sources' = list
  /\ sourcesFile' = IF failed THEN sourcesFile ELSE list
  /\ spoilt' = [Behind("sources", failed) EXCEPT !.dropped = (@ \ list) \cup lost]
  /\ UNCHANGED <<folder, mounted, disabled, disabledFile>>

AddSource(d, failed) ==
  /\ d \in mounted \ Visible
  /\ SetSources(sources \cup {d}, failed, {})
  /\ asked' = [asked EXCEPT !.sources = @ \cup {d}]

(* the new list is made of the sources that exist: one that is missing at   *)
(* the moment is dropped too                                                *)
RemoveSource(d, failed) ==
  /\ d \in Visible
  /\ SetSources(Visible \ {d}, failed, sources \ mounted)
  /\ asked' = [asked EXCEPT !.sources = @ \ {d}]

-----------------------------------------------------------------------------
(* What a GraphQL mutation or an agent's tool does to the skills            *)

SkillRead == UNCHANGED skillVars

SkillEdit ==
  \/ SkillRead
  \/ \E k \in SkillNames, d \in Directories :
       \/ \E text \in {"new", Absent}, fit \in {"well", "broken"} : Update(d, k, fit, text)
       \/ \E fit \in {"well", "broken"} : Upload(d, k, fit, "ruled")
       \/ Remove(d, k) \/ DeleteFile(d, k)
       \/ \E tag \in Tags : ActivateVersion(d, k, tag)

SkillMutation(failed) ==
  \/ \E k \in SkillNames :
       \/ \E text \in {"new", "ruled"}, fit \in {"well", "broken"} : Create(k, fit, text, failed)
       \/ Disable(k, failed) \/ Enable(k, failed)
       \/ \E d \in Directories : EnableVersioning(d, k, failed)
  \/ \E d \in Sources : AddSource(d, failed) \/ RemoveSource(d, failed)

SkillTool(failed) ==
  \E k \in SkillNames, d \in Directories, tag \in Tags : CreateVersion(d, k, tag, failed)

(* a source vanishes or appears                                             *)
Unmount(d) == /\ d \in mounted /\ mounted' = mounted \ {d}
              /\ UNCHANGED <<folder, sources, sourcesFile, disabled, disabledFile, asked, spoilt>>
Mount(d) == /\ d \notin mounted /\ mounted' = mounted \cup {d}
            /\ UNCHANGED <<folder, sources, sourcesFile, disabled, disabledFile, asked, spoilt>>

(* the server starts again; it may have been killed while it created the    *)
(* folders in "begun", before or after their manifests were written         *)
SkillRestart(begun) ==
  /\ disabled' = disabledFile
  /\ sources' = sourcesFile
  /\ \E written \in SUBSET begun :
       folder' = [folder EXCEPT ![Default] =
                    [k \in SkillNames |->
                       IF k \in begun /\ @[k] = Absent
                       THEN [doc |-> IF k \in written THEN Manifest("well", "new") ELSE Absent, git |-> Absent]
                       ELSE @[k]]]
  /\ spoilt' = [spoilt EXCEPT !.lists = {},
                              !.dropped = IF "sources" \in spoilt.lists THEN {} ELSE @,
                              !.folders = @ \cup {<<Default, k>> : k \in {n \in begun : folder[Default][n] = Absent}}]
  /\ asked' = [disabled |-> IF "disabled" \in spoilt.lists THEN disabledFile ELSE asked.disabled,
               sources |-> IF "sources" \in spoilt.lists THEN sourcesFile ELSE asked.sources]
  /\ UNCHANGED <<mounted, sourcesFile, disabledFile>>

SkillNext ==
  \/ SkillEdit \/ \E failed \in BOOLEAN : SkillMutation(failed) \/ SkillTool(failed)
  \/ \E d \in Sources : Mount(d) \/ Unmount(d)
  \/ \E begun \in SUBSET SkillNames : SkillRestart(begun)

SkillSpec == SkillInit /\ [][SkillNext]_skillVars

-----------------------------------------------------------------------------
(* A folder of the default directory or of a source holds a skill that      *)
(* loads, and its repository has a version; one below the default directory *)
(* has a repository.  Only a manifest that was given, uploaded or deleted   *)
(* through the API, a first version that failed, and a server killed while  *)
(* it created the skill break that, until the skill is deleted.             *)
SkillsAreWhole ==
  \A d \in Directories, k \in SkillNames :
    folder[d][k] # Absent /\ <<d, k>> \notin spoilt.folders => Intact(d, folder[d][k])

(* What was last asked holds, over restarts: the disabled skills are those  *)
(* that were disabled and not enabled since, the sources those that were    *)
(* added and not removed.  A restart falls back to what the file says if it *)
(* could not be written; and a source that is missing when another one is   *)
(* removed is dropped with it.                                              *)
SettingsSurvive ==
  /\ disabled = asked.disabled
  /\ sources = asked.sources \ spoilt.dropped
=============================================================================
