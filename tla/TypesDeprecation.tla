-------------------------- MODULE TypesDeprecation --------------------------
(***************************************************************************)
(* The sync command: the handler of cli:sync builds types/workers.ts and   *)
(* then patches the three files of the application that may still use the  *)
(* types of psychic (src/cli/PsychicTypesDeprecation.ts).  Each await is   *)
(* a step; the process may be killed between any two, and the command is   *)
(* run again.  Nobody else writes the files meanwhile.                     *)
(***************************************************************************)
EXTENDS App

CONSTANT InitialFiles   \* what the files may be like before the first sync

(* In the order of deprecate. *)
Files == <<"ApplicationBackgroundedModel", "ApplicationBackgroundedService", "ApplicationScheduledService">>

Contents == [exists : BOOLEAN, mentions : Nat, imports : Seq({"psychic", "workers"})]

(* No file imports what the first sync is to make. *)
ASSUME InitialFilesAssumption ==
  \A fs \in InitialFiles :
    /\ fs \in [DOMAIN Files -> Contents]
    /\ \A f \in DOMAIN Files : \A i \in DOMAIN fs[f].imports : fs[f].imports[i] # "workers"

VARIABLES
  files,     \* Missing, or how often each mentions psychicTypes and what it imports
  types,     \* whether types/workers.ts exists
  sync       \* the run of the command: where it is, or how it ended

syncVars == <<files, types, sync>>

Missing == [exists |-> FALSE, mentions |-> 0, imports |-> <<>>]

(* A patched file of which not all was written. *)
Cut == [exists |-> TRUE, mentions |-> 0, imports |-> <<>>]

NoSync == [at |-> "none", file |-> 0, content |-> Missing]

SyncInit ==
  /\ files \in InitialFiles
  /\ types = FALSE
  /\ sync = NoSync

Ended == {"none", "silent", "warned", "failed", "bypassed"}

SyncTypeOK ==
  /\ files \in [DOMAIN Files -> Contents]
  /\ types \in BOOLEAN
  /\ sync \in [at : Ended \cup {"build"}, file : {0}, content : {Missing}]
            \cup [at : {"read", "patch", "write"}, file : DOMAIN Files, content : Contents]

-----------------------------------------------------------------------------
(* Mutant: only the first mention is replaced. *)
PatchFirstMention(content) ==
  [content EXCEPT !.mentions = @ - 1,
                  !.imports = IF "psychic" \notin {@[i] : i \in DOMAIN @} THEN @
                    ELSE LET n == CHOOSE i \in DOMAIN @ : @[i] = "psychic" IN [@ EXCEPT ![n] = "workers"]]

(* .replace(/psychicTypes/g, ...), and the first types/psychic.js only *)
Patch(content) ==
  LET psychic == {i \in DOMAIN content.imports : content.imports[i] = "psychic"}
      first   == CHOOSE i \in psychic : \A j \in psychic : i <= j IN
  [exists   |-> TRUE,
   mentions |-> 0,
   imports  |-> IF psychic = {} THEN content.imports ELSE [content.imports EXCEPT ![first] = "workers"]]

SyncEnds(how) == sync' = [NoSync EXCEPT !.at = how]

(* The catch of deprecate: ATTENTION, the files may have to be mended. *)
Warns == SyncEnds("warned")

(* The next round of the loop, or its end. *)
NextFile ==
  IF sync.file = Len(Files) THEN SyncEnds("silent")
  ELSE sync' = [NoSync EXCEPT !.at = "read", !.file = sync.file + 1]

(* The handler of cli:sync: build() runs to its first await. *)
Sync ==
  /\ role = "cli"
  /\ cached # 0
  /\ sync.at \in Ended
  /\ \/ CanConnect /\ registry' = Connected /\ sync' = [NoSync EXCEPT !.at = "build"]
     \/ ~CanConnect /\ UNCHANGED registry /\ SyncEnds("failed")
  /\ UNCHANGED <<role, apps, conf, cached, files, types>>

(* types/workers.ts is written, and deprecate begins. *)
Build ==
  /\ sync.at = "build"
  /\ types' = TRUE
  /\ IF apps[cached].bypassDeprecationChecks THEN SyncEnds("bypassed")
     ELSE sync' = [NoSync EXCEPT !.at = "read", !.file = 1]
  /\ UNCHANGED <<appVars, files>>

(* Mutant: build is not awaited. *)
BuildFailsUnnoticed ==
  /\ sync.at = "build"
  /\ sync' = [NoSync EXCEPT !.at = "read", !.file = 1]
  /\ UNCHANGED <<appVars, files, types>>

BuildFails ==
  /\ sync.at = "build"
  /\ SyncEnds("failed")
  /\ UNCHANGED <<appVars, files, types>>

(* Mutant: patched without a look at the content. *)
ReadFileUnchecked ==
  LET content == files[sync.file] IN
  /\ sync.at = "read"
  /\ IF content.exists THEN sync' = [sync EXCEPT !.at = "patch", !.content = content] ELSE Warns
  /\ UNCHANGED <<appVars, files, types>>

(* readFile, and the test for psychicTypes *)
ReadFile ==
  LET content == files[sync.file] IN
  /\ sync.at = "read"
  /\ \/ content.exists /\ content.mentions > 0 /\ sync' = [sync EXCEPT !.at = "patch", !.content = content]
     \/ content.exists /\ content.mentions = 0 /\ NextFile
     \/ ~content.exists /\ Warns
  /\ UNCHANGED <<appVars, files, types>>

(* writeFile opens the file, which empties it, or fails to; *)
OpenFile ==
  /\ sync.at = "patch"
  /\ \/ files' = [files EXCEPT ![sync.file] = Cut] /\ sync' = [sync EXCEPT !.at = "write"]
     \/ UNCHANGED files /\ Warns
  /\ UNCHANGED <<appVars, types>>

(* and writes the content that was read, patched, or fails half way. *)
WriteFile ==
  /\ sync.at = "write"
  /\ \/ files' = [files EXCEPT ![sync.file] = Patch(sync.content)] /\ NextFile
     \/ UNCHANGED files /\ Warns
  /\ UNCHANGED <<appVars, types>>

SyncStep == Sync \/ Build \/ BuildFails \/ ReadFile \/ OpenFile \/ WriteFile

-----------------------------------------------------------------------------
(***************************************************************************)
(* No file imports types/workers.js before there is a types/workers.ts,    *)
(* whatever fails and wherever the command is killed: build() is awaited   *)
(* before deprecate() (init).                                              *)
(***************************************************************************)
ImportsResolve ==
  \A f \in DOMAIN files : \A i \in DOMAIN files[f].imports : files[f].imports[i] = "workers" => types

(***************************************************************************)
(* A sync that ends without a warning leaves no file that mentions         *)
(* psychicTypes, whatever earlier ones did: "something went wrong" is      *)
(* said whenever the loop did not reach the end (deprecate).               *)
(***************************************************************************)
SilentMeansPatched ==
  sync.at = "silent" => \A f \in DOMAIN files : files[f].mentions = 0

(***************************************************************************)
(* A file is patched once: one that does not mention psychicTypes, patched *)
(* or the developer's own, is never written again by later or interrupted  *)
(* runs, except to go on with the write it was emptied for.                *)
(***************************************************************************)
PatchedOnce ==
  [][\A f \in DOMAIN files : files[f].exists /\ files[f].mentions = 0 /\ files'[f] # files[f] =>
       sync.at = "write" /\ sync.file = f]_files

(***************************************************************************)
(* The inductive invariant: where the loop is, what it has passed is       *)
(* patched, and what it is about to open is not.                           *)
(***************************************************************************)
LoopPosition ==
  /\ sync.at \in {"read", "patch", "write"} =>
       types /\ \A f \in DOMAIN Files : f < sync.file => files[f].mentions = 0
  /\ sync.at = "patch" => files[sync.file].mentions > 0

SyncIInv == SyncTypeOK /\ ImportsResolve /\ SilentMeansPatched /\ LoopPosition
=============================================================================
