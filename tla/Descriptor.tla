----------------------------- MODULE Descriptor -----------------------------
(***************************************************************************)
(* Where a launcher takes a task's interface from.                         *)
(*                                                                         *)
(* The Rust source is compiled into binaries, each of which describes the  *)
(* interface it was built with.  A launcher declares the task from a built *)
(* binary and refreshes the generated module beside the crate; the code    *)
(* bundle it submits carries the modules it has imported, and a container, *)
(* which has no binary, declares the task from the module in its bundle.   *)
(*                                                                         *)
(* Simplifications:                                                        *)
(*  - a descriptor is one value: signature and interface version;          *)
(*  - places are the paths find_binary looks at, in its order: release     *)
(*    before debug, the crate's directory before its ancestors', up to     *)
(*    the repository's;                                                    *)
(*  - load_descriptor takes effect in one step, and every descriptor has   *)
(*    only types that can be launched from Python;                         *)
(*  - launchers come one after the other; others that share the checkout   *)
(*    are part of OthersWrite.                                             *)
(***************************************************************************)
EXTENDS Naturals

CONSTANTS
    Descriptors,
    VersionOf,      \* interface version of each descriptor
    Supported,      \* SUPPORTED_DESCRIPTOR_VERSION of the launcher
    NumPlaces,      \* how many places a binary can be found at
    Commits,        \* descriptors that git, or another launcher, may write
    Fallbacks,      \* what rust_task may be given as fallback_descriptor
    Checkouts       \* kinds of checkout: "writable", "readOnly"

Places == 1..NumPlaces

Nothing == "nothing"
Failed == "failed"

ASSUME DescriptorAssumption ==
    /\ NumPlaces \in Nat
    /\ Commits \subseteq Descriptors
    /\ Fallbacks \subseteq Descriptors \cup {Nothing}
    /\ Checkouts \subseteq {"writable", "readOnly"}
    /\ {Nothing, Failed} \cap Descriptors = {}

VARIABLES
    source,     \* descriptor of the Rust source
    binaries,   \* place -> descriptor of the binary there
    module,     \* DESCRIPTOR of the generated module, or Nothing
    stage,      \* of the launcher: "off", "up", "submitted", "done"
    fallback,   \* fallback_descriptor in the task's Python file
    checkout,   \* kind of the checkout it runs in
    described,  \* place -> cached output of describe-interface
    imported,   \* "yes" when the generated module is in sys.modules
    declared,   \* interface the launcher declared the task with
    bundle,     \* generated module in the code bundle, or Nothing
    container,  \* interface the container declared the task with
    kept,       \* history: "yes" when the module has been there all along
    rebuilt,    \* history: cached places built again since
    touched     \* history: "yes" when others changed the module meanwhile

files    == <<source, binaries, module>>
settings == <<fallback, checkout>>
launcher == <<described, imported, declared>>
history  == <<kept, rebuilt, touched>>
vars == <<files, stage, settings, launcher, bundle, container, history>>

Init ==
    /\ source \in Descriptors
    /\ binaries = [p \in {} |-> source]
    /\ module = Nothing
    /\ stage = "off"
    /\ fallback = Nothing /\ checkout = "writable"
    /\ described = [p \in {} |-> source]
    /\ imported = "no"
    /\ declared = Nothing /\ bundle = Nothing /\ container = Nothing
    /\ kept = "no" /\ rebuilt = {} /\ touched = "no"

Extend(f, p, d) == [q \in DOMAIN f \cup {p} |-> IF q = p THEN d ELSE f[q]]

-----------------------------------------------------------------------------
(* The developer: edits, builds, cleans, checks out another revision *)

Edit(d) ==
    /\ source' = d
    /\ UNCHANGED <<binaries, module, stage, settings, launcher, bundle,
                   container, history>>

Build(p) ==
    /\ binaries' = Extend(binaries, p, source)
    /\ rebuilt' = rebuilt \cup ({p} \cap DOMAIN described)
    /\ UNCHANGED <<source, module, stage, settings, launcher, bundle, container,
                   kept, touched>>

Clean ==
    /\ binaries' = [p \in {} |-> source]
    /\ rebuilt' = rebuilt \cup DOMAIN described
    /\ UNCHANGED <<source, module, stage, settings, launcher, bundle, container,
                   kept, touched>>

OthersWrite(d) ==
    /\ module' = d
    /\ touched' = "yes"
    /\ kept' = IF d = Nothing THEN "no" ELSE kept
    /\ UNCHANGED <<source, binaries, stage, settings, launcher, bundle,
                   container, rebuilt>>

-----------------------------------------------------------------------------
(* The launcher *)

StartLauncher ==
    /\ stage \in {"off", "done"}
    /\ stage' = "up"
    /\ fallback' \in Fallbacks /\ checkout' \in Checkouts
    /\ described' = [p \in {} |-> source]
    /\ imported' = "no"
    /\ declared' = Nothing /\ bundle' = Nothing /\ container' = Nothing
    /\ kept' = (IF module # Nothing THEN "yes" ELSE "no")
    /\ rebuilt' = {} /\ touched' = "no"
    /\ UNCHANGED files

(* The first place with a binary. *)
FindBinary(p) ==
    /\ p \in DOMAIN binaries
    /\ \A q \in DOMAIN binaries : p =< q

(* A cache keyed by the name of the binary: one entry for all places. *)
FaultyDescribe(p) ==
    IF DOMAIN described # {}
      THEN described[CHOOSE q \in DOMAIN described : TRUE] ELSE binaries[p]

(* describe-interface, cached by path for the life of the process. *)
Describe(p) == IF p \in DOMAIN described THEN described[p] ELSE binaries[p]

(* The module read as text, and never registered. *)
FaultyLoadGenerated == UNCHANGED imported

(* load_generated_descriptor imports the module, if there is one. *)
LoadGenerated ==
    imported' = IF fallback = Nothing /\ module # Nothing THEN "yes" ELSE imported

Bundled == IF fallback # Nothing THEN fallback ELSE module

(* No binary: the bundled descriptor, or an error when there is none. *)
DeclareBundled ==
    /\ stage = "up"
    /\ binaries = [p \in {} |-> source]
    /\ LoadGenerated
    /\ declared' = IF Bundled = Nothing THEN Failed ELSE Bundled
    /\ UNCHANGED <<files, stage, settings, described, bundle, container, history>>

(* A module that is created when missing, and never refreshed. *)
FaultyRefresh(d) ==
    module' = IF Bundled = Nothing /\ checkout = "writable" THEN d ELSE module

(* What was declared the last time is written, before it is replaced. *)
FaultyRefreshLate(d) ==
    module' = IF d # Bundled /\ checkout = "writable" THEN declared ELSE module

(* Write the generated module when it differs; a read-only one stays. *)
Refresh(d) ==
    module' = IF d # Bundled /\ checkout = "writable" THEN d ELSE module

(* The module is refreshed before the version is looked at. *)
FaultyDeclareFrom(p) ==
    LET d == Describe(p) IN
    /\ described' = Extend(described, p, d)
    /\ Refresh(d)
    /\ declared' = IF VersionOf[d] = Supported THEN d ELSE Failed

(* A binary that speaks another version is refused. *)
DeclareFrom(p) ==
    LET d == Describe(p) IN
    /\ described' = Extend(described, p, d)
    /\ \/ /\ VersionOf[d] = Supported
          /\ declared' = d
          /\ Refresh(d)
       \/ /\ VersionOf[d] # Supported
          /\ declared' = Failed
          /\ UNCHANGED module

DeclareFromBinary(p) ==
    /\ stage = "up"
    /\ FindBinary(p)
    /\ LoadGenerated
    /\ DeclareFrom(p)
    /\ touched' = "no"
    /\ UNCHANGED <<source, binaries, stage, settings, bundle, container, kept,
                   rebuilt>>

(* The binary does not run. *)
DescribeFails(p) ==
    /\ stage = "up"
    /\ FindBinary(p)
    /\ p \notin DOMAIN described
    /\ LoadGenerated
    /\ declared' = Failed
    /\ UNCHANGED <<files, stage, settings, described, bundle, container, history>>

(* flyte bundles the files of the modules the launcher has imported. *)
Submit ==
    /\ stage = "up"
    /\ declared \in Descriptors
    /\ bundle' = IF imported = "yes" THEN module ELSE Nothing
    /\ stage' = "submitted"
    /\ UNCHANGED <<files, settings, launcher, container, history>>

(* The task's Python file is imported in a container, which has no binary. *)
DeclareInContainer ==
    /\ stage = "submitted"
    /\ container' = CASE fallback # Nothing -> fallback
                      [] fallback = Nothing /\ bundle # Nothing -> bundle
                      [] OTHER -> Failed
    /\ stage' = "done"
    /\ UNCHANGED <<files, settings, launcher, bundle, history>>

Next ==
    \/ \E d \in Descriptors : Edit(d)
    \/ \E p \in Places : Build(p)
    \/ Clean
    \/ \E d \in Commits \cup {Nothing} : OthersWrite(d)
    \/ StartLauncher
    \/ DeclareBundled
    \/ \E p \in Places : DeclareFromBinary(p) \/ DescribeFails(p)
    \/ Submit
    \/ DeclareInContainer

Spec == Init /\ [][Next]_vars

-----------------------------------------------------------------------------
(* Properties *)

TypeOK ==
    /\ source \in Descriptors
    /\ DOMAIN binaries \subseteq Places /\ DOMAIN described \subseteq Places
    /\ \A p \in DOMAIN binaries : binaries[p] \in Descriptors
    /\ \A p \in DOMAIN described : described[p] \in Descriptors
    /\ stage \in {"off", "up", "submitted", "done"}
    /\ fallback \in Fallbacks \cup {Nothing}
    /\ checkout \in Checkouts \cup {"writable"}
    /\ imported \in {"yes", "no"} /\ touched \in {"yes", "no"} /\ kept \in {"yes", "no"}
    /\ module \in Descriptors \cup {Nothing}
    /\ bundle \in Descriptors \cup {Nothing}
    /\ declared \in Descriptors \cup {Nothing, Failed}
    /\ container \in Descriptors \cup {Nothing, Failed}
    /\ rebuilt \subseteq DOMAIN described

(* As long as nobody commits an unsupported descriptor, a worker of another *)
(* interface version leaves no trace: none is declared, written beside the  *)
(* crate, bundled or met in a container.  (The version check, and its place *)
(* before the refresh.)                                                     *)
OnlySupportedVersions ==
    \A d \in {declared, module, bundle, container} \cap Descriptors :
        VersionOf[d] = Supported

(* The container of a launch from a binary declares the interface that the  *)
(* launcher declared, when it declares one at all: from a writable checkout *)
(* that nobody else wrote to in the meantime, and without a fallback.       *)
ContainerAgrees ==
    /\ container \in Descriptors
    /\ checkout = "writable" /\ touched = "no" /\ fallback = Nothing
    => container = declared

(* A generated module that was there when the launcher started, and that    *)
(* nobody deleted, travels: the container finds an interface.  (The import  *)
(* in load_generated_descriptor.)                                           *)
CommittedInterfaceTravels ==
    kept = "yes" => container # Failed

(* What a launcher declares from a binary is what the binary compiled into  *)
(* that place describes, unless it was built again after the launcher had   *)
(* described it once.                                                       *)
DescribesItsBinary ==
    \A p \in DOMAIN described \ rebuilt :
        p \in DOMAIN binaries /\ described[p] = binaries[p]

(* What the generated file says of itself: safe to delete, as any launch    *)
(* with a built binary writes it back, so that a container has an interface *)
(* to declare the task from.                                                *)
SafeToDelete ==
    DOMAIN described # {} /\ touched = "no" => container # Failed
=============================================================================
