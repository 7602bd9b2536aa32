-------------------------- MODULE DescriptorProofs --------------------------
(***************************************************************************)
(* Theorems about Descriptor, for any descriptors, places, fallbacks and   *)
(* kinds of checkout.                                                      *)
(***************************************************************************)
EXTENDS Descriptor, TLAPS

(* An interface that a launcher is about to send on travels in its module. *)
ModuleIsImported ==
    /\ kept = "yes" => module # Nothing
    /\ kept = "yes" /\ fallback = Nothing =>
        /\ stage = "up" /\ declared \in Descriptors => imported = "yes"
        /\ stage = "submitted" => bundle # Nothing

(* What travels from an undisturbed, writable checkout is what was declared. *)
ModuleIsDeclared ==
    checkout = "writable" /\ touched = "no" /\ fallback = Nothing =>
        /\ stage = "up" /\ imported = "yes" /\ declared \in Descriptors => module = declared
        /\ stage = "submitted" /\ bundle # Nothing => bundle = declared

(* Only a launch that is done has had its container. *)
ContainerIsLast == stage # "done" => container = Nothing

DescriptorInv ==
    /\ TypeOK /\ DescribesItsBinary
    /\ ModuleIsImported /\ ModuleIsDeclared /\ ContainerIsLast
    /\ ContainerAgrees /\ CommittedInterfaceTravels

LEMMA NoDescriptor == Nothing \notin Descriptors /\ Failed \notin Descriptors /\ Nothing # Failed
BY DescriptorAssumption DEF Nothing, Failed

(* What a launcher takes a binary's interface for is a descriptor. *)
LEMMA DescribeType ==
    ASSUME TypeOK, NEW p \in Places, FindBinary(p)
    PROVE  Describe(p) \in Descriptors
BY DEF TypeOK, FindBinary, Describe

LEMMA DescriptorInvInit == ASSUME Init PROVE DescriptorInv
BY NoDescriptor DEF Init, DescriptorInv, TypeOK, DescribesItsBinary, ModuleIsImported,
   ModuleIsDeclared, ContainerIsLast, ContainerAgrees, CommittedInterfaceTravels

(* A launch from a binary, the one step that writes the module. *)
LEMMA DeclareKeepsInv ==
    ASSUME DescriptorInv, NEW p \in Places, DeclareFromBinary(p)
    PROVE  DescriptorInv'
<1> DEFINE d == Describe(p)
<1> USE DEF DescriptorInv
<1>1. d \in Descriptors
      BY DescribeType DEF DeclareFromBinary
<1>2. /\ described' = Extend(described, p, d)
      /\ declared' \in {d, Failed}
      /\ module' \in {d, module}
      /\ declared' = d => Refresh(d)
      BY <1>1, NoDescriptor DEF DeclareFromBinary, DeclareFrom, Refresh
<1> HIDE DEF d
<1>3. TypeOK'
      BY <1>1, <1>2 DEF TypeOK, DeclareFromBinary, LoadGenerated, Extend, settings
<1>4. DescribesItsBinary'
  <2>1. ASSUME NEW q \in DOMAIN described' \ rebuilt
        PROVE  q \in DOMAIN binaries /\ described'[q] = binaries[q]
        BY <1>2, <2>1 DEF d, DescribesItsBinary, DeclareFromBinary, FindBinary, Extend,
           Describe
  <2> QED BY <2>1 DEF DescribesItsBinary, DeclareFromBinary
<1>5. ModuleIsImported'
      BY <1>1, <1>2, NoDescriptor DEF ModuleIsImported, DeclareFromBinary, LoadGenerated,
         settings
<1>6. ModuleIsDeclared'
      BY <1>1, <1>2, NoDescriptor DEF ModuleIsDeclared, DeclareFromBinary, Refresh,
         Bundled, settings
<1>7. (ContainerIsLast /\ ContainerAgrees /\ CommittedInterfaceTravels)'
      BY NoDescriptor DEF DeclareFromBinary, ContainerIsLast, ContainerAgrees,
         CommittedInterfaceTravels
<1> QED BY <1>3, <1>4, <1>5, <1>6, <1>7

LEMMA DescriptorInvNext == ASSUME DescriptorInv, [Next]_vars PROVE DescriptorInv'
<1> USE NoDescriptor DEF DescriptorInv, files, settings, launcher, history
<1>1. ASSUME NEW e \in Descriptors, Edit(e) PROVE DescriptorInv'
      BY <1>1 DEF Edit, TypeOK, DescribesItsBinary, ModuleIsImported,
         ModuleIsDeclared, ContainerIsLast, ContainerAgrees, CommittedInterfaceTravels
<1>2. ASSUME NEW p \in Places, Build(p) PROVE DescriptorInv'
  <2>1. TypeOK'
        BY <1>2 DEF Build, Extend, TypeOK
  <2>2. DescribesItsBinary'
        BY <1>2 DEF Build, Extend, DescribesItsBinary
  <2> QED BY <1>2, <2>1, <2>2 DEF Build, ModuleIsImported, ModuleIsDeclared,
          ContainerIsLast, ContainerAgrees, CommittedInterfaceTravels
<1>3. CASE Clean
      BY <1>3 DEF Clean, TypeOK, DescribesItsBinary, ModuleIsImported, ModuleIsDeclared,
         ContainerIsLast, ContainerAgrees, CommittedInterfaceTravels
<1>4. ASSUME NEW e \in Commits \cup {Nothing}, OthersWrite(e) PROVE DescriptorInv'
      BY <1>4, DescriptorAssumption DEF OthersWrite, TypeOK, DescribesItsBinary,
         ModuleIsImported, ModuleIsDeclared, ContainerIsLast, ContainerAgrees,
         CommittedInterfaceTravels
<1>5. CASE StartLauncher
      BY <1>5 DEF StartLauncher, TypeOK, DescribesItsBinary, ModuleIsImported,
         ModuleIsDeclared, ContainerIsLast, ContainerAgrees, CommittedInterfaceTravels
<1>6. CASE DeclareBundled
      BY <1>6, DescriptorAssumption DEF DeclareBundled, LoadGenerated, Bundled, TypeOK,
         DescribesItsBinary, ModuleIsImported, ModuleIsDeclared, ContainerIsLast,
         ContainerAgrees, CommittedInterfaceTravels
<1>7. ASSUME NEW p \in Places, DescribeFails(p) PROVE DescriptorInv'
      BY <1>7 DEF DescribeFails, LoadGenerated, TypeOK, DescribesItsBinary,
         ModuleIsImported, ModuleIsDeclared, ContainerIsLast, ContainerAgrees,
         CommittedInterfaceTravels
<1>8. CASE Submit
      BY <1>8 DEF Submit, TypeOK, DescribesItsBinary, ModuleIsImported, ModuleIsDeclared,
         ContainerIsLast, ContainerAgrees, CommittedInterfaceTravels
<1>9. CASE DeclareInContainer
      BY <1>9, DescriptorAssumption DEF DeclareInContainer, TypeOK, DescribesItsBinary,
         ModuleIsImported, ModuleIsDeclared, ContainerIsLast, ContainerAgrees,
         CommittedInterfaceTravels
<1>10. CASE UNCHANGED vars
      BY <1>10 DEF vars, TypeOK, DescribesItsBinary, ModuleIsImported, ModuleIsDeclared,
         ContainerIsLast, ContainerAgrees, CommittedInterfaceTravels
<1> QED BY <1>1, <1>2, <1>3, <1>4, <1>5, <1>6, <1>7, <1>8, <1>9, <1>10, DeclareKeepsInv
        DEF Next

LEMMA DescriptorInvAlways == Spec => []DescriptorInv
<1>1. Init => DescriptorInv
      BY DescriptorInvInit
<1>2. DescriptorInv /\ [Next]_vars => DescriptorInv'
      BY DescriptorInvNext
<1> QED BY <1>1, <1>2, PTL DEF Spec

-----------------------------------------------------------------------------

(* The state of the launcher, its files and its container is well formed.   *)
THEOREM DescriptorTypeCorrect == Spec => []TypeOK
<1>1. DescriptorInv => TypeOK
      BY DEF DescriptorInv
<1> QED BY <1>1, DescriptorInvAlways, PTL

(* From an undisturbed, writable checkout without a fallback, a container    *)
(* declares what its launcher declared, or nothing.                         *)
THEOREM ContainersAgree == Spec => []ContainerAgrees
<1>1. DescriptorInv => ContainerAgrees
      BY DEF DescriptorInv
<1> QED BY <1>1, DescriptorInvAlways, PTL

(* A generated module that was there all along travels.                     *)
THEOREM InterfacesTravel == Spec => []CommittedInterfaceTravels
<1>1. DescriptorInv => CommittedInterfaceTravels
      BY DEF DescriptorInv
<1> QED BY <1>1, DescriptorInvAlways, PTL

(* A launcher describes the binary it found, however many places there are.  *)
THEOREM BinariesAreDescribed == Spec => []DescribesItsBinary
<1>1. DescriptorInv => DescribesItsBinary
      BY DEF DescriptorInv
<1> QED BY <1>1, DescriptorInvAlways, PTL

-----------------------------------------------------------------------------

(* Nobody commits, or falls back on, a descriptor of another version.       *)
SupportedSources ==
    \A d \in (Commits \cup Fallbacks) \cap Descriptors : VersionOf[d] = Supported

SupportedFallback ==
    fallback \in Descriptors => VersionOf[fallback] = Supported

SupportInv == OnlySupportedVersions /\ SupportedFallback

LEMMA SupportNext ==
    ASSUME SupportedSources, TypeOK, SupportInv, [Next]_vars
    PROVE  SupportInv'
<1> USE NoDescriptor DEF SupportInv, OnlySupportedVersions, SupportedFallback,
        files, settings, launcher, history
<1>1. CASE \E p \in Places : DeclareFromBinary(p)
      BY <1>1 DEF DeclareFromBinary, DeclareFrom, Refresh
<1>2. CASE \E e \in Commits \cup {Nothing} : OthersWrite(e)
      BY <1>2, DescriptorAssumption DEF OthersWrite, SupportedSources
<1>3. CASE StartLauncher
      BY <1>3 DEF StartLauncher, SupportedSources
<1>4. CASE DeclareBundled
      BY <1>4 DEF DeclareBundled, Bundled
<1>5. CASE Submit \/ DeclareInContainer
      BY <1>5 DEF Submit, DeclareInContainer
<1>6. CASE \/ \E e \in Descriptors : Edit(e)
           \/ \E p \in Places : Build(p)
           \/ Clean
           \/ \E p \in Places : DescribeFails(p)
           \/ UNCHANGED vars
      BY <1>6 DEF Edit, Build, Clean, DescribeFails, vars
<1> QED BY <1>1, <1>2, <1>3, <1>4, <1>5, <1>6 DEF Next

(* A worker of another interface version leaves no trace, as long as nobody  *)
(* commits one or falls back on one.                                        *)
THEOREM VersionsStaySupported ==
    ASSUME SupportedSources
    PROVE  Spec => []OnlySupportedVersions
<1>1. Init => SupportInv
      BY NoDescriptor DEF Init, SupportInv, OnlySupportedVersions, SupportedFallback
<1>2. TypeOK /\ SupportInv /\ [Next]_vars => SupportInv'
      BY SupportNext
<1>3. SupportInv => OnlySupportedVersions
      BY DEF SupportInv
<1> QED BY <1>1, <1>2, <1>3, DescriptorTypeCorrect, PTL DEF Spec
=============================================================================
