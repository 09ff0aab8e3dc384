-------------------------- MODULE MCResumeStoreProofs --------------------------
(***************************************************************************)
(* What the theorems of ResumeStoreProofs give for the instance of one     *)
(* torrent under crashes and restarts that MCResumeStore composes, whose   *)
(* operations include magnets, pauses and crashes.                         *)
(***************************************************************************)
EXTENDS MCResumeStore, TLAPS, FiniteSetTheorems

\* A behaviour of the composition is one of the instance.
LEMMA KeepsSpec == EitherSpec => Keeps!Spec
<1>1. EitherInit => Keeps!Init
  BY DEF EitherInit
<1>2. [EitherNext]_<<part, vars, keeps>> => [Keeps!Next]_(Keeps!vars)
  BY DEF EitherNext, keeps, Keeps!vars, Keeps!memory, Keeps!disk, Keeps!ghosts
<1>. QED BY <1>1, <1>2, PTL DEF EitherSpec, Keeps!Spec

\* The assumptions of ResumeStore hold of the instance.
LEMMA KeepsAssumptions ==
  /\ GuardMax \in Nat /\ MaxPieces \in Nat /\ 3 \in Nat /\ 2 \in Nat
  /\ Keeps!IsFiniteSet({t1})
  /\ Hybrid = {} => Hybrid \subseteq {t1}
  /\ None \notin {t1} /\ None \notin Keeps!Content
<1>1. Keeps!IsFiniteSet({t1})
  <2>1. IsFiniteSet({t1})
    BY FS_Singleton
  <2>. QED BY <2>1 DEF IsFiniteSet, Keeps!IsFiniteSet
<1>2. None \notin {t1} /\ None \notin Keeps!Content
  BY InstanceAssumption, NoneAssumption DEF Content, Reason, Keeps!Content, Keeps!Reason
<1>. QED BY <1>1, <1>2, BoundAssumption

\* With one torrent under crashes, what is listed is stored and the flush waits
\* only for answers that come.
THEOREM KeptSound ==
  ASSUME Hybrid = {}
  PROVE  EitherSpec => []KeptIsStored
<1>1. Keeps!Plain
  BY DEF Keeps!Plain
<1>2. Keeps!Spec => []Keeps!StoreIsSound
  BY <1>1, KeepsAssumptions, Keeps!StoreSound, Zenon
<1>. QED BY <1>2, KeepsSpec, PTL DEF KeptIsStored

\* And it keeps what the library promises: no crash and no late answer changes
\* what is stored, but for the additions, saves and removals of listed torrents.
THEOREM KeptPromise ==
  ASSUME Hybrid = {}, GuardMax >= 1
  PROVE  EitherSpec => KeptAsPromised
<1>1. Keeps!Plain
  BY DEF Keeps!Plain
<1>2. Keeps!Roomy
  <2>1. Cardinality({t1}) = 1
    BY FS_Singleton
  <2>2. Keeps!Cardinality({t1}) = Cardinality({t1})
    BY DEF Cardinality, Keeps!Cardinality
  <2>. QED BY <2>1, <2>2, BoundAssumption DEF Keeps!Roomy
<1>3. Keeps!Spec => Keeps!ImplementsLibrary
  BY <1>1, <1>2, KeepsAssumptions, Keeps!LibraryKept, Zenon
<1>. QED BY <1>3, KeepsSpec, PTL DEF KeptAsPromised
=============================================================================
