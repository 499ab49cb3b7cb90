---------------------------- MODULE Owners_proofs ----------------------------
(***************************************************************************)
(* Any number of AutoFd and AutoPod objects, moved, released and reset in  *)
(* any order, own each descriptor and each datum once.                     *)
(***************************************************************************)
EXTENDS Owners, TLAPS

OwnersIInv == OwnersTypeOK /\ OwnedOnce

LEMMA OwnersInitInv == OwnersInit => OwnersIInv
  BY OwnersAssumption DEF OwnersInit, OwnersIInv, OwnersTypeOK, OwnedOnce, FdsOwned, PodsOwned

\* What the descriptors do leaves the data alone, and the other way round.
LEMMA PodsAlone == ASSUME OwnersIInv, UNCHANGED podVars PROVE PodsOwned'
  BY DEF podVars, OwnersIInv, OwnedOnce, PodsOwned

LEMMA FdsAlone == ASSUME OwnersIInv, UNCHANGED fdVars PROVE FdsOwned'
  BY DEF fdVars, OwnersIInv, OwnedOnce, FdsOwned

LEMMA OpenFdInv == ASSUME OwnersIInv, NEW fd \in FreeFds, OpenFd(fd) PROVE OwnersIInv'
<1>1. OwnersTypeOK'
  BY DEF OpenFd, FreeFds, podVars, OwnersIInv, OwnersTypeOK
<1>2. FdsOwned'
  BY OwnersAssumption DEF OpenFd, FreeFds, OwnersIInv, OwnersTypeOK, OwnedOnce, FdsOwned
<1>3. PodsOwned' /\ ~misuse'
  BY PodsAlone DEF OpenFd, OwnersIInv, OwnedOnce
<1>. QED
  BY <1>1, <1>2, <1>3 DEF OwnersIInv, OwnedOnce

\* What an AutoFd gives up is open and nobody else's; what it takes is nobody's.
LEMMA HoldInv ==
    ASSUME OwnersIInv, NEW a \in AutoFds, NEW fd \in (0 .. MaxFd) \cup {InvalidFd},
           fd \in raw \/ fd = InvalidFd \/ fd \in FreeFds,
           CloseAll(HeldFd(a), {fd} \ (raw \cup {InvalidFd})),
           m_fd' = [m_fd EXCEPT ![a] = fd], raw' = raw \ {fd}, UNCHANGED podVars
    PROVE  OwnersIInv'
<1>1. m_fd \in [AutoFds -> (0 .. MaxFd) \cup {InvalidFd}] /\ m_fd'[a] = fd
      /\ \A b \in AutoFds \ {a} : m_fd'[b] = m_fd[b]
  BY DEF OwnersIInv, OwnersTypeOK
<1>2. HeldFd(a) \subseteq fds /\ ~misuse'
  BY DEF HeldFd, CloseAll, OwnersIInv, OwnedOnce, FdsOwned
<1>3. fds' = (fds \cup ({fd} \ (raw \cup {InvalidFd}))) \ HeldFd(a)
  BY DEF CloseAll
<1>4. OwnersTypeOK'
  BY <1>1, <1>3 DEF podVars, OwnersIInv, OwnersTypeOK
<1>5. \A b \in AutoFds : m_fd[b] # fd \/ fd = InvalidFd
  BY DEF FreeFds, OwnersIInv, OwnedOnce, FdsOwned
<1>6. FdsOwned'
  <2>1. \A x : x \in fds' <=> x \in raw' \/ (x # InvalidFd /\ \E b \in AutoFds : m_fd'[b] = x)
    BY <1>1, <1>3, <1>5, OwnersAssumption
    DEF HeldFd, FreeFds, OwnersIInv, OwnersTypeOK, OwnedOnce, FdsOwned
  <2>2. \A b \in AutoFds : m_fd'[b] \notin raw'
    BY <1>1 DEF OwnersIInv, OwnedOnce, FdsOwned
  <2>3. \A b, c \in AutoFds : b # c /\ m_fd'[b] = m_fd'[c] => m_fd'[b] = InvalidFd
    BY <1>1, <1>5 DEF OwnersIInv, OwnedOnce, FdsOwned
  <2>. QED
    BY <2>1, <2>2, <2>3 DEF FdsOwned
<1>7. PodsOwned'
  BY PodsAlone
<1>. QED
  BY <1>2, <1>4, <1>6, <1>7 DEF OwnersIInv, OwnedOnce

LEMMA dup_fdInv == ASSUME OwnersIInv, NEW a \in AutoFds, dup_fd(a) PROVE OwnersIInv'
<1>1. raw' = raw /\ UNCHANGED podVars /\ InvalidFd \notin raw /\ raw \subseteq fds
  BY OwnersAssumption DEF dup_fd, OwnersIInv, OwnersTypeOK, OwnedOnce, FdsOwned
<1>2. ASSUME CloseAll(HeldFd(a), {}), m_fd' = [m_fd EXCEPT ![a] = InvalidFd] PROVE OwnersIInv'
  <2>1. raw' = raw \ {InvalidFd} /\ {InvalidFd} \ (raw \cup {InvalidFd}) = {}
    BY <1>1
  <2>. QED
    BY <1>1, <1>2, <2>1, HoldInv
<1>3. ASSUME NEW fd \in FreeFds, CloseAll(HeldFd(a), {fd}), m_fd' = [m_fd EXCEPT ![a] = fd]
      PROVE  OwnersIInv'
  <2>1. /\ fd \in (0 .. MaxFd) \cup {InvalidFd}
        /\ raw' = raw \ {fd} /\ {fd} \ (raw \cup {InvalidFd}) = {fd}
    BY <1>1, OwnersAssumption DEF FreeFds
  <2>. QED
    BY <1>1, <1>3, <2>1, HoldInv
<1>. QED
  BY <1>2, <1>3 DEF dup_fd

LEMMA adopt_fdInv == ASSUME OwnersIInv, NEW a \in AutoFds, NEW fd \in raw, adopt_fd(a, fd) PROVE OwnersIInv'
<1>1. fd \in (0 .. MaxFd) \cup {InvalidFd} /\ {fd} \ (raw \cup {InvalidFd}) = {}
  BY DEF OwnersIInv, OwnersTypeOK
<1>. QED
  BY <1>1, HoldInv DEF adopt_fd

LEMMA releaseInv == ASSUME OwnersIInv, NEW a \in AutoFds, release(a) PROVE OwnersIInv'
<1>1. /\ m_fd'[a] = InvalidFd /\ \A b \in AutoFds \ {a} : m_fd'[b] = m_fd[b]
      /\ raw' = raw \cup {m_fd[a]} /\ m_fd[a] # InvalidFd /\ fds' = fds
  BY DEF release, HeldFd, OwnersIInv, OwnersTypeOK
<1>2. OwnersTypeOK'
  BY <1>1 DEF release, podVars, OwnersIInv, OwnersTypeOK
<1>3. FdsOwned'
  <2>1. \A x : x \in fds' <=> x \in raw' \/ (x # InvalidFd /\ \E b \in AutoFds : m_fd'[b] = x)
    BY <1>1 DEF OwnersIInv, OwnedOnce, FdsOwned
  <2>2. \A b \in AutoFds : m_fd'[b] \notin raw'
    BY <1>1, OwnersAssumption DEF OwnersIInv, OwnersTypeOK, OwnedOnce, FdsOwned
  <2>3. \A b, c \in AutoFds : b # c /\ m_fd'[b] = m_fd'[c] => m_fd'[b] = InvalidFd
    BY <1>1 DEF OwnersIInv, OwnedOnce, FdsOwned
  <2>. QED
    BY <2>1, <2>2, <2>3 DEF FdsOwned
<1>4. PodsOwned' /\ ~misuse'
  BY PodsAlone DEF release, OwnersIInv, OwnedOnce
<1>. QED
  BY <1>2, <1>3, <1>4 DEF OwnersIInv, OwnedOnce

LEMMA resetInv ==
    ASSUME OwnersIInv, NEW a \in AutoFds, NEW fd \in raw \cup {InvalidFd, m_fd[a]}, reset(a, fd)
    PROVE  OwnersIInv'
<1>1. CASE fd \in raw \cup {InvalidFd}
  <2>1. /\ fd \in (0 .. MaxFd) \cup {InvalidFd} /\ {fd} \ (raw \cup {InvalidFd}) = {}
        /\ ClosedByReset(a, fd) = HeldFd(a)
    BY <1>1 DEF ClosedByReset, HeldFd, OwnersIInv, OwnersTypeOK, OwnedOnce, FdsOwned
  <2>. QED
    BY <1>1, <2>1, HoldInv DEF reset
<1>2. CASE fd = m_fd[a]
  <2>1. ClosedByReset(a, fd) = {} /\ raw \ {fd} = raw
    BY <1>2 DEF ClosedByReset, HeldFd, OwnersIInv, OwnedOnce, FdsOwned
  <2>2. [m_fd EXCEPT ![a] = fd] = m_fd
    BY <1>2 DEF OwnersIInv, OwnersTypeOK
  <2>3. UNCHANGED fdVars /\ UNCHANGED podVars
    BY <2>1, <2>2 DEF reset, CloseAll, fdVars
  <2>4. ~misuse'
    BY <2>1 DEF reset, CloseAll, OwnersIInv, OwnedOnce
  <2>5. OwnersTypeOK'
    BY <2>3 DEF fdVars, podVars, OwnersIInv, OwnersTypeOK
  <2>. QED
    BY <2>3, <2>4, <2>5, FdsAlone, PodsAlone DEF OwnersIInv, OwnedOnce
<1>. QED
  BY <1>1, <1>2

LEMMA MoveFdInv ==
    ASSUME OwnersIInv, NEW a \in AutoFds, NEW b \in AutoFds, MoveFd(a, b) PROVE OwnersIInv'
<1>1. m_fd \in [AutoFds -> (0 .. MaxFd) \cup {InvalidFd}] /\ raw' = raw
  BY DEF MoveFd, OwnersIInv, OwnersTypeOK
<1>2. /\ m_fd'[b] = InvalidFd /\ (a # b => m_fd'[a] = m_fd[b])
      /\ \A c \in AutoFds \ {a, b} : m_fd'[c] = m_fd[c]
      /\ m_fd' \in [AutoFds -> (0 .. MaxFd) \cup {InvalidFd}]
  BY <1>1 DEF MoveFd
<1>3. HeldFd(a) \subseteq fds /\ ~misuse' /\ fds' = fds \ HeldFd(a)
  BY DEF MoveFd, HeldFd, CloseAll, OwnersIInv, OwnedOnce, FdsOwned
<1>4. OwnersTypeOK'
  BY <1>1, <1>2, <1>3 DEF MoveFd, podVars, OwnersIInv, OwnersTypeOK
<1>5. FdsOwned'
  <2>1. \A x : x \in fds' <=> x \in raw' \/ (x # InvalidFd /\ \E c \in AutoFds : m_fd'[c] = x)
    BY <1>1, <1>2, <1>3 DEF HeldFd, OwnersIInv, OwnedOnce, FdsOwned
  <2>2. InvalidFd \notin raw
    BY OwnersAssumption DEF OwnersIInv, OwnersTypeOK
  <2>3. \A c \in AutoFds : m_fd'[c] \notin raw'
    BY <1>1, <1>2, <2>2 DEF OwnersIInv, OwnedOnce, FdsOwned
  <2>4. \A c, d \in AutoFds : c # d /\ m_fd'[c] = m_fd'[d] => m_fd'[c] = InvalidFd
    BY <1>2 DEF OwnersIInv, OwnedOnce, FdsOwned
  <2>. QED
    BY <2>1, <2>3, <2>4 DEF FdsOwned
<1>6. PodsOwned'
  BY PodsAlone DEF MoveFd
<1>. QED
  BY <1>3, <1>4, <1>5, <1>6 DEF OwnersIInv, OwnedOnce

LEMMA MakePodInv == ASSUME OwnersIInv, NEW p \in Pods, MakePod(p) PROVE OwnersIInv'
<1>1. OwnersTypeOK'
  BY DEF MakePod, fdVars, OwnersIInv, OwnersTypeOK
<1>2. PodsOwned'
  BY OwnersAssumption DEF MakePod, OwnersIInv, OwnersTypeOK, OwnedOnce, PodsOwned
<1>3. FdsOwned' /\ ~misuse'
  BY FdsAlone DEF MakePod, OwnersIInv, OwnedOnce
<1>. QED
  BY <1>1, <1>2, <1>3 DEF OwnersIInv, OwnedOnce

LEMMA ResetPodInv ==
    ASSUME OwnersIInv, NEW a \in AutoPods, NEW p \in raw_pods \cup {NoPod}, ResetPod(a, p)
    PROVE  OwnersIInv'
<1>1. /\ pod_data'[a] = p /\ \A b \in AutoPods \ {a} : pod_data'[b] = pod_data[b]
      /\ pod_data' \in [AutoPods -> Pods \cup {NoPod}]
  BY DEF ResetPod, OwnersIInv, OwnersTypeOK
<1>2. pods' = pods \ {pod_data[a]} /\ raw_pods' = raw_pods \ {p} /\ ~misuse'
  BY DEF ResetPod, Delete, OwnersIInv, OwnedOnce, PodsOwned
<1>3. OwnersTypeOK'
  BY <1>1, <1>2 DEF ResetPod, fdVars, OwnersIInv, OwnersTypeOK
<1>4. NoPod \notin pods /\ NoPod \notin raw_pods
  BY OwnersAssumption DEF OwnersIInv, OwnersTypeOK
<1>5. PodsOwned'
  <2>1. \A x : x \in pods' <=> x \in raw_pods' \/ (x # NoPod /\ \E b \in AutoPods : pod_data'[b] = x)
    BY <1>1, <1>2, <1>4 DEF OwnersIInv, OwnedOnce, PodsOwned
  <2>2. \A b \in AutoPods : pod_data'[b] \notin raw_pods'
    BY <1>1, <1>2 DEF OwnersIInv, OwnedOnce, PodsOwned
  <2>3. \A b, c \in AutoPods : b # c /\ pod_data'[b] = pod_data'[c] => pod_data'[b] = NoPod
    BY <1>1 DEF OwnersIInv, OwnedOnce, PodsOwned
  <2>. QED
    BY <2>1, <2>2, <2>3 DEF PodsOwned
<1>6. FdsOwned'
  BY FdsAlone DEF ResetPod
<1>. QED
  BY <1>2, <1>3, <1>5, <1>6 DEF OwnersIInv, OwnedOnce

LEMMA ReleasePodInv == ASSUME OwnersIInv, NEW a \in AutoPods, ReleasePod(a) PROVE OwnersIInv'
<1>1. /\ pod_data'[a] = NoPod /\ \A b \in AutoPods \ {a} : pod_data'[b] = pod_data[b]
      /\ pod_data' \in [AutoPods -> Pods \cup {NoPod}]
      /\ raw_pods' = raw_pods \cup ({pod_data[a]} \ {NoPod}) /\ pods' = pods
  BY DEF ReleasePod, OwnersIInv, OwnersTypeOK
<1>2. OwnersTypeOK'
  BY <1>1 DEF ReleasePod, fdVars, OwnersIInv, OwnersTypeOK
<1>3. NoPod \notin raw_pods
  BY OwnersAssumption DEF OwnersIInv, OwnersTypeOK
<1>4. PodsOwned'
  <2>1. \A x : x \in pods' <=> x \in raw_pods' \/ (x # NoPod /\ \E b \in AutoPods : pod_data'[b] = x)
    BY <1>1 DEF OwnersIInv, OwnedOnce, PodsOwned
  <2>2. \A b \in AutoPods : pod_data'[b] \notin raw_pods'
    BY <1>1, <1>3 DEF OwnersIInv, OwnedOnce, PodsOwned
  <2>3. \A b, c \in AutoPods : b # c /\ pod_data'[b] = pod_data'[c] => pod_data'[b] = NoPod
    BY <1>1 DEF OwnersIInv, OwnedOnce, PodsOwned
  <2>. QED
    BY <2>1, <2>2, <2>3 DEF PodsOwned
<1>5. FdsOwned' /\ ~misuse'
  BY FdsAlone DEF ReleasePod, OwnersIInv, OwnedOnce
<1>. QED
  BY <1>2, <1>4, <1>5 DEF OwnersIInv, OwnedOnce

LEMMA MovePodInv ==
    ASSUME OwnersIInv, NEW a \in AutoPods, NEW b \in AutoPods, MovePod(a, b) PROVE OwnersIInv'
<1>1. /\ pod_data'[a] = pod_data[b] /\ pod_data'[b] = pod_data[a]
      /\ \A c \in AutoPods \ {a, b} : pod_data'[c] = pod_data[c]
      /\ pod_data' \in [AutoPods -> Pods \cup {NoPod}] /\ raw_pods' = raw_pods /\ pods' = pods
  BY DEF MovePod, Moved, OwnersIInv, OwnersTypeOK
<1>2. OwnersTypeOK'
  BY <1>1 DEF MovePod, fdVars, OwnersIInv, OwnersTypeOK
<1>3. PodsOwned'
  <2>1. \A x : x \in pods' <=> x \in raw_pods' \/ (x # NoPod /\ \E c \in AutoPods : pod_data'[c] = x)
    BY <1>1 DEF OwnersIInv, OwnedOnce, PodsOwned
  <2>2. \A c \in AutoPods : pod_data'[c] \notin raw_pods'
    BY <1>1 DEF OwnersIInv, OwnedOnce, PodsOwned
  <2>3. \A c, d \in AutoPods : c # d /\ pod_data'[c] = pod_data'[d] => pod_data'[c] = NoPod
    BY <1>1 DEF OwnersIInv, OwnedOnce, PodsOwned
  <2>. QED
    BY <2>1, <2>2, <2>3 DEF PodsOwned
<1>4. FdsOwned' /\ ~misuse'
  BY FdsAlone DEF MovePod, OwnersIInv, OwnedOnce
<1>. QED
  BY <1>2, <1>3, <1>4 DEF OwnersIInv, OwnedOnce

LEMMA OwnersNextInv == OwnersIInv /\ [OwnersNext]_ownerVars => OwnersIInv'
<1>. SUFFICES ASSUME OwnersIInv, [OwnersNext]_ownerVars PROVE OwnersIInv'
  OBVIOUS
<1>1. CASE \E fd \in FreeFds : OpenFd(fd)
  BY <1>1, OpenFdInv
<1>2. ASSUME NEW a \in AutoFds,
             \/ release(a)
             \/ reset(a, InvalidFd) \/ reset(a, m_fd[a])
             \/ \E fd \in raw : adopt_fd(a, fd) \/ reset(a, fd)
             \/ dup_fd(a)
             \/ \E b \in AutoFds : MoveFd(a, b)
      PROVE  OwnersIInv'
  BY <1>2, releaseInv, resetInv, adopt_fdInv, dup_fdInv, MoveFdInv
<1>3. CASE \E p \in Pods : MakePod(p)
  BY <1>3, MakePodInv
<1>4. ASSUME NEW a \in AutoPods,
             \/ ReleasePod(a) \/ ResetPod(a, NoPod)
             \/ \E p \in raw_pods : ResetPod(a, p)
             \/ \E b \in AutoPods : MovePod(a, b)
      PROVE  OwnersIInv'
  BY <1>4, ReleasePodInv, ResetPodInv, MovePodInv
<1>5. CASE UNCHANGED ownerVars
  BY <1>5 DEF ownerVars, OwnersIInv, OwnersTypeOK, OwnedOnce, FdsOwned, PodsOwned
<1>. QED
  BY <1>1, <1>2, <1>3, <1>4, <1>5 DEF OwnersNext

\* Whatever is duplicated, adopted, released, reset and moved, to itself included, by any
\* number of AutoFd and AutoPod objects: each open descriptor and each datum that was not
\* deleted has one owner, and nothing is closed or deleted that is not open.
THEOREM OwnersSafe == OwnersSpec => []OwnedOnce
<1>1. OwnersSpec => []OwnersIInv
  BY OwnersInitInv, OwnersNextInv, PTL DEF OwnersSpec
<1>2. OwnersIInv => OwnedOnce
  BY DEF OwnersIInv
<1>. QED
  BY <1>1, <1>2, PTL
==============================================================================
