-------------------------- MODULE PullPushProofs ---------------------------
(***************************************************************************)
(* Proofs about Upload and Download for any number of clients, layers,     *)
(* transfers, limits, attempts and failures.                               *)
(***************************************************************************)
EXTENDS Download, Upload, TLAPS

\* More time for a leaf than by default, and a second attempt, for slow machines.
USE SMTT(30), Z3T(30), ZenonT(30)

\* The types of the variables of a push.
UTypeOK ==
  /\ uphase \in [Clients -> {"ask", "unwind", "end"}]
  /\ todo \in [Clients -> Seq(Keys)]
  /\ uploads \in [Clients -> Seq(Xfers)]
  /\ uoutcome \in [Clients -> {"none", "ok", "error", "cancelled"}]
  /\ waitAt \in [Clients -> Nat]
  /\ upc \in [Xfers -> {"none", "start", "upload", "delay", "end"}]
  /\ uresult \in [Xfers -> {"none", "ok", "error"}]
  /\ remote \in SUBSET Keys

\* A push has an upload for every layer it has gone past, and those it has waited
\* for were successful.
PushOK(c) ==
  /\ \A i \in 1..Len(uploads[c]) : key[uploads[c][i]] # Nil
  /\ uphase[c] = "ask" =>
       /\ uoutcome[c] # "ok"
       /\ waitAt[c] <= Len(uploads[c])
       /\ \A i \in 1..waitAt[c] : uresult[uploads[c][i]] = "ok"
       /\ \A i \in 1..Len(Layers[c]) :
            \/ \E j \in 1..Len(todo[c]) : todo[c][j] = Layers[c][i]
            \/ Dedup(c, Layers[c][i])
  /\ uoutcome[c] = "ok" => \A i \in 1..Len(Layers[c]) : Layers[c][i] \in remote

\* A transfer function that has returned has left its result.
UploadOK(x) ==
  /\ uresult[x] = "ok" => key[x] # Nil /\ key[x] \in remote /\ upc[x] = "end"
  /\ key[x] # Nil /\ x \notin running => uresult[x] \in {"ok", "error"}

\* The inductive invariant of a LayerUploadManager.
UInv == /\ UTypeOK
        /\ \A c \in Clients : PushOK(c)
        /\ \A x \in Xfers : UploadOK(x)

-----------------------------------------------------------------------------
\* What one client, or one transfer function, does leaves the promises to the others alone.
LEMMA PushFrame ==
  ASSUME UInv, NothingTakenBack, NEW c \in Clients,
         uphase'[c] = uphase[c], todo'[c] = todo[c], uploads'[c] = uploads[c],
         uoutcome'[c] = uoutcome[c], waitAt'[c] = waitAt[c], remote \subseteq remote',
         \A x \in Xfers : uresult[x] = "ok" => uresult'[x] = "ok"
  PROVE  PushOK(c)'
<1>1. PushOK(c)
  BY DEF UInv
<1>2. /\ uploads[c] \in Seq(Xfers) /\ waitAt[c] \in Nat
      /\ \A i \in 1..Len(uploads[c]) : uploads[c][i] \in Xfers
  BY DEF UInv, UTypeOK
<1>3. \A k : Dedup(c, k) => Dedup(c, k)'
  BY <1>1, <1>2 DEF Dedup, PushOK, NothingTakenBack
<1> QED
  BY <1>1, <1>2, <1>3 DEF PushOK, NothingTakenBack

\* A member of a sequence is its head or a member of its tail.
LEMMA HeadOrTail ==
  \A s \in Seq(Keys) : \A v : s # <<>> /\ (\E j \in 1..Len(s) : s[j] = v) =>
    v = Head(s) \/ \E i \in 1..Len(Tail(s)) : Tail(s)[i] = v
<1> SUFFICES ASSUME NEW s \in Seq(Keys), NEW v, s # <<>>, NEW j \in 1..Len(s), s[j] = v, j # 1
             PROVE  \E i \in 1..Len(Tail(s)) : Tail(s)[i] = v
  OBVIOUS
<1>1. j - 1 \in 1..Len(Tail(s)) /\ Tail(s)[j - 1] = v
  OBVIOUS
<1> QED
  BY <1>1

\* A step that only gives client c an upload, or none, and starts no other change.
LEMMA AskInv ==
  ASSUME TMInv, UInv, NothingTakenBack, NEW c \in Clients,
         AskSkip(c) \/ \E x \in Xfers : AskNew(c, x) \/ AskExisting(c, x) \/ AskCancelled(c, x)
  PROVE  UInv'
<1> USE DEF UInv
<1>0. PushOK(c) /\ uploads[c] \in Seq(Xfers) /\ todo[c] \in Seq(Keys)
  BY DEF UTypeOK
<1>1. CASE AskSkip(c)
  <2>1. /\ uphase[c] = "ask" /\ todo[c] # <<>> /\ Dedup(c, Head(todo[c]))
        /\ todo' = [todo EXCEPT ![c] = Tail(@)]
        /\ UNCHANGED <<vars, uphase, uploads, uoutcome, waitAt, uploadVars, remote, ufailures>>
    BY <1>1, Zenon DEF AskSkip
  <2>2. UTypeOK'
    BY <2>1 DEF UTypeOK, uploadVars
  <2>3. \A k : Dedup(c, k)' = Dedup(c, k)
    BY <2>1, Zenon DEF Dedup, vars, xferVars
  <2>4. todo'[c] = Tail(todo[c])
    BY <2>1, Zenon DEF UTypeOK
  <2>5. ASSUME NEW i \in 1..Len(Layers[c])
        PROVE  \/ \E j \in 1..Len(todo'[c]) : todo'[c][j] = Layers[c][i]
               \/ Dedup(c, Layers[c][i])'
    <3>1. \/ \E j \in 1..Len(todo[c]) : todo[c][j] = Layers[c][i]
          \/ Dedup(c, Layers[c][i])
      BY <1>0, <2>1, Zenon DEF PushOK
    <3>2. CASE \E j \in 1..Len(todo[c]) : todo[c][j] = Layers[c][i]
      <4>1. \/ Layers[c][i] = Head(todo[c])
            \/ \E j \in 1..Len(Tail(todo[c])) : Tail(todo[c])[j] = Layers[c][i]
        BY <1>0, <2>1, <3>2, HeadOrTail, Zenon
      <4> QED
        BY <2>1, <2>3, <2>4, <4>1, Zenon
    <3> QED
      BY <2>3, <3>1, <3>2, Zenon
  <2>6. PushOK(c)'
    BY <1>0, <2>1, <2>5, Zenon DEF PushOK, vars, xferVars, uploadVars
  <2>7. ASSUME NEW d \in Clients, d # c PROVE PushOK(d)'
    BY <2>1, <2>7, PushFrame, Zenon DEF UTypeOK, uploadVars
  <2>8. \A x \in Xfers : UploadOK(x)'
    BY <2>1, Zenon DEF UploadOK, uploadVars, vars, xferVars
  <2> QED
    BY <2>2, <2>6, <2>7, <2>8
<1>2. CASE \E x \in Xfers : AskCancelled(c, x)
  <2>1. UNCHANGED <<xferVars, pushVars, uploadVars, remote>>
    BY <1>2, Zenon DEF AskCancelled, TransferCancelled
  <2>2. UTypeOK'
    BY <2>1, Zenon DEF UTypeOK, pushVars, uploadVars
  <2>3. ASSUME NEW d \in Clients PROVE PushOK(d)'
    BY <2>1, PushFrame, Zenon DEF UTypeOK, pushVars, uploadVars
  <2>4. \A x \in Xfers : UploadOK(x)'
    BY <2>1, Zenon DEF UploadOK, uploadVars, xferVars
  <2> QED
    BY <2>2, <2>3, <2>4
<1>3. ASSUME NEW x \in Xfers, AskNew(c, x) \/ AskExisting(c, x) PROVE UInv'
  <2> DEFINE k == Head(todo[c])
  <2>1. /\ uphase[c] = "ask" /\ todo[c] # <<>>
        /\ todo' = [todo EXCEPT ![c] = Tail(@)]
        /\ uploads' = [uploads EXCEPT ![c] = Append(@, x)]
        /\ UNCHANGED <<uphase, uoutcome, waitAt, uresult, remote>>
        /\ upc' = upc \/ upc' = [upc EXCEPT ![x] = "start"]
    BY <1>3, Zenon DEF AskNew, AskExisting, Asks, Given, uploadVars
  <2>2. key'[x] = k /\ k # Nil /\ k \in Keys
    <3>1. k \in Keys
      BY <1>0, <2>1
    <3>2. CASE AskNew(c, x)
      BY <3>1, <3>2, TMAssumption, Zenon DEF AskNew, TransferNew, CreateIf, TMInv, TMTypeOK
    <3>3. CASE AskExisting(c, x)
      <4>1. k # Nil /\ x # Nil /\ transfers[k] = x /\ key' = key
        BY <3>1, <3>3, TMAssumption, Zenon DEF AskExisting, TransferExisting, WatchIf
      <4> QED
        BY <3>1, <4>1, Zenon DEF TMInv, LifeOK
    <3> QED
      BY <1>3, <3>1, <3>2, <3>3, Zenon
  <2>3. UTypeOK'
    BY <1>0, <2>1 DEF UTypeOK
  <2>4. todo'[c] = Tail(todo[c]) /\ uploads'[c] = Append(uploads[c], x)
    BY <2>1, Zenon DEF UTypeOK
  <2>5. \A l : Dedup(c, l) \/ l = k => Dedup(c, l)'
    <3> SUFFICES ASSUME NEW l, Dedup(c, l) \/ l = k PROVE Dedup(c, l)'
      OBVIOUS
    <3>1. CASE l = k
      <4>1. Len(uploads'[c]) \in 1..Len(uploads'[c]) /\ uploads'[c][Len(uploads'[c])] = x
        BY <1>0, <2>4
      <4> QED
        BY <3>1, <2>2, <4>1, Zenon DEF Dedup
    <3>2. CASE Dedup(c, l)
      <4>1. PICK i \in 1..Len(uploads[c]) : key[uploads[c][i]] = l
        BY <3>2, Zenon DEF Dedup
      <4>2. i \in 1..Len(uploads'[c]) /\ uploads'[c][i] = uploads[c][i]
        BY <1>0, <2>4
      <4>3. key'[uploads[c][i]] = l
        BY <1>0, <4>1 DEF PushOK, NothingTakenBack
      <4> QED
        BY <4>2, <4>3, Zenon DEF Dedup
    <3> QED
      BY <3>1, <3>2
  <2>6. /\ Len(uploads'[c]) = Len(uploads[c]) + 1 /\ uploads'[c][Len(uploads[c]) + 1] = x
        /\ \A i \in 1..Len(uploads[c]) : uploads'[c][i] = uploads[c][i] /\ uploads[c][i] \in Xfers
        /\ Len(uploads[c]) \in Nat
    BY <1>0, <2>4
  <2>7. PushOK(c)'
    <3>1. \A i \in 1..Len(uploads'[c]) : key'[uploads'[c][i]] # Nil
      <4>1. \A i \in 1..Len(uploads[c]) : key'[uploads[c][i]] # Nil
        BY <1>0, <2>6, Zenon DEF PushOK, NothingTakenBack
      <4>2. key'[x] # Nil
        BY <2>2
      <4>3. \A i \in 1..Len(uploads'[c]) : i \in 1..Len(uploads[c]) \/ i = Len(uploads[c]) + 1
        BY <2>6
      <4> QED
        BY <2>6, <4>1, <4>2, <4>3, Zenon
    <3>2. /\ waitAt'[c] = waitAt[c] /\ waitAt[c] \in Nat
          /\ waitAt[c] <= Len(uploads'[c])
          /\ \A i \in 1..waitAt[c] : uresult'[uploads'[c][i]] = "ok"
      BY <1>0, <2>1, <2>6 DEF PushOK, UTypeOK
    <3>3. ASSUME NEW i \in 1..Len(Layers[c])
          PROVE  \/ \E j \in 1..Len(todo'[c]) : todo'[c][j] = Layers[c][i]
                 \/ Dedup(c, Layers[c][i])'
      <4>1. \/ \E j \in 1..Len(todo[c]) : todo[c][j] = Layers[c][i]
            \/ Dedup(c, Layers[c][i])
        BY <1>0, <2>1, Zenon DEF PushOK
      <4>2. CASE \E j \in 1..Len(todo[c]) : todo[c][j] = Layers[c][i]
        <5>1. \/ Layers[c][i] = Head(todo[c])
              \/ \E j \in 1..Len(Tail(todo[c])) : Tail(todo[c])[j] = Layers[c][i]
          BY <1>0, <2>1, <4>2, HeadOrTail, Zenon
        <5> QED
          BY <2>4, <2>5, <5>1, Zenon
      <4> QED
        BY <2>5, <4>1, <4>2, Zenon
    <3> QED
      BY <1>0, <2>1, <3>1, <3>2, <3>3, Zenon DEF PushOK
  <2>8. ASSUME NEW d \in Clients, d # c PROVE PushOK(d)'
    BY <2>1, <2>8, PushFrame, Zenon DEF UTypeOK
  <2>9. \A y \in Xfers : UploadOK(y)'
    <3>1. CASE AskNew(c, x)
      <4>1. key[x] = Nil /\ key' = [key EXCEPT ![x] = k] /\ running' = running \cup {x}
        BY <3>1, Zenon DEF AskNew, TransferNew, CreateIf
      <4> QED
        BY <2>1, <4>1, <2>2 DEF UploadOK, TMInv, TMTypeOK, UTypeOK
    <3>2. CASE AskExisting(c, x)
      BY <3>2, <2>1, Zenon DEF UploadOK, AskExisting, TransferExisting, WatchIf, uploadVars
    <3> QED
      BY <1>3, <3>1, <3>2
  <2> QED
    BY <2>3, <2>7, <2>8, <2>9
<1> QED
  BY <1>1, <1>2, <1>3, Zenon

\* The second loop of Upload and the deferred releases: a client goes past an upload
\* only when it was successful, and is successful only when it has gone past them all.
LEMMA PushWaitInv ==
  ASSUME TMInv, UInv, NothingTakenBack, NEW c \in Clients,
         Wait(c) \/ WaitOver(c) \/ WaitGivenUp(c) \/ Unwind(c)
  PROVE  UInv'
<1> USE DEF UInv
<1>0. /\ PushOK(c) /\ uploads[c] \in Seq(Xfers) /\ waitAt[c] \in Nat
      /\ \A i \in 1..Len(uploads[c]) : uploads[c][i] \in Xfers
  BY DEF UTypeOK
<1>1. /\ UNCHANGED <<key, running, uploadVars, remote, todo>>
      /\ \A d \in Clients : d # c => /\ uphase'[d] = uphase[d] /\ uploads'[d] = uploads[d]
                                     /\ uoutcome'[d] = uoutcome[d] /\ waitAt'[d] = waitAt[d]
  <2>1. UNCHANGED <<key, running, uploadVars, remote, todo>>
    BY Zenon DEF Wait, WaitIf, WaitOver, WaitGivenUp, Unwind, Release, vars, xferVars
  <2>2. /\ UNCHANGED uphase \/ \E v : uphase' = [uphase EXCEPT ![c] = v]
        /\ UNCHANGED uploads \/ \E v : uploads' = [uploads EXCEPT ![c] = v]
        /\ UNCHANGED uoutcome \/ \E v : uoutcome' = [uoutcome EXCEPT ![c] = v]
        /\ UNCHANGED waitAt \/ \E v : waitAt' = [waitAt EXCEPT ![c] = v]
    BY Zenon DEF Wait, WaitIf, WaitOver, WaitGivenUp, Unwind, Return
  <2> QED
    BY <2>1, <2>2, Zenon DEF UTypeOK
<1>2. ASSUME NEW d \in Clients, d # c PROVE PushOK(d)'
  BY <1>1, <1>2, PushFrame, Zenon DEF uploadVars
<1>3. \A x \in Xfers : UploadOK(x)'
  BY <1>1, Zenon DEF UploadOK, uploadVars
<1>4. \A k : uploads'[c] = uploads[c] => Dedup(c, k)' = Dedup(c, k)
  BY <1>1 DEF Dedup
<1>5. CASE Wait(c)
  <2> DEFINE x == uploads[c][waitAt[c] + 1]
  <2>1. /\ uphase[c] = "ask" /\ waitAt[c] < Len(uploads[c]) /\ x \notin running
        /\ uploads' = uploads
        /\ \/ Return(c, "error") /\ UNCHANGED waitAt
           \/ /\ uresult[x] # "error"
              /\ waitAt' = [waitAt EXCEPT ![c] = @ + 1] /\ UNCHANGED <<uphase, uoutcome>>
    BY <1>5, Zenon DEF Wait, WaitIf
  <2>2. x \in Xfers /\ key[x] # Nil
    <3>1. waitAt[c] + 1 \in 1..Len(uploads[c])
      BY <1>0, <2>1
    <3> QED
      BY <1>0, <3>1, Zenon DEF PushOK
  <2>3. uresult[x] # "error" => uresult[x] = "ok"
    BY <2>1, <2>2, Zenon DEF UploadOK
  <2>4. uploads' = uploads
    BY <2>1, Zenon
  <2>5. UTypeOK' /\ PushOK(c)'
    <3>1. CASE Return(c, "error") /\ UNCHANGED waitAt
      <4>1. UTypeOK'
        BY <1>1, <2>4, <3>1, Zenon DEF UTypeOK, uploadVars, Return
      <4>2. uphase'[c] = "unwind" /\ uoutcome'[c] = "error" /\ uploads'[c] = uploads[c] /\ key' = key
        BY <1>1, <2>4, <3>1, Zenon DEF Return, UTypeOK
      <4>3. PushOK(c)'
        BY <1>0, <4>2, Zenon DEF PushOK
      <4> QED
        BY <4>1, <4>3
    <3>2. CASE /\ uresult[x] # "error"
               /\ waitAt' = [waitAt EXCEPT ![c] = @ + 1] /\ UNCHANGED <<uphase, uoutcome>>
      <4>1. waitAt'[c] = waitAt[c] + 1 /\ waitAt'[c] <= Len(uploads[c])
        BY <1>0, <2>1, <3>2 DEF UTypeOK
      <4>2. \A i \in 1..waitAt'[c] : uresult[uploads[c][i]] = "ok"
        <5>1. \A i \in 1..(waitAt[c] + 1) : i \in 1..waitAt[c] \/ i = waitAt[c] + 1
          BY <1>0
        <5>2. uresult[uploads[c][waitAt[c] + 1]] = "ok"
          BY <2>3, <3>2, Zenon
        <5> QED
          BY <1>0, <2>1, <4>1, <5>1, <5>2, Zenon DEF PushOK
      <4>3. UTypeOK'
        BY <1>1, <2>4, <3>2 DEF UTypeOK, uploadVars
      <4>4. UNCHANGED <<key, uresult, todo>> /\ uploads'[c] = uploads[c]
            /\ uphase'[c] = uphase[c] /\ uoutcome'[c] = uoutcome[c] /\ UNCHANGED remote
        BY <1>1, <2>1, <3>2, Zenon DEF uploadVars
      <4> QED
        BY <1>0, <1>4, <2>1, <4>1, <4>2, <4>3, <4>4, Zenon DEF PushOK
    <3> QED
      BY <2>1, <3>1, <3>2, Zenon
  <2> QED
    BY <1>2, <1>3, <2>5
<1>6. CASE WaitOver(c)
  <2>1. /\ uphase[c] = "ask" /\ todo[c] = <<>> /\ waitAt[c] = Len(uploads[c])
        /\ uploads' = uploads /\ waitAt' = waitAt /\ Return(c, "ok")
    BY <1>6 DEF WaitOver
  <2>2. ASSUME NEW i \in 1..Len(Layers[c]) PROVE Layers[c][i] \in remote
    <3>1. PICK j \in 1..Len(uploads[c]) : key[uploads[c][j]] = Layers[c][i]
      BY <1>0, <2>1 DEF PushOK, Dedup
    <3>2. uploads[c][j] \in Xfers /\ uresult[uploads[c][j]] = "ok"
      BY <1>0, <2>1, Zenon DEF PushOK
    <3> QED
      BY <3>1, <3>2, ZenonT(30) DEF UploadOK
  <2>3. UTypeOK'
    BY <1>1, <2>1, Zenon DEF UTypeOK, uploadVars, Return
  <2>4. PushOK(c)'
    BY <1>0, <1>1, <2>1, <2>2, Zenon DEF PushOK, Return, UTypeOK
  <2> QED
    BY <1>2, <1>3, <2>3, <2>4
<1>7. CASE WaitGivenUp(c)
  <2>1. uploads' = uploads /\ waitAt' = waitAt /\ Return(c, "cancelled")
    BY <1>7 DEF WaitGivenUp
  <2>2. UTypeOK'
    BY <1>1, <2>1, Zenon DEF UTypeOK, uploadVars, Return
  <2>3. uphase'[c] # "ask" /\ uoutcome'[c] = "cancelled"
    BY <1>0, <2>1 DEF Return, UTypeOK
  <2>4. PushOK(c)'
    BY <1>0, <1>1, <2>1, <2>3, Zenon DEF PushOK
  <2> QED
    BY <1>2, <1>3, <2>2, <2>4
<1>8. CASE Unwind(c)
  <2>1. /\ uphase[c] = "unwind" /\ uoutcome' = uoutcome /\ waitAt' = waitAt
        /\ \/ uphase' = [uphase EXCEPT ![c] = "end"] /\ uploads' = uploads
           \/ /\ uploads[c] # <<>> /\ uphase' = uphase
              /\ uploads' = [uploads EXCEPT ![c] = SubSeq(@, 1, Len(@) - 1)]
    BY <1>8, Zenon DEF Unwind
  <2>2. UTypeOK' /\ \A i \in 1..Len(uploads'[c]) : i \in 1..Len(uploads[c]) /\ uploads'[c][i] = uploads[c][i]
    <3>1. CASE uploads' = uploads
      BY <1>1, <2>1, <3>1, Zenon DEF UTypeOK, uploadVars
    <3>2. CASE /\ uploads[c] # <<>> /\ uphase' = uphase
               /\ uploads' = [uploads EXCEPT ![c] = SubSeq(@, 1, Len(@) - 1)]
      <4> DEFINE s == SubSeq(uploads[c], 1, Len(uploads[c]) - 1)
      <4>1. s \in Seq(Xfers) /\ Len(s) = Len(uploads[c]) - 1
            /\ \A i \in 1..Len(s) : i \in 1..Len(uploads[c]) /\ s[i] = uploads[c][i]
        BY <1>0, <3>2
      <4>2. uploads'[c] = s /\ uploads' \in [Clients -> Seq(Xfers)]
        BY <3>2, <4>1, Zenon DEF UTypeOK
      <4> QED
        BY <1>1, <2>1, <3>2, <4>1, <4>2, Zenon DEF UTypeOK, uploadVars
    <3> QED
      BY <2>1, <3>1, <3>2, Zenon
  <2>3. PushOK(c)'
    <3>1. uphase'[c] # "ask"
      BY <2>1, Zenon DEF UTypeOK
    <3> QED
      BY <1>0, <1>1, <2>1, <2>2, <3>1 DEF PushOK
  <2> QED
    BY <1>2, <1>3, <2>2, <2>3
<1> QED
  BY <1>5, <1>6, <1>7, <1>8, Zenon

\* The transfer function of an upload, and the manager: a result, once left, stays.
LEMMA UploadInv ==
  ASSUME TMInv, UInv, NothingTakenBack, NEW x \in Xfers,
         UploadStep(x) \/ UploadError(x) \/ UManager(x)
  PROVE  UInv'
<1> USE DEF UInv
<1>1. /\ UNCHANGED <<key, pushVars>>
      /\ \/ UNCHANGED <<running, uresult, remote>>
         \/ /\ running' = running \ {x} /\ x \in running /\ upc'[x] = "end" /\ upc[x] # "end"
            /\ \/ uresult' = [uresult EXCEPT ![x] = "error"] /\ remote' = remote
               \/ uresult' = [uresult EXCEPT ![x] = "ok"] /\ remote' = remote \cup {key[x]}
      /\ \A y \in Xfers : upc[y] = "end" => upc'[y] = "end"
      /\ upc' \in [Xfers -> {"none", "start", "upload", "delay", "end"}]
  BY ZenonT(30) DEF UploadStep, UploadError, UManager, UploadStart, UploadOk, UploadCancelled, UploadDelayOver,
     UFail, FuncDone, UGoto, CleanupDone, CleanupDoneIf, Close, CloseIf, vars, xferVars, uploadVars, UTypeOK
<1>2. key[x] # Nil => key[x] \in Keys
  BY DEF TMInv, TMTypeOK
<1>3. x \in running => key[x] # Nil
  BY DEF TMInv, LifeOK
<1>4. UTypeOK'
  BY <1>1, <1>2, <1>3, Zenon DEF UTypeOK, pushVars
<1>5. \A y \in Xfers : uresult[y] = "ok" => uresult'[y] = "ok"
  BY <1>1 DEF UTypeOK, UploadOK
<1>6. ASSUME NEW d \in Clients PROVE PushOK(d)'
  BY <1>1, <1>5, PushFrame, Zenon DEF pushVars
<1>7. \A y \in Xfers : UploadOK(y)'
  BY <1>1, <1>3 DEF UploadOK, UTypeOK
<1> QED
  BY <1>4, <1>6, <1>7

-----------------------------------------------------------------------------
\* Every step of a push keeps the invariant of the pushes.
LEMMA NextUInv == ASSUME TMInv, UInv, NothingTakenBack, [UNext]_uvars PROVE UInv'
<1>1. CASE UNCHANGED uvars
  <2>1. UNCHANGED <<vars, pushVars, uploadVars, remote>>
    BY <1>1 DEF uvars
  <2>2. UTypeOK'
    BY <2>1 DEF UInv, UTypeOK, pushVars, uploadVars
  <2>3. ASSUME NEW c \in Clients PROVE PushOK(c)'
    BY <2>1, PushFrame DEF pushVars, uploadVars
  <2>4. \A x \in Xfers : UploadOK(x)'
    BY <2>1 DEF UInv, UploadOK, uploadVars, vars, xferVars
  <2> QED
    BY <2>2, <2>3, <2>4 DEF UInv
<1>2. CASE UNext
  BY <1>2, AskInv, PushWaitInv, UploadInv, Zenon DEF UNext, PushStep
<1> QED
  BY <1>1, <1>2

-----------------------------------------------------------------------------
(* The pulls.                                                              *)

\* The types of the variables of a pull.
DTypeOK ==
  /\ phase \in [Clients -> {"scan", "fetch", "wait", "unwind", "held", "end"}]
  /\ idx \in [Clients -> Nat]
  /\ topLayer \in [Clients -> Nat]
  /\ mine \in [Clients -> Seq(Xfers)]
  /\ outcome \in [Clients -> {"none", "ok", "error", "cancelled"}]
  /\ wpc \in [Xfers -> {"none", "start", "download", "delay", "parent", "source",
                        "register", "return", "end"}]
  /\ parent \in [Xfers -> Xfers \cup {Nil}]
  /\ result \in [Xfers -> {"none", "ok", "error"}]
  /\ holders \in [Keys -> SUBSET (Clients \cup Xfers \cup Images)]

\* A pull watches its downloads, which are those of consecutive layers up to the top
\* one; when it has succeeded it keeps the top one, first, or the layer it found.
PullOK(c) ==
  /\ \A j \in 1..Len(mine[c]) : c \in watchers[mine[c][j]]
  /\ \A i, j \in 1..Len(mine[c]) : mine[c][i] = mine[c][j] => i = j
  /\ phase[c] = "scan" => /\ mine[c] = <<>> /\ topLayer[c] = idx[c] - 1
                          /\ 1 <= idx[c] /\ idx[c] <= Top[c] + 1
                          /\ topLayer[c] # 0 => c \in holders[topLayer[c]]
  /\ phase[c] \in {"fetch", "wait"} =>
       /\ idx[c] = topLayer[c] + Len(mine[c]) + 1
       /\ \A j \in 1..Len(mine[c]) : key[mine[c][j]] = topLayer[c] + j
  /\ phase[c] = "fetch" => idx[c] <= Top[c]
  /\ phase[c] = "wait" => idx[c] = Top[c] + 1 /\ mine[c] # <<>>
  /\ phase[c] = "unwind" => topLayer[c] # 0 \/ Len(mine[c]) > Kept(c)
  /\ phase[c] = "unwind" /\ outcome[c] = "ok" => mine[c] # <<>>
  /\ phase[c] = "held" /\ mine[c] = <<>> => topLayer[c] = Top[c] /\ c \in holders[Top[c]]
  /\ mine[c] # <<>> /\ (phase[c] = "held" \/ (phase[c] = "unwind" /\ outcome[c] = "ok")) =>
       result[mine[c][1]] = "ok" /\ key[mine[c][1]] = Top[c]

\* A download that has succeeded holds its layer until it is released, and one that
\* goes past the wait for its parent has a parent that succeeded.
WorkOK(x) ==
  /\ key[x] = Nil => wpc[x] = "none" /\ parent[x] = Nil
  /\ result[x] = "ok" => /\ key[x] # Nil /\ wpc[x] \in {"return", "end"}
                         /\ x \in released \/ x \in holders[key[x]]
  /\ parent[x] # Nil => key[parent[x]] # Nil /\ key[parent[x]] = key[x] - 1
  /\ parent[x] # Nil /\ wpc[x] \in {"source", "register"} => result[parent[x]] = "ok"

\* The inductive invariant of a LayerDownloadManager.
DInv == /\ DTypeOK
        /\ \A c \in Clients : PullOK(c)
        /\ \A x \in Xfers : WorkOK(x)

-----------------------------------------------------------------------------
\* A pull asks for the layers of the chain, and releases transfers it has.
LEMMA PullNames ==
  ASSUME DInv, NEW c \in Clients
  PROVE  /\ Top[c] \in Keys
         /\ phase[c] = "fetch" => idx[c] \in Keys
         /\ mine[c] # <<>> => TopOf(c) \in Xfers /\ Len(mine[c]) \in 1..Len(mine[c])
         /\ phase[c] = "wait" => mine[c] # <<>>
         /\ phase[c] = "unwind" /\ topLayer[c] = 0 => mine[c] # <<>>
<1>1. PullOK(c) /\ mine[c] \in Seq(Xfers) /\ idx[c] \in Nat /\ topLayer[c] \in Nat
  BY DEF DInv, DTypeOK
<1>2. Top[c] \in Keys /\ Keys = 1..Depth /\ Depth \in Nat
  BY DownloadAssumption
<1>3. phase[c] = "fetch" => idx[c] \in Keys
  <2> SUFFICES ASSUME phase[c] = "fetch" PROVE idx[c] \in Keys
    OBVIOUS
  <2>1. idx[c] = topLayer[c] + Len(mine[c]) + 1 /\ idx[c] <= Top[c]
    BY <1>1, Zenon DEF PullOK
  <2> QED
    BY <1>1, <1>2, <2>1
<1>4. mine[c] # <<>> => TopOf(c) \in Xfers /\ Len(mine[c]) \in 1..Len(mine[c])
  BY <1>1 DEF TopOf
<1>5. phase[c] = "wait" => mine[c] # <<>>
  BY <1>1, Zenon DEF PullOK
<1>6. phase[c] = "unwind" /\ topLayer[c] = 0 => mine[c] # <<>>
  BY <1>1 DEF PullOK, Kept
<1> QED
  BY <1>2, <1>3, <1>4, <1>5, <1>6, Zenon

\* The promises to a client survive the steps of others: they take no watcher and no
\* layer from it, and no result back.
LEMMA PullFrame ==
  ASSUME DInv, TMInv, NothingTakenBack, NEW c \in Clients,
         phase'[c] = phase[c], idx'[c] = idx[c], topLayer'[c] = topLayer[c],
         mine'[c] = mine[c], outcome'[c] = outcome[c],
         \A x \in Xfers : c \in watchers[x] => c \in watchers'[x],
         \A i \in Keys : c \in holders[i] => c \in holders'[i],
         \A x \in Xfers : result[x] = "ok" => result'[x] = "ok"
  PROVE  PullOK(c)'
<1>1. PullOK(c) /\ mine[c] \in Seq(Xfers) /\ topLayer[c] \in Nat /\ idx[c] \in Nat
  BY DEF DInv, DTypeOK
<1>2. /\ Top[c] \in Nat /\ Top[c] \in Keys
      /\ \A i : i \in Nat /\ i # 0 /\ i <= Top[c] => i \in Keys
  BY DownloadAssumption
<1>3. ASSUME NEW j \in 1..Len(mine[c])
      PROVE  mine[c][j] \in Xfers /\ key[mine[c][j]] # Nil /\ key'[mine[c][j]] = key[mine[c][j]]
  <2>1. mine[c][j] \in Xfers /\ watchers[mine[c][j]] # {}
    BY <1>1 DEF PullOK
  <2> QED
    BY <2>1, Zenon DEF TMInv, LifeOK, NothingTakenBack
<1>4. mine[c] # <<>> => 1 \in 1..Len(mine[c])
  BY <1>1
<1>5. Kept(c)' = Kept(c)
  BY DEF Kept
<1>6. \A j \in 1..Len(mine[c]) : c \in watchers'[mine[c][j]] /\ key'[mine[c][j]] = key[mine[c][j]]
  BY <1>1, <1>3 DEF PullOK
<1>7. /\ phase[c] = "scan" /\ topLayer[c] # 0 => c \in holders'[topLayer[c]]
      /\ phase[c] = "held" /\ mine[c] = <<>> => c \in holders'[Top[c]]
  BY <1>1, <1>2 DEF PullOK
<1>8. mine[c] # <<>> /\ result[mine[c][1]] = "ok" => result'[mine[c][1]] = "ok"
  BY <1>3, <1>4
<1>9. /\ \A j \in 1..Len(mine'[c]) : c \in watchers'[mine'[c][j]]
      /\ \A i, j \in 1..Len(mine'[c]) : mine'[c][i] = mine'[c][j] => i = j
      /\ phase'[c] \in {"fetch", "wait"} =>
           /\ idx'[c] = topLayer'[c] + Len(mine'[c]) + 1
           /\ \A j \in 1..Len(mine'[c]) : key'[mine'[c][j]] = topLayer'[c] + j
  <2>1. /\ \A i, j \in 1..Len(mine[c]) : mine[c][i] = mine[c][j] => i = j
        /\ phase[c] \in {"fetch", "wait"} =>
             /\ idx[c] = topLayer[c] + Len(mine[c]) + 1
             /\ \A j \in 1..Len(mine[c]) : key[mine[c][j]] = topLayer[c] + j
    BY <1>1, Zenon DEF PullOK
  <2> QED
    BY <1>6, <2>1
<1>10. mine'[c] # <<>> /\ (phase'[c] = "held" \/ (phase'[c] = "unwind" /\ outcome'[c] = "ok")) =>
         result'[mine'[c][1]] = "ok" /\ key'[mine'[c][1]] = Top[c]
  BY <1>1, <1>4, <1>6, <1>8, Zenon DEF PullOK
<1>11. /\ phase'[c] = "scan" => /\ mine'[c] = <<>> /\ topLayer'[c] = idx'[c] - 1
                                /\ 1 <= idx'[c] /\ idx'[c] <= Top[c] + 1
                                /\ topLayer'[c] # 0 => c \in holders'[topLayer'[c]]
       /\ phase'[c] = "fetch" => idx'[c] <= Top[c]
       /\ phase'[c] = "wait" => idx'[c] = Top[c] + 1 /\ mine'[c] # <<>>
       /\ phase'[c] = "held" /\ mine'[c] = <<>> => topLayer'[c] = Top[c] /\ c \in holders'[Top[c]]
  BY <1>1, <1>7, Zenon DEF PullOK
<1>12. /\ phase'[c] = "unwind" => topLayer'[c] # 0 \/ Len(mine'[c]) > Kept(c)'
       /\ phase'[c] = "unwind" /\ outcome'[c] = "ok" => mine'[c] # <<>>
  BY <1>1, <1>5, Zenon DEF PullOK
<1> QED
  BY <1>9, <1>10, <1>11, <1>12, Zenon DEF PullOK

\* The same for a transfer function that does not move.
LEMMA WorkFrame ==
  ASSUME DInv, TMInv, NothingTakenBack, NEW x \in Xfers,
         key'[x] = key[x], wpc'[x] = wpc[x], parent'[x] = parent[x], result'[x] = result[x],
         \A i \in Keys : x \in holders[i] => x \in holders'[i],
         \A y \in Xfers : result[y] = "ok" => result'[y] = "ok"
  PROVE  WorkOK(x)'
<1>1. WorkOK(x) /\ parent[x] \in Xfers \cup {Nil}
  BY Zenon DEF DInv, DTypeOK
<1>2. key[x] # Nil => key[x] \in Keys
  BY Zenon DEF TMInv, TMTypeOK
<1> QED
  BY <1>1, <1>2, Zenon DEF WorkOK, NothingTakenBack

\* A client takes references of its own and gives only those back.
LEMMA HoldersFrame ==
  ASSUME DTypeOK, NEW c, NEW i,
         NEW h, h = Without(holders, i, c)
  PROVE  /\ h \in [Keys -> SUBSET (Clients \cup Xfers \cup Images)]
         /\ \A who, j : who # c /\ j \in Keys /\ who \in holders[j] => who \in h[j]
BY DEF DTypeOK, Without

\* What a client does is not noticed by other clients, or by transfer functions.
LEMMA ClientFrame ==
  ASSUME TMInv, DInv, NothingTakenBack, NEW c \in Clients, DTypeOK', PullOK(c)',
         \A d \in Clients : d # c =>
           /\ phase'[d] = phase[d] /\ idx'[d] = idx[d] /\ topLayer'[d] = topLayer[d]
           /\ mine'[d] = mine[d] /\ outcome'[d] = outcome[d],
         \A x \in Xfers, d \in Clients : d # c /\ d \in watchers[x] => d \in watchers'[x],
         \A who, j : who # c /\ j \in Keys /\ who \in holders[j] => who \in holders'[j],
         UNCHANGED <<key, workVars>>
  PROVE  DInv'
<1>1. ASSUME NEW d \in Clients, d # c PROVE PullOK(d)'
  BY <1>1, PullFrame, Zenon DEF workVars
<1>2. ASSUME NEW x \in Xfers PROVE WorkOK(x)'
  <2>1. x # c
    BY DownloadAssumption
  <2> QED
    BY <2>1, WorkFrame, Zenon DEF workVars
<1> QED
  BY <1>1, <1>2, Zenon DEF DInv

\* A pull that has asked for nothing has no downloads to speak of.
LEMMA NothingIn == \A j : j \notin 1..Len(<<>>)
OBVIOUS

\* The scan for layers that are there: the last one found is held.
LEMMA ScanInv ==
  ASSUME TMInv, DInv, NothingTakenBack, NEW c \in Clients,
         ScanFound(c) \/ ScanMissing(c) \/ ScanComplete(c)
  PROVE  DInv'
<1>0. /\ PullOK(c) /\ DTypeOK /\ mine[c] \in Seq(Xfers) /\ topLayer[c] \in Nat /\ idx[c] \in Nat
      /\ Top[c] \in Nat /\ Top[c] \in Keys /\ Keys = 1..Depth /\ Depth \in Nat
  BY DownloadAssumption DEF DInv, DTypeOK
<1>1. CASE ScanFound(c)
  <2> DEFINE i == idx[c]
             h == Without(holders, topLayer[c], c)
  <2>1. /\ phase[c] = "scan" /\ i <= Top[c]
        /\ holders' = [h EXCEPT ![i] = @ \cup {c}]
        /\ topLayer' = [topLayer EXCEPT ![c] = i]
        /\ idx' = [idx EXCEPT ![c] = i + 1]
        /\ UNCHANGED <<vars, phase, mine, outcome, workVars>>
    BY <1>1, Zenon DEF ScanFound, With
  <2>2. mine[c] = <<>> /\ 1 <= i /\ i \in Keys
    BY <1>0, <2>1 DEF PullOK
  <2>3. /\ h \in [Keys -> SUBSET (Clients \cup Xfers \cup Images)]
        /\ \A who, j : who # c /\ j \in Keys /\ who \in holders[j] => who \in h[j]
    BY <1>0, HoldersFrame, Zenon
  <2> HIDE DEF h
  <2>4. /\ c \in holders'[i]
        /\ \A who, j : who # c /\ j \in Keys /\ who \in holders[j] => who \in holders'[j]
    BY <2>1, <2>2, <2>3, Zenon
  <2>5. DTypeOK'
    <3>1. i + 1 \in Nat /\ holders' \in [Keys -> SUBSET (Clients \cup Xfers \cup Images)]
      BY <1>0, <2>1, <2>2, <2>3
    <3> QED
      BY <1>0, <2>1, <3>1, Zenon DEF DTypeOK, workVars
  <2>6. PullOK(c)'
    <3>1. phase'[c] = "scan" /\ topLayer'[c] = i /\ idx'[c] = i + 1 /\ mine'[c] = <<>>
      BY <2>1, <2>2, Zenon DEF DInv, DTypeOK
    <3>2. i = (i + 1) - 1 /\ 1 <= i + 1 /\ i + 1 <= Top[c] + 1
      BY <1>0, <2>1
    <3> QED
      BY <2>4, <3>1, <3>2, NothingIn, Zenon DEF PullOK
  <2> QED
    BY <2>1, <2>4, <2>5, <2>6, ClientFrame, Zenon DEF DInv, DTypeOK, vars, xferVars
<1>2. CASE ScanMissing(c) \/ ScanComplete(c)
  <2>1. /\ phase[c] = "scan"
        /\ \/ idx[c] <= Top[c] /\ phase' = [phase EXCEPT ![c] = "fetch"] /\ outcome' = outcome
           \/ /\ idx[c] > Top[c] /\ phase' = [phase EXCEPT ![c] = "held"]
              /\ outcome' = [outcome EXCEPT ![c] = "ok"]
        /\ UNCHANGED <<vars, idx, topLayer, mine, workVars, storeVars>>
    BY <1>2, Zenon DEF ScanMissing, ScanComplete
  <2>2. DTypeOK'
    BY <1>0, <2>1, Zenon DEF DTypeOK, workVars, storeVars
  <2>3. /\ mine[c] = <<>> /\ topLayer[c] = idx[c] - 1 /\ 1 <= idx[c] /\ idx[c] <= Top[c] + 1
        /\ topLayer[c] # 0 => c \in holders[topLayer[c]]
    BY <1>0, <2>1, Zenon DEF PullOK
  <2>4. /\ mine'[c] = <<>> /\ topLayer'[c] = topLayer[c] /\ idx'[c] = idx[c] /\ holders' = holders
        /\ \/ phase'[c] = "fetch" /\ idx[c] <= Top[c]
           \/ phase'[c] = "held" /\ idx[c] > Top[c]
    BY <2>1, <2>3, Zenon DEF DInv, DTypeOK, storeVars
  <2>5. PullOK(c)'
    <3>1. /\ Len(<<>>) = 0 /\ idx[c] = topLayer[c] + 0 + 1
          /\ idx[c] > Top[c] => topLayer[c] # 0 /\ topLayer[c] = Top[c]
      BY <1>0, <2>3, DownloadAssumption
    <3> QED
      BY <2>3, <2>4, <3>1, NothingIn, Zenon DEF PullOK
  <2>6. /\ \A d \in Clients : d # c =>
             /\ phase'[d] = phase[d] /\ idx'[d] = idx[d] /\ topLayer'[d] = topLayer[d]
             /\ mine'[d] = mine[d] /\ outcome'[d] = outcome[d]
        /\ UNCHANGED <<key, watchers, holders, workVars>>
    BY <1>0, <2>1 DEF DTypeOK, vars, xferVars, storeVars
  <2> QED
    BY <2>2, <2>5, <2>6, ClientFrame, Zenon
<1> QED
  BY <1>1, <1>2

\* A pull is given the transfer of the next layer of its image.
LEMMA GotPull ==
  ASSUME TMInv, DInv, NothingTakenBack, NEW c \in Clients, NEW x \in Xfers,
         phase[c] = "fetch", Got(c, x), key'[x] = idx[c], c \in watchers'[x],
         \A y \in Xfers : c \in watchers[y] => c \in watchers'[y],
         topLayer' = topLayer, outcome' = outcome
  PROVE  /\ PullOK(c)'
         /\ mine' \in [Clients -> Seq(Xfers)] /\ idx' \in [Clients -> Nat]
         /\ phase' \in [Clients -> {"scan", "fetch", "wait", "unwind", "held", "end"}]
<1> DEFINE m == mine[c]
           n == Append(m, x)
<1>0. /\ PullOK(c) /\ DTypeOK /\ m \in Seq(Xfers) /\ topLayer[c] \in Nat /\ idx[c] \in Nat
      /\ Top[c] \in Nat
  BY DownloadAssumption DEF DInv, DTypeOK
<1>1. /\ idx[c] = topLayer[c] + Len(m) + 1 /\ idx[c] <= Top[c]
      /\ \A j \in 1..Len(m) : key[m[j]] = topLayer[c] + j
  BY <1>0, Zenon DEF PullOK
<1>2. /\ mine' = [mine EXCEPT ![c] = n] /\ idx' = [idx EXCEPT ![c] = @ + 1]
      /\ phase' = [phase EXCEPT ![c] = IF idx[c] = Top[c] THEN "wait" ELSE @]
  BY DEF Got
<1>3. /\ n \in Seq(Xfers) /\ Len(n) = Len(m) + 1 /\ n[Len(m) + 1] = x /\ n # <<>>
      /\ \A j \in 1..Len(m) : n[j] = m[j] /\ m[j] \in Xfers
      /\ Len(m) \in Nat
  BY <1>0
<1>4. \A j \in 1..Len(m) : key'[m[j]] = topLayer[c] + j /\ c \in watchers'[m[j]]
  <2> SUFFICES ASSUME NEW j \in 1..Len(m)
               PROVE  key'[m[j]] = topLayer[c] + j /\ c \in watchers'[m[j]]
    BY Zenon
  <2>1. m[j] \in Xfers /\ c \in watchers[m[j]]
    BY <1>0, <1>3, Zenon DEF PullOK
  <2>2. key[m[j]] # Nil
    BY <2>1, Zenon DEF TMInv, LifeOK
  <2> QED
    BY <1>1, <2>1, <2>2, Zenon DEF NothingTakenBack
<1> HIDE DEF m, n
<1>5. \A j \in 1..Len(n) : key'[n[j]] = topLayer[c] + j /\ c \in watchers'[n[j]]
  <2>1. \A j \in 1..Len(n) : j \in 1..Len(m) \/ j = Len(m) + 1
    BY <1>3
  <2> QED
    <3>1. topLayer[c] + (Len(m) + 1) = idx[c]
      BY <1>0, <1>1, <1>3
    <3> QED
      BY <1>3, <1>4, <2>1, <3>1, Zenon
<1>6. \A i, j \in 1..Len(n) : n[i] = n[j] => i = j
  <2> SUFFICES ASSUME NEW i \in 1..Len(n), NEW j \in 1..Len(n), n[i] = n[j] PROVE i = j
    OBVIOUS
  <2>1. topLayer[c] + i = topLayer[c] + j
    BY <1>5, Zenon
  <2> QED
    BY <1>0, <1>3, <2>1
<1>7. /\ mine'[c] = n /\ idx'[c] = idx[c] + 1 /\ topLayer'[c] = topLayer[c]
      /\ phase'[c] = IF idx[c] = Top[c] THEN "wait" ELSE "fetch"
  BY <1>0, <1>2, Zenon DEF DTypeOK
<1>8. PullOK(c)'
  <2>1. phase'[c] = "wait" => idx'[c] = Top[c] + 1
    BY <1>0, <1>7, Zenon
  <2>2. phase'[c] = "fetch" => idx'[c] <= Top[c]
    BY <1>0, <1>1, <1>7
  <2>3. idx'[c] = topLayer[c] + Len(n) + 1
    BY <1>0, <1>1, <1>3, <1>7
  <2>4. phase'[c] \in {"wait", "fetch"}
    BY <1>7
  <2> QED
    BY <1>3, <1>5, <1>6, <1>7, <2>1, <2>2, <2>3, <2>4, Zenon DEF PullOK
<1>9. mine' \in [Clients -> Seq(Xfers)]
  BY <1>0, <1>2, <1>3, Zenon DEF DTypeOK
<1>10. idx' \in [Clients -> Nat]
  BY <1>0, <1>2 DEF DTypeOK
<1>11. phase' \in [Clients -> {"scan", "fetch", "wait", "unwind", "held", "end"}]
  BY <1>0, <1>2, Zenon DEF DTypeOK
<1> QED
  BY <1>8, <1>9, <1>10, <1>11

\* Download asks the manager for the transfers of the missing layers.
LEMMA FetchInv ==
  ASSUME TMInv, DInv, NothingTakenBack, NEW c \in Clients, NEW x \in Xfers,
         FetchNew(c, x) \/ FetchExisting(c, x) \/ FetchCancelled(c, x)
  PROVE  DInv'
<1>0. /\ phase[c] = "fetch" /\ idx[c] \in Keys /\ idx[c] # Nil /\ DTypeOK /\ PullOK(c) /\ WorkOK(x)
      /\ mine[c] # <<>> => TopOf(c) \in Xfers /\ Len(mine[c]) \in 1..Len(mine[c])
  BY PullNames, TMAssumption, Zenon DEF FetchNew, FetchExisting, FetchCancelled, DInv
<1>1. CASE FetchCancelled(c, x)
  <2>1. UNCHANGED <<xferVars, clientVars, workVars, storeVars>>
    BY <1>1, Zenon DEF FetchCancelled, TransferCancelled
  <2>2. DTypeOK'
    BY <1>0, <2>1, Zenon DEF DTypeOK, clientVars, workVars, storeVars
  <2>3. PullOK(c)'
    BY <1>0, <2>1, PullFrame, Zenon DEF clientVars, workVars, storeVars, xferVars
  <2> QED
    BY <2>1, <2>2, <2>3, ClientFrame, Zenon DEF clientVars, storeVars, xferVars
<1>2. CASE FetchExisting(c, x)
  <2>1. /\ transfers[idx[c]] = x /\ watchers' = [watchers EXCEPT ![x] = @ \cup {c}]
        /\ Got(c, x) /\ UNCHANGED <<key, topLayer, outcome, workVars, storeVars>>
    BY <1>2, Zenon DEF FetchExisting, TransferExisting, WatchIf
  <2>2. key'[x] = idx[c]
    BY <1>0, <2>1, TMAssumption, Zenon DEF TMInv, LifeOK, TMTypeOK
  <2>3. \A y \in Xfers, d \in Clients : d \in watchers[y] => d \in watchers'[y]
    BY <2>1, Zenon DEF TMInv, TMTypeOK
  <2>4. c \in watchers'[x]
    BY <2>1, Zenon DEF TMInv, TMTypeOK
  <2>5. /\ PullOK(c)' /\ mine' \in [Clients -> Seq(Xfers)] /\ idx' \in [Clients -> Nat]
        /\ phase' \in [Clients -> {"scan", "fetch", "wait", "unwind", "held", "end"}]
    BY <1>0, <2>1, <2>2, <2>3, <2>4, GotPull, Zenon
  <2>6. DTypeOK'
    BY <1>0, <2>1, <2>5, Zenon DEF DTypeOK, workVars, storeVars
  <2> QED
    BY <1>0, <2>1, <2>3, <2>5, <2>6, ClientFrame, Zenon DEF Got, DTypeOK, storeVars
<1>3. CASE FetchNew(c, x)
  <2>1. /\ key[x] = Nil /\ key' = [key EXCEPT ![x] = idx[c]]
        /\ watchers' = [watchers EXCEPT ![x] = {c}] /\ Got(c, x)
        /\ wpc' = [wpc EXCEPT ![x] = "start"] /\ parent' = [parent EXCEPT ![x] = TopOf(c)]
        /\ UNCHANGED <<topLayer, outcome, result, storeVars>>
    BY <1>3, Zenon DEF FetchNew, TransferNew, CreateIf
  <2>2. watchers[x] = {} /\ result[x] # "ok"
    BY <1>0, <2>1, Zenon DEF TMInv, LifeOK, WorkOK
  <2>3. \A y \in Xfers, d \in Clients : d \in watchers[y] => d \in watchers'[y]
    BY <2>1, <2>2, Zenon DEF TMInv, TMTypeOK
  <2>4. c \in watchers'[x] /\ key'[x] = idx[c]
    BY <2>1, Zenon DEF TMInv, TMTypeOK
  <2>5. /\ PullOK(c)' /\ mine' \in [Clients -> Seq(Xfers)] /\ idx' \in [Clients -> Nat]
        /\ phase' \in [Clients -> {"scan", "fetch", "wait", "unwind", "held", "end"}]
    BY <1>0, <2>1, <2>3, <2>4, GotPull, Zenon
  <2>6. DTypeOK'
    <3>1. TopOf(c) \in Xfers \cup {Nil}
      BY <1>0, Zenon DEF TopOf
    <3> QED
      BY <1>0, <2>1, <2>5, <3>1, Zenon DEF DTypeOK, storeVars
  <2>7. ASSUME NEW d \in Clients, d # c PROVE PullOK(d)'
    BY <1>0, <2>1, <2>3, <2>7, PullFrame, Zenon DEF Got, DTypeOK, storeVars
  <2>8. ASSUME NEW y \in Xfers, y # x PROVE WorkOK(y)'
    BY <1>0, <2>1, <2>8, WorkFrame, Zenon DEF DTypeOK, storeVars, TMInv, TMTypeOK
  <2>9. WorkOK(x)'
    <3>1. ASSUME mine[c] # <<>>
          PROVE  key[TopOf(c)] # Nil /\ key'[TopOf(c)] = idx[c] - 1
      <4>1. TopOf(c) = mine[c][Len(mine[c])] /\ c \in watchers[TopOf(c)] /\ TopOf(c) \in Xfers
        BY <1>0, <3>1, Zenon DEF TopOf, PullOK
      <4>2. key[TopOf(c)] # Nil
        BY <4>1, Zenon DEF TMInv, LifeOK
      <4>3. key[TopOf(c)] = topLayer[c] + Len(mine[c]) /\ idx[c] = topLayer[c] + Len(mine[c]) + 1
        BY <1>0, <3>1, <4>1, Zenon DEF PullOK
      <4>4. topLayer[c] + Len(mine[c]) \in Nat
        BY <1>0 DEF DTypeOK
      <4>5. key'[TopOf(c)] = key[TopOf(c)]
        BY <4>1, <4>2, Zenon DEF NothingTakenBack
      <4> QED
        BY <4>2, <4>3, <4>4, <4>5
    <3>2. parent'[x] = TopOf(c) /\ wpc'[x] = "start" /\ result'[x] # "ok"
      BY <1>0, <2>1, <2>2, Zenon DEF DTypeOK
    <3>3. mine[c] = <<>> => TopOf(c) = Nil
      BY DEF TopOf
    <3>4. mine[c] # <<>> => key'[TopOf(c)] # Nil
      BY <1>0, <3>1, Zenon DEF NothingTakenBack
    <3> QED
      BY <1>0, <2>4, <3>1, <3>2, <3>3, <3>4, Zenon DEF WorkOK
  <2> QED
    BY <2>5, <2>6, <2>7, <2>8, <2>9 DEF DInv
<1> QED
  BY <1>1, <1>2, <1>3

\* The last position of a sequence that is not empty is one of its positions.
LEMMA InOwnRange == \A n \in Nat \ {0} : n \in 1..n
OBVIOUS

\* The transfers a client has left when it has released the last one.
LEMMA FrontOf ==
  ASSUME NEW s \in Seq(Xfers), s # <<>>
  PROVE  /\ Front(s) \in Seq(Xfers) /\ Len(Front(s)) = Len(s) - 1 /\ Len(s) \in Nat \ {0}
         /\ \A j \in 1..Len(Front(s)) : Front(s)[j] = s[j] /\ j \in 1..Len(s) /\ j # Len(s)
<1>1. Len(s) \in Nat \ {0} /\ \A j \in 1..Len(s) : s[j] \in Xfers
  OBVIOUS
<1>2. Len(s) - 1 \in Int /\ \A j \in 1..(Len(s) - 1) : s[j] \in Xfers
  BY <1>1
<1>3. /\ Front(s) \in Seq(Xfers) /\ Len(Front(s)) = Len(s) - 1
      /\ \A j \in 1..(Len(s) - 1) : Front(s)[j] = s[j]
  <2> DEFINE n == Len(s) - 1
  <2>1. n \in Int /\ 1 \in Int /\ \A j \in 1..n : s[j] \in Xfers
    BY <1>2
  <2> HIDE DEF n
  <2>2. /\ SubSeq(s, 1, n) \in Seq(Xfers) /\ Len(SubSeq(s, 1, n)) = (IF 1 <= n THEN n - 1 + 1 ELSE 0)
        /\ \A j \in 1..(n - 1 + 1) : SubSeq(s, 1, n)[j] = s[1 + j - 1]
    BY <2>1
  <2>3. n \in Nat
    BY <1>1 DEF n
  <2>4. \A j \in 1..n : j \in 1..(n - 1 + 1) /\ 1 + j - 1 = j
    BY <2>3
  <2>5. Len(SubSeq(s, 1, n)) = n
    BY <2>2, <2>3
  <2>6. \A j \in 1..n : SubSeq(s, 1, n)[j] = s[j]
    BY <2>2, <2>4, Zenon
  <2>7. Front(s) = SubSeq(s, 1, n)
    BY DEF Front, n
  <2>8. Front(s) \in Seq(Xfers) /\ Len(Front(s)) = n /\ \A j \in 1..n : Front(s)[j] = s[j]
    BY <2>2, <2>5, <2>6, <2>7, Zenon
  <2> QED
    BY <2>8 DEF n
<1> QED
  BY <1>1, <1>3

\* The watcher of the top download, first, and the others.
LEMMA RotationOf ==
  ASSUME NEW s \in Seq(Xfers), s # <<>>, NEW r, r = <<s[Len(s)]>> \o Front(s)
  PROVE  /\ r \in Seq(Xfers) /\ Len(r) = Len(s) /\ r[1] = s[Len(s)] /\ Len(s) \in Nat \ {0}
         /\ \A j \in 2..Len(s) : r[j] = s[j - 1]
<1>1. <<s[Len(s)]>> \in Seq(Xfers) /\ Len(<<s[Len(s)]>>) = 1 /\ s[Len(s)] \in Xfers
  OBVIOUS
<1>2. /\ Front(s) \in Seq(Xfers) /\ Len(Front(s)) = Len(s) - 1 /\ Len(s) \in Nat \ {0}
      /\ \A j \in 1..Len(Front(s)) : Front(s)[j] = s[j]
  BY FrontOf
<1> QED
  BY <1>1, <1>2

\* A client that releases its last transfer still watches the ones before.
LEMMA ReleaseLast ==
  ASSUME TMInv, DInv, NEW c \in Clients, mine[c] # <<>>, Release(c, TopOf(c)),
         mine' = [mine EXCEPT ![c] = Front(@)]
  PROVE  /\ mine' \in [Clients -> Seq(Xfers)] /\ mine'[c] = Front(mine[c])
         /\ \A j \in 1..Len(mine'[c]) : c \in watchers'[mine'[c][j]]
         /\ \A i, j \in 1..Len(mine'[c]) : mine'[c][i] = mine'[c][j] => i = j
         /\ \A x \in Xfers, d \in Clients : d # c /\ d \in watchers[x] => d \in watchers'[x]
<1>0. PullOK(c) /\ DTypeOK /\ mine[c] \in Seq(Xfers) /\ TopOf(c) = mine[c][Len(mine[c])]
  BY Zenon DEF DInv, DTypeOK, TopOf
<1>1. mine'[c] = Front(mine[c])
  BY <1>0, Zenon DEF DTypeOK
<1>2. /\ Front(mine[c]) \in Seq(Xfers) /\ Len(mine[c]) \in 1..Len(mine[c])
      /\ \A j \in 1..Len(Front(mine[c])) :
           Front(mine[c])[j] = mine[c][j] /\ j \in 1..Len(mine[c]) /\ j # Len(mine[c])
      /\ \A j \in 1..Len(mine[c]) : mine[c][j] \in Xfers
  <2>1. /\ Front(mine[c]) \in Seq(Xfers) /\ Len(mine[c]) \in Nat \ {0}
        /\ \A j \in 1..Len(Front(mine[c])) :
             Front(mine[c])[j] = mine[c][j] /\ j \in 1..Len(mine[c]) /\ j # Len(mine[c])
    BY <1>0, FrontOf, Zenon
  <2>2. \A j \in 1..Len(mine[c]) : mine[c][j] \in Xfers
    BY <1>0
  <2> QED
    BY <2>1, <2>2, InOwnRange, Zenon
<1>3. watchers' = [watchers EXCEPT ![TopOf(c)] = @ \ {c}] /\ watchers \in [Xfers -> SUBSET Clients]
  BY Zenon DEF Release, TMInv, TMTypeOK
<1>4. \A j \in 1..Len(mine[c]) : j # Len(mine[c]) => mine[c][j] # TopOf(c)
  BY <1>0, <1>2, Zenon DEF PullOK
<1>5. \A j \in 1..Len(mine'[c]) : c \in watchers'[mine'[c][j]]
  <2> SUFFICES ASSUME NEW j \in 1..Len(Front(mine[c])) PROVE c \in watchers'[mine[c][j]]
    BY <1>1, <1>2, Zenon
  <2>1. mine[c][j] \in Xfers /\ mine[c][j] # TopOf(c) /\ c \in watchers[mine[c][j]]
    BY <1>0, <1>2, <1>4, Zenon DEF PullOK
  <2> QED
    BY <1>3, <2>1, Zenon
<1>6. \A i, j \in 1..Len(mine'[c]) : mine'[c][i] = mine'[c][j] => i = j
  <2>1. \A i, j \in 1..Len(mine[c]) : mine[c][i] = mine[c][j] => i = j
    BY <1>0, Zenon DEF PullOK
  <2> QED
    BY <1>1, <1>2, <2>1
<1>7. mine' \in [Clients -> Seq(Xfers)]
  BY <1>0, <1>2, Zenon DEF DTypeOK
<1>8. \A x \in Xfers, d \in Clients : d # c /\ d \in watchers[x] => d \in watchers'[x]
  BY <1>3
<1> QED
  BY <1>1, <1>5, <1>6, <1>7, <1>8, Zenon

\* A pull that is cancelled or whose download failed releases what it has.
LEMMA GiveUpInv ==
  ASSUME TMInv, DInv, NothingTakenBack, NEW c \in Clients, WaitCancelled(c) \/ WaitError(c)
  PROVE  DInv'
<1>1. PICK why \in {"error", "cancelled"} : GiveUp(c, why)
  BY DEF WaitCancelled, WaitError
<1>2. /\ phase[c] = "wait" /\ Release(c, TopOf(c)) /\ mine' = [mine EXCEPT ![c] = Front(@)]
      /\ phase' = [phase EXCEPT ![c] = Unwinding(mine'[c], topLayer[c], 0)]
      /\ outcome' = [outcome EXCEPT ![c] = why]
      /\ UNCHANGED <<idx, topLayer, workVars, storeVars>>
  BY <1>1 DEF GiveUp
<1>3. mine[c] # <<>> /\ DTypeOK
  BY <1>2, PullNames, Zenon DEF DInv
<1>4. /\ mine' \in [Clients -> Seq(Xfers)] /\ mine'[c] = Front(mine[c])
      /\ \A j \in 1..Len(mine'[c]) : c \in watchers'[mine'[c][j]]
      /\ \A i, j \in 1..Len(mine'[c]) : mine'[c][i] = mine'[c][j] => i = j
      /\ \A x \in Xfers, d \in Clients : d # c /\ d \in watchers[x] => d \in watchers'[x]
  BY <1>2, <1>3, ReleaseLast, Zenon
<1>5. DTypeOK'
  BY <1>2, <1>3, <1>4, Zenon DEF DTypeOK, Unwinding, workVars, storeVars
<1>6. /\ phase'[c] \in {"unwind", "end"} /\ topLayer'[c] = topLayer[c] /\ outcome'[c] # "ok"
      /\ phase'[c] = "unwind" => topLayer[c] # 0 \/ Len(mine'[c]) > 0
  BY <1>2, <1>3 DEF DTypeOK, Unwinding
<1>7. PullOK(c)'
  BY <1>4, <1>6, Zenon DEF PullOK, Kept
<1>8. key' = key
  BY <1>2, Zenon DEF Release
<1> QED
  BY <1>2, <1>3, <1>4, <1>5, <1>7, <1>8, ClientFrame, Zenon DEF DTypeOK, storeVars

\* A pull whose top download succeeded keeps the watcher of that one.
LEMMA WaitOkInv ==
  ASSUME TMInv, DInv, NothingTakenBack, NEW c \in Clients, WaitOk(c)
  PROVE  DInv'
<1> DEFINE m == mine[c]
           r == <<TopOf(c)>> \o Front(m)
<1>1. /\ phase[c] = "wait" /\ result[TopOf(c)] = "ok"
      /\ mine' = [mine EXCEPT ![c] = r]
      /\ phase' = [phase EXCEPT ![c] = Unwinding(m, topLayer[c], 1)]
      /\ outcome' = [outcome EXCEPT ![c] = "ok"]
      /\ UNCHANGED <<vars, idx, topLayer, workVars, storeVars>>
  BY Zenon DEF WaitOk
<1>2. /\ m # <<>> /\ DTypeOK /\ PullOK(c) /\ m \in Seq(Xfers) /\ topLayer[c] \in Nat /\ Top[c] \in Nat
      /\ TopOf(c) = m[Len(m)]
  <2>1. m # <<>>
    BY <1>1, PullNames, Zenon
  <2>2. DTypeOK /\ PullOK(c) /\ m \in Seq(Xfers) /\ topLayer[c] \in Nat /\ Top[c] \in Nat
    BY DownloadAssumption DEF DInv, DTypeOK
  <2> QED
    BY <2>1, <2>2 DEF TopOf
<1>3. /\ r \in Seq(Xfers) /\ Len(r) = Len(m) /\ r[1] = TopOf(c) /\ Len(m) \in Nat \ {0}
      /\ \A j \in 2..Len(m) : r[j] = m[j - 1]
  BY <1>2, RotationOf, Zenon
<1>4. /\ idx[c] = topLayer[c] + Len(m) + 1 /\ idx[c] = Top[c] + 1
      /\ key[m[Len(m)]] = topLayer[c] + Len(m)
  <2>1. Len(m) \in 1..Len(m)
    BY <1>3, InOwnRange, Zenon
  <2>2. /\ idx[c] = topLayer[c] + Len(m) + 1 /\ idx[c] = Top[c] + 1
        /\ \A j \in 1..Len(m) : key[m[j]] = topLayer[c] + j
    BY <1>1, <1>2, Zenon DEF PullOK
  <2> QED
    BY <2>1, <2>2, Zenon
<1> HIDE DEF r, m
<1>5. key[TopOf(c)] = Top[c]
  <2>1. Len(m) \in Nat /\ topLayer[c] \in Nat /\ Top[c] \in Nat
    BY <1>2, <1>3
  <2>2. topLayer[c] + Len(m) + 1 = Top[c] + 1
    BY <1>4, Zenon
  <2>3. topLayer[c] + Len(m) = Top[c]
    BY <2>1, <2>2
  <2>4. key[TopOf(c)] = topLayer[c] + Len(m)
    BY <1>2, <1>4, Zenon
  <2> QED
    BY <2>3, <2>4
<1>6. mine'[c] = r /\ topLayer'[c] = topLayer[c] /\ outcome'[c] = "ok"
      /\ phase'[c] = (IF Len(m) > 1 \/ topLayer[c] # 0 THEN "unwind" ELSE "held")
  BY <1>1, <1>2 DEF DTypeOK, Unwinding
<1>7. \A j \in 1..Len(r) : c \in watchers[r[j]]
  <2> SUFFICES ASSUME NEW j \in 1..Len(r) PROVE c \in watchers[r[j]]
    OBVIOUS
  <2>1. PICK i \in 1..Len(m) : r[j] = m[i]
    <3>1. CASE j = 1
      BY <1>2, <1>3, <3>1
    <3>2. CASE j # 1
      <4>1. j - 1 \in 1..Len(m) /\ r[j] = m[j - 1]
        BY <1>3, <3>2
      <4> QED
        BY <4>1
    <3> QED
      BY <3>1, <3>2
  <2> QED
    BY <1>2, <2>1, Zenon DEF PullOK, m
<1>8. \A i, j \in 1..Len(r) : r[i] = r[j] => i = j
  <2>0. \A i, j \in 1..Len(m) : m[i] = m[j] => i = j
    BY <1>2, Zenon DEF PullOK, m
  <2>1. \A i \in 2..Len(r) : /\ r[i] = m[i - 1] /\ i - 1 \in 1..Len(m) /\ Len(m) \in 1..Len(m)
                             /\ i - 1 # Len(m)
    BY <1>3
  <2>2. \A i \in 2..Len(r) : r[i] # r[1]
    <3>1. r[1] = m[Len(m)]
      BY <1>2, <1>3, Zenon
    <3> SUFFICES ASSUME NEW i \in 2..Len(r), r[i] = r[1] PROVE FALSE
      OBVIOUS
    <3>2. m[i - 1] = m[Len(m)] /\ i - 1 \in 1..Len(m) /\ Len(m) \in 1..Len(m) /\ i - 1 # Len(m)
      BY <2>1, <3>1, Zenon
    <3> QED
      BY <2>0, <3>2, Zenon
  <2>3. \A i, j \in 2..Len(r) : r[i] = r[j] => i - 1 = j - 1
    BY <2>0, <2>1, Zenon
  <2>4. \A i, j \in 2..Len(r) : r[i] = r[j] => i = j
    BY <2>3
  <2> QED
    BY <1>3, <2>2, <2>4
<1>9. r # <<>>
  BY <1>3
<1>10. UNCHANGED <<key, watchers, result, holders>>
  BY <1>1, Zenon DEF vars, xferVars, workVars, storeVars
<1>11. phase'[c] = "unwind" => topLayer'[c] # 0 \/ Len(mine'[c]) > Kept(c)'
  BY <1>3, <1>6 DEF Kept
<1>12. PullOK(c)'
  <2>1. /\ \A j \in 1..Len(mine'[c]) : c \in watchers'[mine'[c][j]]
        /\ \A i, j \in 1..Len(mine'[c]) : mine'[c][i] = mine'[c][j] => i = j
    BY <1>6, <1>7, <1>8, <1>10, Zenon
  <2>2. result[TopOf(c)] = "ok" /\ r[1] = TopOf(c)
    BY <1>1, <1>3
  <2>3. result'[mine'[c][1]] = "ok" /\ key'[mine'[c][1]] = Top[c] /\ mine'[c] # <<>>
    BY <1>5, <1>6, <1>9, <1>10, <2>2
  <2>4. CASE phase'[c] = "unwind"
    BY <1>11, <2>1, <2>3, <2>4, Zenon DEF PullOK
  <2>5. CASE phase'[c] = "held"
    BY <2>1, <2>3, <2>5, Zenon DEF PullOK
  <2> QED
    BY <1>6, <2>4, <2>5
<1>13. DTypeOK'
  BY <1>1, <1>2, <1>3, Zenon DEF DTypeOK, Unwinding, workVars, storeVars
<1> QED
  BY <1>1, <1>2, <1>10, <1>12, <1>13, ClientFrame, Zenon DEF DTypeOK

\* The deferred calls of Download and the release function it returns.
LEMMA UnwindInv ==
  ASSUME TMInv, DInv, NothingTakenBack, NEW c \in Clients,
         UnwindLayer(c) \/ UnwindWatch(c) \/ CallRelease(c)
  PROVE  DInv'
<1> DEFINE h == Without(holders, topLayer[c], c)
<1>0. /\ DTypeOK /\ PullOK(c) /\ mine[c] \in Seq(Xfers) /\ topLayer[c] \in Nat
      /\ h \in [Keys -> SUBSET (Clients \cup Xfers \cup Images)]
      /\ \A who, j : who # c /\ j \in Keys /\ who \in holders[j] => who \in h[j]
  BY HoldersFrame, Zenon DEF DInv, DTypeOK
<1> HIDE DEF h
<1>1. CASE UnwindLayer(c)
  <2>1. /\ phase[c] = "unwind" /\ topLayer[c] # 0 /\ holders' = h
        /\ topLayer' = [topLayer EXCEPT ![c] = 0]
        /\ phase' = [phase EXCEPT ![c] = Unwinding(mine[c], 0, Kept(c))]
        /\ UNCHANGED <<vars, idx, mine, outcome, workVars>>
    BY <1>1, Zenon DEF UnwindLayer, h
  <2>2. DTypeOK'
    BY <1>0, <2>1, Zenon DEF DTypeOK, Unwinding, Kept, workVars
  <2>3. /\ topLayer'[c] = 0 /\ mine'[c] = mine[c] /\ outcome'[c] = outcome[c]
        /\ phase'[c] = IF Len(mine[c]) > Kept(c) THEN "unwind"
                       ELSE IF outcome[c] = "ok" THEN "held" ELSE "end"
        /\ UNCHANGED <<key, watchers, result>>
    BY <1>0, <2>1 DEF DTypeOK, Unwinding, Kept, vars, xferVars, workVars
  <2>4. outcome[c] = "ok" => /\ mine[c] # <<>>
                             /\ result[mine[c][1]] = "ok" /\ key[mine[c][1]] = Top[c]
    BY <1>0, <2>1, Zenon DEF PullOK
  <2>5. PullOK(c)'
    <3>1. PullOK(c)
      BY <1>0
    <3>2. Kept(c)' = Kept(c)
      BY <2>3 DEF Kept
    <3>3. /\ \A j \in 1..Len(mine'[c]) : c \in watchers'[mine'[c][j]]
          /\ \A i, j \in 1..Len(mine'[c]) : mine'[c][i] = mine'[c][j] => i = j
      BY <2>3, <3>1 DEF PullOK
    <3>4. CASE phase'[c] = "unwind" /\ Len(mine[c]) > Kept(c)
      BY <2>3, <2>4, <3>2, <3>3, <3>4, Zenon DEF PullOK
    <3>5. CASE phase'[c] = "held" /\ outcome[c] = "ok"
      BY <2>3, <2>4, <3>3, <3>5, Zenon DEF PullOK
    <3>6. CASE phase'[c] = "end"
      BY <3>3, <3>6, Zenon DEF PullOK
    <3> QED
      BY <2>3, <3>4, <3>5, <3>6, Zenon
  <2> QED
    BY <1>0, <2>1, <2>2, <2>3, <2>5, ClientFrame, Zenon DEF DTypeOK
<1>2. CASE UnwindWatch(c)
  <2>1. /\ phase[c] = "unwind" /\ topLayer[c] = 0 /\ Release(c, TopOf(c))
        /\ mine' = [mine EXCEPT ![c] = Front(@)]
        /\ phase' = [phase EXCEPT ![c] = Unwinding(mine'[c], 0, Kept(c))]
        /\ UNCHANGED <<idx, topLayer, outcome, workVars, storeVars>>
    BY <1>2, Zenon DEF UnwindWatch
  <2>2. mine[c] # <<>>
    BY <2>1, PullNames, Zenon
  <2>3. /\ mine' \in [Clients -> Seq(Xfers)] /\ mine'[c] = Front(mine[c])
        /\ \A j \in 1..Len(mine'[c]) : c \in watchers'[mine'[c][j]]
        /\ \A i, j \in 1..Len(mine'[c]) : mine'[c][i] = mine'[c][j] => i = j
        /\ \A x \in Xfers, d \in Clients : d # c /\ d \in watchers[x] => d \in watchers'[x]
    BY <2>1, <2>2, ReleaseLast, Zenon
  <2>4. DTypeOK'
    BY <1>0, <2>1, <2>3, Zenon DEF DTypeOK, Unwinding, Kept, workVars, storeVars
  <2>5. /\ topLayer'[c] = 0 /\ outcome'[c] = outcome[c]
        /\ phase'[c] = IF Len(mine'[c]) > Kept(c) THEN "unwind"
                       ELSE IF outcome[c] = "ok" THEN "held" ELSE "end"
        /\ UNCHANGED <<key, result>>
    BY <1>0, <2>1 DEF DTypeOK, Unwinding, Kept, Release, workVars
  <2>6. outcome[c] = "ok" => /\ Len(mine[c]) > 1
                             /\ result[mine[c][1]] = "ok" /\ key[mine[c][1]] = Top[c]
    BY <1>0, <2>1, Zenon DEF PullOK, Kept
  <2>7. outcome[c] = "ok" => mine'[c] # <<>> /\ mine'[c][1] = mine[c][1]
    <3> SUFFICES ASSUME outcome[c] = "ok" PROVE mine'[c] # <<>> /\ mine'[c][1] = mine[c][1]
      OBVIOUS
    <3>1. /\ Front(mine[c]) \in Seq(Xfers) /\ Len(Front(mine[c])) = Len(mine[c]) - 1
          /\ Len(mine[c]) \in Nat
          /\ \A j \in 1..Len(Front(mine[c])) : Front(mine[c])[j] = mine[c][j]
      BY <1>0, <2>2, FrontOf, Zenon
    <3>2. Len(Front(mine[c])) > 0 /\ 1 \in 1..Len(Front(mine[c]))
      BY <2>6, <3>1
    <3>3. Front(mine[c]) # <<>>
      BY <3>2
    <3> QED
      BY <2>3, <3>1, <3>2, <3>3, Zenon
  <2>8. PullOK(c)'
    BY <2>3, <2>5, <2>6, <2>7, Zenon DEF PullOK, Kept
  <2> QED
    BY <1>0, <2>1, <2>3, <2>4, <2>5, <2>8, ClientFrame, Zenon DEF DTypeOK, storeVars
<1>3. CASE CallRelease(c)
  <2>1. /\ phase' = [phase EXCEPT ![c] = "end"]
        /\ \/ Release(c, TopOf(c)) /\ holders' = holders
           \/ holders' = h /\ UNCHANGED vars
        /\ mine' = [mine EXCEPT ![c] = <<>>]
        /\ topLayer' = [topLayer EXCEPT ![c] = 0]
        /\ UNCHANGED <<idx, outcome, workVars>>
    BY <1>3, Zenon DEF CallRelease, h
  <2>2. DTypeOK'
    BY <1>0, <2>1 DEF DTypeOK, workVars
  <2>3. phase'[c] = "end" /\ mine'[c] = <<>>
    BY <1>0, <2>1, Zenon DEF DTypeOK
  <2>4. PullOK(c)'
    BY <2>3, NothingIn, Zenon DEF PullOK
  <2>5. /\ key' = key
        /\ \A x \in Xfers, d \in Clients : d # c /\ d \in watchers[x] => d \in watchers'[x]
    BY <2>1, ZenonT(30) DEF Release, vars, xferVars, TMInv, TMTypeOK
  <2>6. \A who, j : who # c /\ j \in Keys /\ who \in holders[j] => who \in holders'[j]
    BY <1>0, <2>1, Zenon
  <2> QED
    BY <1>0, <2>1, <2>2, <2>4, <2>5, <2>6, ClientFrame, Zenon DEF DTypeOK
<1> QED
  BY <1>1, <1>2, <1>3

\* What a transfer function does is noticed by clients and by other functions only
\* as a result, and as a layer that is held.
LEMMA WorkerFrame ==
  ASSUME TMInv, DInv, NothingTakenBack, NEW x \in Xfers, DTypeOK', WorkOK(x)',
         UNCHANGED <<key, watchers, clientVars, parent>>,
         \A y \in Xfers : y # x => wpc'[y] = wpc[y] /\ result'[y] = result[y],
         result[x] = "ok" => result'[x] = "ok",
         \A who, j : who # x /\ j \in Keys /\ who \in holders[j] => who \in holders'[j]
  PROVE  DInv'
<1>1. \A y \in Xfers : result[y] = "ok" => result'[y] = "ok"
  OBVIOUS
<1>2. ASSUME NEW d \in Clients PROVE PullOK(d)'
  <2>1. d # x
    BY DownloadAssumption, Zenon
  <2> QED
    BY <1>1, <2>1, PullFrame, Zenon DEF clientVars
<1>3. ASSUME NEW y \in Xfers, y # x PROVE WorkOK(y)'
  BY <1>1, <1>3, WorkFrame, Zenon
<1> QED
  BY <1>2, <1>3 DEF DInv

\* The transfer function of a download moves on, or fails.
LEMMA MoveInv ==
  ASSUME TMInv, DInv, NothingTakenBack, NEW x \in Xfers,
         \/ WorkStart(x) \/ DownloadOk(x) \/ DownloadCancelled(x) \/ DelayOver(x)
         \/ AwaitParent(x) \/ AwaitSource(x) \/ DownloadError(x) \/ RegisterError(x)
         \/ WorkReturn(x) \/ (Register(x) /\ ~Registrable(x))
  PROVE  DInv'
<1>0. WorkOK(x) /\ DTypeOK /\ wpc[x] \in {"none", "start", "download", "delay", "parent", "source",
                                          "register", "return", "end"}
  BY Zenon DEF DInv, DTypeOK
<1>1. UNCHANGED <<key, watchers, released, clientVars, parent, storeVars>>
  BY Zenon DEF WorkStart, DownloadOk, DownloadCancelled, DelayOver, AwaitParent, AwaitSource, Await,
     DownloadError, RegisterError, WorkReturn, Register, Fail, FuncInactive, FuncDone, vars, xferVars
<1>2. \/ /\ wpc[x] \notin {"none", "return", "end"}
         /\ wpc' = [wpc EXCEPT ![x] = "end"] /\ result' = [result EXCEPT ![x] = "error"]
      \/ /\ wpc[x] = "return" /\ wpc' = [wpc EXCEPT ![x] = "end"] /\ result' = result
      \/ /\ wpc[x] \notin {"none", "return", "end"} /\ result' = result
         /\ \/ \E at \in {"download", "delay", "parent"} : wpc' = [wpc EXCEPT ![x] = at]
            \/ /\ \E at \in {"source", "register"} : wpc' = [wpc EXCEPT ![x] = at]
               /\ parent[x] = Nil \/ Succeeded(parent[x]) \/ wpc[x] = "source"
  BY Zenon DEF WorkStart, DownloadOk, DownloadCancelled, DelayOver, AwaitParent, AwaitSource, Await,
     DownloadError, RegisterError, WorkReturn, Register, Fail, Goto
<1>3. key[x] # Nil
  BY <1>0, <1>2, Zenon DEF WorkOK
<1>4. DTypeOK'
  <2>1. wpc' \in [Xfers -> {"none", "start", "download", "delay", "parent", "source",
                            "register", "return", "end"}]
    BY <1>0, <1>2, Zenon DEF DTypeOK
  <2>2. result' \in [Xfers -> {"none", "ok", "error"}]
    BY <1>0, <1>2, Zenon DEF DTypeOK
  <2> QED
    BY <1>0, <1>1, <2>1, <2>2, Zenon DEF DTypeOK, clientVars, storeVars
<1>5. WorkOK(x)'
  <2>1. wpc'[x] \in {"source", "register"} /\ parent[x] # Nil => result'[parent[x]] = "ok"
    BY <1>0, <1>2 DEF WorkOK, DTypeOK, Succeeded
  <2>2. result'[x] = "ok" => result[x] = "ok" /\ wpc'[x] \in {"return", "end"}
    BY <1>0, <1>2 DEF WorkOK, DTypeOK
  <2> QED
    BY <1>0, <1>1, <1>3, <2>1, <2>2, Zenon DEF WorkOK, storeVars
<1>6. /\ \A y \in Xfers : y # x => wpc'[y] = wpc[y] /\ result'[y] = result[y]
      /\ result[x] = "ok" => result'[x] = "ok"
  BY <1>0, <1>2 DEF WorkOK, DTypeOK
<1> QED
  BY <1>1, <1>4, <1>5, <1>6, WorkerFrame, Zenon DEF storeVars

\* The layer is registered and held, and let go of when it may be.
LEMMA LayerInv ==
  ASSUME TMInv, DInv, NothingTakenBack, NEW x \in Xfers,
         (Register(x) /\ Registrable(x)) \/ WorkUnref(x) \/ Manager(x)
  PROVE  DInv'
<1>0. WorkOK(x) /\ DTypeOK
  BY DEF DInv
<1>1. CASE Register(x) /\ Registrable(x)
  <2>1. /\ wpc[x] = "register" /\ holders' = [holders EXCEPT ![key[x]] = @ \cup {x}]
        /\ wpc' = [wpc EXCEPT ![x] = "return"] /\ result' = [result EXCEPT ![x] = "ok"]
        /\ UNCHANGED <<vars, clientVars, parent>>
    BY <1>1, Zenon DEF Register, With, Goto
  <2>2. key[x] # Nil /\ key[x] \in Keys
    BY <1>0, <2>1, Zenon DEF WorkOK, TMInv, TMTypeOK
  <2>3. DTypeOK'
    BY <1>0, <2>1, <2>2, ZenonT(30) DEF DTypeOK, clientVars
  <2>4. x \in holders'[key[x]] /\ \A who, j : j \in Keys /\ who \in holders[j] => who \in holders'[j]
    BY <1>0, <2>1, <2>2, Zenon DEF DTypeOK
  <2>5. UNCHANGED <<key, watchers, released>>
    BY <2>1, Zenon DEF vars, xferVars
  <2>6. WorkOK(x)'
    BY <1>0, <2>1, <2>2, <2>4, <2>5, Zenon DEF WorkOK, DTypeOK
  <2>7. /\ \A y \in Xfers : y # x => wpc'[y] = wpc[y] /\ result'[y] = result[y]
        /\ result'[x] = "ok"
    BY <1>0, <2>1 DEF DTypeOK
  <2> QED
    BY <2>1, <2>3, <2>4, <2>5, <2>6, <2>7, WorkerFrame, Zenon
<1>2. CASE WorkUnref(x)
  <2>1. /\ x \in released /\ holders' = Without(holders, key[x], x)
        /\ UNCHANGED <<vars, clientVars, workVars>>
    BY <1>2, Zenon DEF WorkUnref, UnrefWhen
  <2>2. /\ holders' \in [Keys -> SUBSET (Clients \cup Xfers \cup Images)]
        /\ \A who, j : who # x /\ j \in Keys /\ who \in holders[j] => who \in holders'[j]
    BY <1>0, <2>1, HoldersFrame, Zenon
  <2>3. DTypeOK'
    BY <1>0, <2>1, <2>2, Zenon DEF DTypeOK, clientVars, workVars
  <2>4. WorkOK(x)'
    BY <1>0, <2>1, Zenon DEF WorkOK, workVars, vars, xferVars
  <2> QED
    BY <2>1, <2>2, <2>3, <2>4, WorkerFrame, Zenon DEF workVars, vars, xferVars
<1>3. CASE Manager(x)
  <2>1. UNCHANGED <<key, watchers, clientVars, workVars, storeVars>>
    BY <1>3, Zenon DEF Manager, CleanupInactive, CleanupDone, CleanupDoneIf, Close, CloseIf
  <2>2. DTypeOK'
    BY <1>0, <2>1, Zenon DEF DTypeOK, clientVars, workVars, storeVars
  <2>3. WorkOK(x)'
    BY <2>1, WorkFrame, Zenon DEF workVars, storeVars
  <2> QED
    BY <2>1, <2>2, <2>3, WorkerFrame, Zenon DEF workVars, storeVars
<1> QED
  BY <1>1, <1>2, <1>3

-----------------------------------------------------------------------------
\* Every step of a pull keeps the invariant of the pulls.
LEMMA NextDInv == ASSUME TMInv, DInv, NothingTakenBack, [DNext]_dvars PROVE DInv'
<1>1. CASE UNCHANGED dvars
  <2>1. UNCHANGED <<vars, clientVars, workVars, storeVars>>
    BY <1>1 DEF dvars
  <2>2. DTypeOK'
    BY <2>1, Zenon DEF DInv, DTypeOK, clientVars, workVars, storeVars
  <2>3. ASSUME NEW c \in Clients PROVE PullOK(c)'
    BY <2>1, PullFrame, Zenon DEF clientVars, workVars, storeVars, vars, xferVars
  <2>4. ASSUME NEW x \in Xfers PROVE WorkOK(x)'
    BY <2>1, WorkFrame, Zenon DEF workVars, storeVars, vars, xferVars
  <2> QED
    BY <2>2, <2>3, <2>4 DEF DInv
<1>2. ASSUME NEW c \in Clients, ClientStep(c) \/ WaitCancelled(c) PROVE DInv'
  BY <1>2, ScanInv, FetchInv, GiveUpInv, WaitOkInv, UnwindInv, Zenon DEF ClientStep
<1>3. ASSUME NEW x \in Xfers, \/ WorkStep(x) \/ DownloadError(x) \/ RegisterError(x)
                              \/ WorkUnref(x) \/ Manager(x)
      PROVE  DInv'
  BY <1>3, MoveInv, LayerInv, Zenon DEF WorkStep
<1> QED
  BY <1>1, <1>2, <1>3 DEF DNext

=============================================================================
