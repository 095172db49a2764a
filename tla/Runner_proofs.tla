--------------------------- MODULE Runner_proofs ---------------------------
(***************************************************************************)
(* Proofs about Runner, for every set of commands, of any number of files, *)
(* and whatever becomes of the profiles' runs and of the mails.            *)
(***************************************************************************)
EXTENDS Runner, TLAPS

-----------------------------------------------------------------------------
Places == {"start", "walk", "load", "run", "notify", "exit"}
Mail == [doc : 1 .. NumDocs, kind : {"failure", "success"}, sent : BOOLEAN]

\* The types.
Typed ==
    /\ input \in Commands
    /\ at \in Places
    /\ next \in Nat /\ next >= 1
    /\ profiles \in Seq(1 .. NumDocs)
    /\ outcome \in [1 .. NumDocs -> {"none", "ok", "failed", "panicked"}]
    /\ mails \in Seq(Mail)
    /\ exit \in {-1, 0, 1, 2} /\ (exit = -1 <=> at # "exit")

\* The files before position m that the command can see have been loaded.
LoadedUpTo(m) ==
    \A i \in 1 .. NumDocs :
        i < m /\ Collected(i) => \E k \in 1 .. NumProfiles : profiles[k] = i

\* The profiles are the files that LoadProfile accepts, in walk order, which makes
\* them distinct, and none is lost unless the loading has met an error.
LoadInv ==
    /\ \A k \in 1 .. NumProfiles : LoadProfile(docs[profiles[k]])
    /\ \A j, k \in 1 .. NumProfiles : j < k => profiles[j] < profiles[k]
    /\ at \in {"start", "walk"} => NumProfiles = 0 /\ next = 1
    /\ at = "load" =>
         /\ next <= NumDocs + 1
         /\ \A k \in 1 .. NumProfiles : profiles[k] < next
         /\ ~loadErr => LoadedUpTo(next)
    /\ at \in {"run", "notify"} \/ exit = 0 => ~loadErr /\ LoadedUpTo(NumDocs + 1)

\* Of the profiles in the list the first m have been run, and a failure is noted in
\* errs; none after m has been.
RunUpTo(m) ==
    /\ \A k \in 1 .. NumProfiles :
         /\ k <= m => outcome[profiles[k]] \in {"ok", "failed"}
         /\ k > m => outcome[profiles[k]] = "none"
Noted(m) ==
    \A k \in 1 .. NumProfiles : k <= m /\ outcome[profiles[k]] = "failed" => errs

RunInv ==
    /\ at \in {"start", "walk", "load"} =>
         /\ \A i \in 1 .. NumDocs : outcome[i] = "none"
         /\ Len(mails) = 0
    /\ at \in {"run", "notify"} => input.cmd = "backup" /\ Noted(next - 1)
    /\ at = "run" => next <= NumProfiles + 1 /\ RunUpTo(next - 1)
    /\ at = "notify" => next <= NumProfiles /\ RunUpTo(next)
    /\ exit \in {0, 1} /\ ~loadErr /\ input.cmd = "backup" => RunUpTo(NumProfiles)
    /\ exit = 0 /\ input.cmd = "backup" => ~errs /\ Noted(NumProfiles)

\* Each document has the mails that its profile's outcome calls for, but for the
\* profile whose notification is next, which has none yet.
MailsInv ==
    exit # 2 =>
      \A i \in 1 .. NumDocs :
        IF at = "notify" /\ i = profiles[next] THEN MailsOf(i) = {} ELSE MailsRight(i)

\* A rejected file before position m.
RejectedBefore(m) ==
    \E i \in 1 .. NumDocs : i < m /\ Collected(i) /\ ~LoadProfile(docs[i])

\* LoadProfiles has met an error exactly if a file is rejected, and nothing is run
\* then.
ErrInv ==
    /\ at \in {"start", "walk"} => ~loadErr
    /\ at = "load" => (loadErr <=> RejectedBefore(next))
    /\ at \in {"run", "notify"} => ~RejectedBefore(NumDocs + 1)
    /\ exit \in {0, 1} /\ input.arg # "missing" =>
         /\ loadErr <=> RejectedBefore(NumDocs + 1)
         /\ ~loadErr => LoadedUpTo(NumDocs + 1)
    /\ loadErr => (\A i \in 1 .. NumDocs : outcome[i] = "none") /\ Len(mails) = 0
    /\ exit = 0 => ~loadErr

IInv == Typed /\ LoadInv /\ RunInv /\ ErrInv /\ MailsInv

-----------------------------------------------------------------------------
\* Appending to a sequence.
LEMMA Appended ==
    ASSUME NEW S, NEW s \in Seq(S), NEW e \in S
    PROVE  /\ Append(s, e) \in Seq(S) /\ Len(s) \in Nat
           /\ Len(Append(s, e)) = Len(s) + 1
           /\ \A k \in 1 .. Len(s) : Append(s, e)[k] = s[k] /\ s[k] \in S
           /\ Append(s, e)[Len(s) + 1] = e
           /\ DOMAIN s = 1 .. Len(s)
           /\ DOMAIN Append(s, e) = 1 .. Len(s) + 1
OBVIOUS

LEMMA Elements ==
    ASSUME NEW S, NEW s \in Seq(S)
    PROVE  /\ Len(s) \in Nat /\ DOMAIN s = 1 .. Len(s)
           /\ \A k \in 1 .. Len(s) : s[k] \in S
           /\ s # <<>> => Len(s) > 0
OBVIOUS

\* What Typed says of the files and of the profiles.
LEMMA ListFacts ==
    ASSUME Typed
    PROVE  /\ NumDocs \in Nat /\ DOMAIN docs = 1 .. NumDocs
           /\ \A i \in 1 .. NumDocs : docs[i] \in Document
           /\ NumProfiles \in Nat /\ DOMAIN profiles = 1 .. NumProfiles
           /\ \A k \in 1 .. NumProfiles : profiles[k] \in 1 .. NumDocs
<1>1. docs \in Seq(Document) /\ profiles \in Seq(1 .. NumDocs)
  BY DEF Typed, Commands, docs
<1>2. NumDocs \in Nat /\ DOMAIN docs = 1 .. NumDocs /\ \A i \in 1 .. NumDocs : docs[i] \in Document
  BY <1>1, Elements, Zenon DEF NumDocs
<1>3. /\ NumProfiles \in Nat /\ DOMAIN profiles = 1 .. NumProfiles
      /\ \A k \in 1 .. NumProfiles : profiles[k] \in 1 .. NumDocs
  BY <1>1, Elements, Zenon DEF NumProfiles
<1> QED
  BY <1>2, <1>3

\* A next file that is accepted becomes the last profile.
LEMMA ProfileAdded ==
    ASSUME Typed, next <= NumDocs, profiles' = Append(profiles, next)
    PROVE  /\ profiles' \in Seq(1 .. NumDocs)
           /\ NumProfiles' = NumProfiles + 1
           /\ \A k \in 1 .. NumProfiles : profiles'[k] = profiles[k]
           /\ profiles'[NumProfiles + 1] = next
<1>1. next \in 1 .. NumDocs /\ profiles \in Seq(1 .. NumDocs)
  BY ListFacts DEF Typed
<1>2. /\ Append(profiles, next) \in Seq(1 .. NumDocs)
      /\ Len(Append(profiles, next)) = Len(profiles) + 1
      /\ \A k \in 1 .. Len(profiles) : Append(profiles, next)[k] = profiles[k]
      /\ Append(profiles, next)[Len(profiles) + 1] = next
  BY <1>1, Appended
<1> QED
  BY <1>2 DEF NumProfiles

\* A mail that is sent is one more about its document, and none about another.
LEMMA MailAdded ==
    ASSUME Typed, NEW i \in 1 .. NumDocs, NEW kind \in {"failure", "success"}, Send(i, kind)
    PROVE  /\ mails' \in Seq(Mail)
           /\ MailsOf(i)' = MailsOf(i) \cup {Len(mails) + 1}
           /\ \A j \in 1 .. NumDocs \ {i} : MailsOf(j)' = MailsOf(j)
           /\ \A j \in 1 .. NumDocs : \A k \in MailsOf(j) : mails'[k] = mails[k]
           /\ Len(mails) + 1 \in DOMAIN mails' /\ mails'[Len(mails) + 1].kind = kind
           /\ DOMAIN mails \subseteq DOMAIN mails'
<1>1. PICK sent \in BOOLEAN : mails' = Append(mails, [doc |-> i, kind |-> kind, sent |-> sent])
  BY DEF Send, MayHappen
<1> DEFINE m == [doc |-> i, kind |-> kind, sent |-> sent]
           n == Len(mails)
<1>2. m \in Mail /\ mails \in Seq(Mail) /\ m.doc = i /\ m.kind = kind
  BY DEF Mail, Typed
<1>3. /\ mails' \in Seq(Mail) /\ n \in Nat
      /\ \A k \in 1 .. n : mails'[k] = mails[k]
      /\ mails'[n + 1] = m
      /\ DOMAIN mails = 1 .. n
      /\ DOMAIN mails' = 1 .. n + 1
  <2> HIDE DEF m
  <2> mails' = Append(mails, m)
    BY <1>1 DEF m
  <2> QED
    BY <1>2, Appended
<1> HIDE DEF n, m
<1>4. \A j : MailsOf(j)' = {k \in 1 .. n + 1 : mails'[k].doc = j} /\ MailsOf(j) = {k \in 1 .. n : mails[k].doc = j}
  BY <1>3, Zenon DEF MailsOf
<1>5. 1 .. n + 1 = (1 .. n) \cup {n + 1} /\ n + 1 \notin 1 .. n
  BY <1>3
<1>6. MailsOf(i)' = MailsOf(i) \cup {n + 1}
  BY <1>2, <1>3, <1>4, <1>5, Zenon
<1>7. ASSUME NEW j \in 1 .. NumDocs, j # i
      PROVE  MailsOf(j)' = MailsOf(j)
  BY <1>2, <1>3, <1>4, <1>5, <1>7, Zenon
<1> QED
  BY <1>2, <1>3, <1>4, <1>5, <1>6, <1>7, Zenon DEF n

-----------------------------------------------------------------------------
LEMMA InitTyped ==
    Init => Typed
<1> SUFFICES ASSUME Init PROVE Typed
  OBVIOUS
<1>1. input \in Commands
  BY CmdAssumption DEF Init
<1>2. DOMAIN docs = 1 .. NumDocs
  <2>1. docs \in Seq(Document)
    BY <1>1 DEF Commands, docs
  <2> QED
    BY <2>1, Elements, Zenon DEF NumDocs
<1> QED
  BY <1>1, <1>2 DEF Init, Typed, Places

LEMMA TypedStep ==
    Typed /\ RunInv /\ [Next]_vars => Typed'
<1> SUFFICES ASSUME Typed, RunInv, [Next]_vars PROVE Typed'
  OBVIOUS
<1>0. input' = input
  BY DEF Next, vars, Start, Walk, LoadNext, Loaded, Validated, RunProfile, Notify, Finish
<1>a. docs' = docs /\ NumDocs' = NumDocs /\ Mail' = Mail
  BY <1>0 DEF docs, NumDocs, Mail
<1> USE DEF Typed, Places, End, Goto, Panic
<1>1. CASE Start
  BY <1>0, <1>a, <1>1 DEF Start
<1>2. CASE Walk
  BY <1>0, <1>a, <1>2 DEF Walk
<1>3. CASE LoadNext
  <2>1. profiles' \in Seq(1 .. NumDocs)
    BY <1>3, ProfileAdded DEF LoadNext
  <2> QED
    BY <1>0, <1>a, <1>3, <2>1 DEF LoadNext
<1>4. CASE Loaded
  BY <1>0, <1>a, <1>4 DEF Loaded
<1>5. CASE Validated
  BY <1>0, <1>a, <1>5 DEF Validated
<1>6. CASE RunProfile
  <2>1. outcome' \in [1 .. NumDocs -> {"none", "ok", "failed", "panicked"}]
    BY <1>6 DEF RunProfile
  <2>2. /\ (at' = "notify" /\ exit' = exit) \/ (at' = "exit" /\ exit' = 2)
        /\ at = "run" /\ UNCHANGED <<input, next, profiles, mails>>
    BY <1>6 DEF RunProfile
  <2>3. exit' \in {-1, 0, 1, 2} /\ (exit' = -1 <=> at' # "exit") /\ at' \in Places
    BY <2>2
  <2> QED
    BY <1>0, <1>a, <2>1, <2>2, <2>3
<1>7. CASE Notify
  <2>1. mails' \in Seq(Mail)
    <3>1. CASE MailDue(profiles[next])
      <4>1. profiles[next] \in 1 .. NumDocs
        BY <1>7, ListFacts DEF Notify, RunInv
      <4> QED
        BY <1>7, <3>1, <4>1, MailAdded DEF Notify
    <3> QED
      BY <1>7, <3>1 DEF Notify
  <2> QED
    BY <1>0, <1>a, <1>7, <2>1 DEF Notify, NextProfile
<1>8. CASE Finish
  BY <1>0, <1>a, <1>8 DEF Finish
<1>9. CASE UNCHANGED vars
  BY <1>0, <1>a, <1>9 DEF vars
<1> QED
  BY <1>1, <1>2, <1>3, <1>4, <1>5, <1>6, <1>7, <1>8, <1>9 DEF Next

-----------------------------------------------------------------------------
LEMMA LoadStep ==
    Typed /\ LoadInv /\ [Next]_vars => LoadInv'
<1> SUFFICES ASSUME Typed, LoadInv, [Next]_vars PROVE LoadInv'
  OBVIOUS
<1>0. input' = input
  BY DEF Next, vars, Start, Walk, LoadNext, Loaded, Validated, RunProfile, Notify, Finish
<1>a. docs' = docs /\ NumDocs' = NumDocs /\ NumDocs \in Nat /\ NumProfiles \in Nat
  BY <1>0, ListFacts DEF docs, NumDocs
<1>b. /\ next \in Nat /\ next >= 1
      /\ \A k \in 1 .. NumProfiles : profiles[k] \in 1 .. NumDocs
      /\ exit = -1 <=> at # "exit"
  BY ListFacts DEF Typed
<1>c. ASSUME profiles' = profiles
      PROVE  NumProfiles' = NumProfiles
  BY <1>c DEF NumProfiles
<1>d. ASSUME profiles' = profiles, skipped' = skipped
      PROVE  \A m : LoadedUpTo(m)' <=> LoadedUpTo(m)
  BY <1>0, <1>a, <1>c, <1>d DEF LoadedUpTo, Collected
<1>e. NumProfiles = 0 => LoadedUpTo(1)
  BY <1>a DEF LoadedUpTo
<1> USE DEF End, Goto, Panic
<1>1. CASE Start
  BY <1>a, <1>b, <1>c, <1>1 DEF Start, LoadInv, LoadedUpTo
<1>2. CASE Walk
  BY <1>a, <1>b, <1>c, <1>2 DEF Walk, LoadInv, LoadedUpTo
<1>3. CASE LoadNext
  <2>0. /\ at = "load" /\ next <= NumDocs /\ next' = next + 1
        /\ at' = at /\ exit' = exit /\ skipped' = skipped
    BY <1>3 DEF LoadNext
  <2>1. CASE ~Collected(next) /\ UNCHANGED <<profiles, loadErr>>
    <3>1. ~loadErr => LoadedUpTo(next + 1)
      <4> SUFFICES ASSUME ~loadErr, NEW i \in 1 .. NumDocs, i < next + 1, Collected(i)
                   PROVE  \E k \in 1 .. NumProfiles : profiles[k] = i
        BY Zenon DEF LoadedUpTo
      <4>1. i # next
        BY <2>1
      <4>2. i < next
        BY <1>a, <1>b, <4>1
      <4> QED
        BY <2>0, <4>2, Zenon DEF LoadInv, LoadedUpTo
    <3> QED
      BY <1>a, <1>b, <1>c, <1>d, <2>0, <2>1, <3>1 DEF LoadInv
  <2>2. CASE Collected(next) /\ LoadProfile(docs[next])
             /\ profiles' = Append(profiles, next) /\ UNCHANGED loadErr
    <3>1. /\ NumProfiles' = NumProfiles + 1
          /\ \A k \in 1 .. NumProfiles : profiles'[k] = profiles[k]
          /\ profiles'[NumProfiles + 1] = next
      BY <2>0, <2>2, ProfileAdded
    <3>2. \A k \in 1 .. NumProfiles + 1 : LoadProfile(docs[profiles'[k]])
      <4> SUFFICES ASSUME NEW k \in 1 .. NumProfiles + 1 PROVE LoadProfile(docs[profiles'[k]])
        OBVIOUS
      <4>1. CASE k = NumProfiles + 1
        BY <2>2, <3>1, <4>1
      <4>2. CASE k # NumProfiles + 1
        <5>1. k \in 1 .. NumProfiles
          BY <1>a, <4>2
        <5> QED
          BY <3>1, <5>1, Zenon DEF LoadInv
      <4> QED
        BY <4>1, <4>2
    <3>3. \A k \in 1 .. NumProfiles + 1 : profiles'[k] < next + 1
      BY <1>a, <1>b, <2>0, <3>1 DEF LoadInv
    <3>4. \A j, k \in 1 .. NumProfiles + 1 : j < k => profiles'[j] < profiles'[k]
      BY <1>a, <1>b, <2>0, <3>1 DEF LoadInv
    <3>5. ASSUME ~loadErr
          PROVE  LoadedUpTo(next)'
      <4>0. \A i : Collected(i)' <=> Collected(i)
        BY <1>0, <1>a, <2>0 DEF Collected
      <4> SUFFICES ASSUME NEW i \in 1 .. NumDocs, i < next + 1, Collected(i)
                   PROVE  \E k \in 1 .. NumProfiles + 1 : profiles'[k] = i
        BY <1>a, <2>0, <3>1, <4>0, Zenon DEF LoadedUpTo
      <4>1. CASE i = next
        BY <1>a, <3>1, <4>1
      <4>2. CASE i # next
        <5>1. PICK k \in 1 .. NumProfiles : profiles[k] = i
          BY <1>b, <2>0, <3>5, <4>2 DEF LoadInv, LoadedUpTo
        <5> QED
          BY <1>a, <3>1, <5>1
      <4> QED
        BY <4>1, <4>2
    <3> QED
      BY <1>a, <1>b, <2>0, <2>2, <3>1, <3>2, <3>3, <3>4, <3>5 DEF LoadInv
  <2>3. CASE loadErr' = TRUE /\ UNCHANGED profiles
    BY <1>a, <1>b, <1>c, <2>0, <2>3 DEF LoadInv
  <2> QED
    BY <1>3, <2>1, <2>2, <2>3 DEF LoadNext
<1>4. CASE Loaded
  BY <1>a, <1>b, <1>c, <1>d, <1>4 DEF Loaded, LoadInv
<1>5. CASE Validated
  BY <1>a, <1>b, <1>c, <1>d, <1>5 DEF Validated, LoadInv
<1>6. CASE RunProfile
  BY <1>a, <1>b, <1>c, <1>d, <1>6 DEF RunProfile, LoadInv
<1>7. CASE Notify
  BY <1>a, <1>b, <1>c, <1>d, <1>7 DEF Notify, LoadInv
<1>8. CASE Finish
  BY <1>a, <1>b, <1>c, <1>d, <1>8 DEF Finish, LoadInv
<1>9. CASE UNCHANGED vars
  BY <1>a, <1>b, <1>c, <1>d, <1>9 DEF vars, LoadInv
<1> QED
  BY <1>1, <1>2, <1>3, <1>4, <1>5, <1>6, <1>7, <1>8, <1>9 DEF Next

-----------------------------------------------------------------------------
LEMMA RunStep ==
    Typed /\ LoadInv /\ RunInv /\ [Next]_vars => RunInv'
<1> SUFFICES ASSUME Typed, LoadInv, RunInv, [Next]_vars PROVE RunInv'
  OBVIOUS
<1>0. input' = input
  BY DEF Next, vars, Start, Walk, LoadNext, Loaded, Validated, RunProfile, Notify, Finish
<1>a. docs' = docs /\ NumDocs' = NumDocs /\ NumDocs \in Nat /\ NumProfiles \in Nat
  BY <1>0, ListFacts DEF docs, NumDocs
<1>b. /\ next \in Nat /\ next >= 1
      /\ \A k \in 1 .. NumProfiles : profiles[k] \in 1 .. NumDocs
      /\ exit = -1 <=> at # "exit"
  BY ListFacts DEF Typed
<1>c. ASSUME profiles' = profiles
      PROVE  NumProfiles' = NumProfiles
  BY <1>c DEF NumProfiles
<1>d. ASSUME profiles' = profiles, outcome' = outcome
      PROVE  \A m : /\ RunUpTo(m)' <=> RunUpTo(m)
                    /\ errs' = errs => (Noted(m)' <=> Noted(m))
  BY <1>c, <1>d DEF RunUpTo, Noted
<1>e. ASSUME \A i \in 1 .. NumDocs : outcome[i] = "none"
      PROVE  RunUpTo(0) /\ Noted(0)
  BY <1>b, <1>e DEF RunUpTo, Noted
<1> USE DEF End, Goto, Panic
<1>1. CASE Start
  <2>1. NumProfiles = 0 /\ NumProfiles' = 0
    BY <1>c, <1>1 DEF Start, LoadInv
  <2>2. RunUpTo(NumProfiles)'
    BY <2>1 DEF RunUpTo
  <2> QED
    BY <1>0, <1>a, <1>b, <1>1, <2>2 DEF Start, RunInv
<1>2. CASE Walk
  BY <1>0, <1>a, <1>b, <1>2 DEF Walk, RunInv
<1>3. CASE LoadNext
  BY <1>0, <1>a, <1>b, <1>3 DEF LoadNext, RunInv
<1>4. CASE Loaded
  BY <1>0, <1>a, <1>b, <1>c, <1>d, <1>e, <1>4 DEF Loaded, RunInv
<1>5. CASE Validated
  BY <1>0, <1>a, <1>b, <1>5 DEF Validated, RunInv
<1>6. CASE RunProfile
  <2>1. PICK o \in {"ok", "failed", "panicked"} :
          /\ outcome' = [outcome EXCEPT ![profiles[next]] = o]
          /\ (o # "panicked" /\ Goto("notify")) \/ (o = "panicked" /\ Panic)
    BY <1>6 DEF RunProfile
  <2>2. /\ at = "run" /\ next \in 1 .. NumProfiles /\ RunUpTo(next - 1) /\ Noted(next - 1)
        /\ UNCHANGED <<input, next, profiles, loadErr, mails, errs>> /\ input.cmd = "backup"
    BY <1>a, <1>b, <1>6 DEF RunProfile, RunInv
  <2>3. CASE o = "panicked"
    BY <1>a, <1>b, <2>1, <2>2, <2>3 DEF RunInv
  <2>4. CASE o # "panicked"
    <3>1. outcome'[profiles[next]] = o
      BY <1>b, <2>1, <2>2 DEF Typed
    <3>2. \A k \in 1 .. NumProfiles : k # next => outcome'[profiles[k]] = outcome[profiles[k]]
      <4> SUFFICES ASSUME NEW k \in 1 .. NumProfiles, k # next
                   PROVE  outcome'[profiles[k]] = outcome[profiles[k]]
        OBVIOUS
      <4>1. profiles[k] # profiles[next]
        <5>1. k < next \/ next < k
          BY <1>b
        <5>2. profiles[k] < profiles[next] \/ profiles[next] < profiles[k]
          BY <2>2, <5>1 DEF LoadInv
        <5> QED
          BY <1>b, <2>2, <5>2
      <4> QED
        BY <1>b, <2>1, <2>2, <4>1 DEF Typed
    <3>3. RunUpTo(next)'
      BY <1>a, <1>b, <1>c, <2>1, <2>2, <2>4, <3>1, <3>2 DEF RunUpTo
    <3>4. Noted(next - 1)'
      BY <1>a, <1>b, <1>c, <2>2, <3>2 DEF Noted
    <3> QED
      BY <1>a, <1>b, <1>c, <2>1, <2>2, <2>4, <3>3, <3>4 DEF RunInv
  <2> QED
    BY <2>3, <2>4
<1>7. CASE Notify
  <2>1. /\ at = "notify" /\ next \in 1 .. NumProfiles /\ RunUpTo(next) /\ Noted(next - 1)
        /\ at' = "run" /\ exit' = exit /\ next' = next + 1 /\ input.cmd = "backup"
        /\ UNCHANGED <<input, profiles, loadErr, outcome>>
        /\ errs' = (errs \/ outcome[profiles[next]] = "failed")
    BY <1>a, <1>b, <1>7 DEF Notify, NextProfile, RunInv
  <2>2. RunUpTo(next - 1)'
    BY <1>a, <1>b, <1>c, <2>1 DEF RunUpTo
  <2>3. Noted(next - 1)'
    <3> SUFFICES ASSUME NEW k \in 1 .. NumProfiles, k <= next, outcome[profiles[k]] = "failed"
                 PROVE  errs'
      BY <1>b, <1>c, <2>1 DEF Noted
    <3>1. CASE k = next
      BY <2>1, <3>1, Zenon
    <3>2. CASE k # next
      <4>1. k <= next - 1
        BY <1>b, <3>2
      <4> QED
        BY <2>1, <4>1, Zenon DEF Noted
    <3> QED
      BY <3>1, <3>2
  <2> QED
    BY <1>a, <1>b, <1>c, <2>1, <2>2, <2>3 DEF RunInv
<1>8. CASE Finish
  BY <1>0, <1>a, <1>b, <1>c, <1>d, <1>8 DEF Finish, RunInv
<1>9. CASE UNCHANGED vars
  BY <1>0, <1>a, <1>b, <1>c, <1>d, <1>9 DEF vars, RunInv
<1> QED
  BY <1>1, <1>2, <1>3, <1>4, <1>5, <1>6, <1>7, <1>8, <1>9 DEF Next

-----------------------------------------------------------------------------
LEMMA ErrStep ==
    Typed /\ LoadInv /\ RunInv /\ ErrInv /\ [Next]_vars => ErrInv'
<1> SUFFICES ASSUME Typed, LoadInv, RunInv, ErrInv, [Next]_vars PROVE ErrInv'
  OBVIOUS
<1>0. input' = input
  BY DEF Next, vars, Start, Walk, LoadNext, Loaded, Validated, RunProfile, Notify, Finish
<1>a. docs' = docs /\ NumDocs' = NumDocs /\ NumDocs \in Nat /\ NumProfiles \in Nat
  BY <1>0, ListFacts DEF docs, NumDocs
<1>b. /\ next \in Nat /\ next >= 1
      /\ exit = -1 <=> at # "exit"
  BY DEF Typed
<1>c. ASSUME skipped' = skipped
      PROVE  /\ \A i : Collected(i)' <=> Collected(i)
             /\ \A m : RejectedBefore(m)' <=> RejectedBefore(m)
  BY <1>0, <1>a, <1>c DEF RejectedBefore, Collected
<1>d. ASSUME skipped' = skipped, profiles' = profiles
      PROVE  \A m : LoadedUpTo(m)' <=> LoadedUpTo(m)
  BY <1>a, <1>c, <1>d DEF LoadedUpTo, NumProfiles
<1>e. next = 1 => \A i \in 1 .. NumDocs : ~(i < next)
  BY <1>a
<1> USE DEF End, Goto, Panic
<1>1. CASE Start
  BY <1>0, <1>b, <1>e, <1>1 DEF Start, ErrInv, LoadInv, RejectedBefore
<1>2. CASE Walk
  BY <1>0, <1>b, <1>e, <1>2 DEF Walk, ErrInv, LoadInv, RejectedBefore
<1>3. CASE LoadNext
  <2>1. /\ at = "load" /\ next <= NumDocs /\ next' = next + 1
        /\ UNCHANGED <<input, at, skipped, outcome, mails, exit>>
        /\ loadErr' <=> loadErr \/ (Collected(next) /\ ~LoadProfile(docs[next]))
    BY <1>3 DEF LoadNext
  <2>2. RejectedBefore(next + 1)
          <=> RejectedBefore(next) \/ (Collected(next) /\ ~LoadProfile(docs[next]))
    <3>1. \A i \in 1 .. NumDocs : i < next + 1 <=> i < next \/ i = next
      BY <1>a, <1>b
    <3>2. next \in 1 .. NumDocs
      BY <1>a, <1>b, <2>1
    <3> QED
      BY <3>1, <3>2, Zenon DEF RejectedBefore
  <2>3. loadErr' <=> RejectedBefore(next + 1)
    BY <2>1, <2>2 DEF ErrInv
  <2>4. (loadErr <=> RejectedBefore(next))'
    BY <1>c, <2>1, <2>3
  <2>5. \A i \in 1 .. NumDocs : outcome'[i] = "none"
    BY <2>1 DEF RunInv
  <2> QED
    BY <1>a, <1>b, <2>1, <2>4, <2>5 DEF ErrInv, RunInv
<1>4. CASE Loaded
  <2>1. /\ at = "load" /\ next = NumDocs + 1
        /\ UNCHANGED <<input, profiles, skipped, loadErr, outcome, mails>>
        /\ (loadErr /\ at' = "exit" /\ exit' = 1) \/ (~loadErr /\ at' = "run" /\ exit' = exit)
    BY <1>4 DEF Loaded
  <2>2. loadErr <=> RejectedBefore(NumDocs + 1)
    BY <2>1 DEF ErrInv
  <2> QED
    BY <1>a, <1>b, <1>c, <2>1, <2>2 DEF ErrInv
<1>5. CASE Validated
  <2>1. /\ at = "load" /\ next = NumDocs + 1
        /\ UNCHANGED <<input, profiles, skipped, loadErr, outcome, mails>>
        /\ at' = "exit" /\ exit' = IF loadErr THEN 1 ELSE 0
    BY <1>5 DEF Validated
  <2>2. loadErr <=> RejectedBefore(NumDocs + 1)
    BY <2>1 DEF ErrInv
  <2>3. ~loadErr => LoadedUpTo(NumDocs + 1)
    BY <2>1 DEF LoadInv
  <2> QED
    BY <1>a, <1>b, <1>c, <1>d, <2>1, <2>2, <2>3 DEF ErrInv
<1>6. CASE RunProfile \/ Notify \/ Finish
  <2>1. /\ at \in {"run", "notify"} /\ at' \in {"run", "notify", "exit"}
        /\ UNCHANGED <<input, profiles, skipped, loadErr>>
    BY <1>6 DEF RunProfile, Notify, Finish
  <2>2. ~loadErr /\ LoadedUpTo(NumDocs + 1) /\ ~RejectedBefore(NumDocs + 1)
    BY <2>1 DEF LoadInv, ErrInv
  <2> QED
    BY <1>a, <1>c, <1>d, <2>1, <2>2 DEF ErrInv
<1>7. CASE UNCHANGED vars
  BY <1>a, <1>c, <1>d, <1>7 DEF vars, ErrInv
<1> QED
  BY <1>1, <1>2, <1>3, <1>4, <1>5, <1>6, <1>7 DEF Next

-----------------------------------------------------------------------------
\* What a document's mails and outcome do not share with other documents.
LEMMA MailsFrame ==
    ASSUME NEW i, docs' = docs, outcome'[i] = outcome[i], MailsOf(i)' = MailsOf(i),
           DOMAIN mails \subseteq DOMAIN mails', \A k \in MailsOf(i) : mails'[k] = mails[k],
           MailsRight(i)
    PROVE  MailsRight(i)'
<1>1. Wanted(i)' <=> Wanted(i)
  BY Zenon DEF Wanted
<1>2. Wanted(i) => \E k \in DOMAIN mails' : MailsOf(i)' = {k}
  BY DEF MailsRight
<1>3. ~Wanted(i) => MailsOf(i)' = {}
  BY DEF MailsRight
<1>4. \A k \in MailsOf(i)' : mails'[k].kind = "failure" <=> outcome'[i] = "failed"
  BY DEF MailsRight
<1> QED
  BY <1>1, <1>2, <1>3, <1>4, Zenon DEF MailsRight

LEMMA MailsStep ==
    Typed /\ LoadInv /\ RunInv /\ MailsInv /\ [Next]_vars => MailsInv'
<1> SUFFICES ASSUME Typed, LoadInv, RunInv, MailsInv, [Next]_vars PROVE MailsInv'
  OBVIOUS
<1>0. input' = input
  BY DEF Next, vars, Start, Walk, LoadNext, Loaded, Validated, RunProfile, Notify, Finish
<1>a. docs' = docs /\ NumDocs' = NumDocs
  BY <1>0 DEF docs, NumDocs
<1>b. /\ next \in Nat /\ next >= 1 /\ NumProfiles \in Nat
      /\ \A k \in 1 .. NumProfiles : profiles[k] \in 1 .. NumDocs
      /\ exit = -1 <=> at # "exit"
  BY ListFacts DEF Typed
<1>c. ASSUME at' # "notify", \A i \in 1 .. NumDocs : MailsRight(i)'
      PROVE  MailsInv'
  BY <1>a, <1>c, Zenon DEF MailsInv
\* A step that keeps the outcomes and the mails keeps every document's.
<1>d. ASSUME UNCHANGED <<outcome, mails>>, at # "notify", at' # "notify", exit # 2
      PROVE  MailsInv'
  <2>1. ASSUME NEW i \in 1 .. NumDocs
        PROVE  MailsRight(i)'
    <3>1. MailsRight(i)
      BY <1>d, Zenon DEF MailsInv
    <3>2. MailsOf(i)' = MailsOf(i)
      BY <1>d, Zenon DEF MailsOf
    <3> QED
      BY <1>a, <1>d, <3>1, <3>2, MailsFrame
  <2> QED
    BY <1>c, <1>d, <2>1, Zenon
<1> USE DEF End, Goto, Panic
<1>1. CASE Start
  BY <1>b, <1>d, <1>1 DEF Start
<1>2. CASE Walk
  BY <1>b, <1>d, <1>2 DEF Walk
<1>3. CASE LoadNext
  BY <1>b, <1>d, <1>3 DEF LoadNext
<1>4. CASE Loaded
  BY <1>b, <1>d, <1>4 DEF Loaded
<1>5. CASE Validated
  BY <1>b, <1>d, <1>5 DEF Validated
<1>6. CASE RunProfile
  <2>1. PICK o \in {"ok", "failed", "panicked"} :
          /\ outcome' = [outcome EXCEPT ![profiles[next]] = o]
          /\ (o # "panicked" /\ Goto("notify")) \/ (o = "panicked" /\ Panic)
    BY <1>6 DEF RunProfile
  <2>2. /\ at = "run" /\ next \in 1 .. NumProfiles /\ RunUpTo(next - 1)
        /\ UNCHANGED <<next, profiles, mails>>
    BY <1>b, <1>6 DEF RunProfile, RunInv
  <2>3. CASE o = "panicked"
    BY <2>1, <2>3 DEF MailsInv
  <2>4. CASE o # "panicked"
    <3>1. PICK p \in 1 .. NumDocs : p = profiles[next]
      BY <1>b, <2>2
    <3>2. outcome[p] = "none" /\ \A i \in 1 .. NumDocs : MailsRight(i)
      BY <1>b, <2>2, <3>1 DEF RunUpTo, MailsInv
    <3>3. MailsOf(p)' = {}
      <4>1. ~Wanted(p)
        BY <3>2 DEF Wanted
      <4> QED
        BY <2>2, <3>2, <4>1 DEF MailsRight, MailsOf
    <3>4. ASSUME NEW i \in 1 .. NumDocs, i # p
          PROVE  MailsRight(i)'
      <4>1. outcome'[i] = outcome[i]
        BY <2>1, <3>1, <3>4 DEF Typed
      <4>2. MailsOf(i)' = MailsOf(i)
        BY <2>2, Zenon DEF MailsOf
      <4> QED
        BY <1>a, <2>2, <3>2, <4>1, <4>2, MailsFrame
    <3>5. profiles'[next'] = p /\ at' = "notify"
      BY <2>1, <2>2, <2>4, <3>1
    <3>6. ASSUME NEW i \in 1 .. NumDocs'
          PROVE  IF at' = "notify" /\ i = profiles'[next'] THEN MailsOf(i)' = {} ELSE MailsRight(i)'
      <4>1. CASE i = p
        BY <3>3, <3>5, <4>1
      <4>2. CASE i # p
        BY <1>a, <3>4, <3>5, <4>2
      <4> QED
        BY <4>1, <4>2
    <3> QED
      BY <3>6 DEF MailsInv
  <2> QED
    BY <2>3, <2>4
<1>7. CASE Notify
  <2>0. at = "notify" /\ next \in 1 .. NumProfiles
    BY <1>b, <1>7 DEF Notify, RunInv
  <2>1. PICK p \in 1 .. NumDocs : p = profiles[next]
    BY <1>b, <2>0
  <2>2. /\ at' = "run" /\ exit # 2 /\ outcome[p] \in {"ok", "failed"} /\ outcome' = outcome
    BY <1>b, <1>7, <2>0, <2>1 DEF Notify, RunInv, RunUpTo
  <2>3. MailsOf(p) = {} /\ \A i \in 1 .. NumDocs : i # p => MailsRight(i)
    BY <2>0, <2>1, <2>2, Zenon DEF MailsInv
  <2>4. MailDue(p) <=> Wanted(p)'
    <3>1. outcome[p] = "ok" \/ outcome[p] = "failed"
      BY <2>2
    <3> QED
      BY <1>a, <2>2, <3>1, Zenon DEF MailDue, HasValues, Wanted
  <2>5. CASE ~MailDue(p) /\ UNCHANGED mails
    <3>1. \A i : MailsOf(i)' = MailsOf(i)
      BY <2>5 DEF MailsOf
    <3>2. MailsRight(p)'
      BY <2>3, <2>4, <2>5, <3>1 DEF MailsRight
    <3>3. \A i \in 1 .. NumDocs : i # p => MailsRight(i)'
      BY <1>a, <2>2, <2>3, <2>5, <3>1, MailsFrame
    <3> QED
      BY <1>c, <2>2, <3>2, <3>3
  <2>6. ASSUME NEW kind \in {"failure", "success"}, kind = "failure" <=> outcome[p] = "failed",
               MailDue(p), Send(p, kind)
        PROVE  MailsInv'
    <3>1. PICK n : /\ MailsOf(p)' = MailsOf(p) \cup {n}
                   /\ \A j \in 1 .. NumDocs \ {p} : MailsOf(j)' = MailsOf(j)
                   /\ \A j \in 1 .. NumDocs : \A k \in MailsOf(j) : mails'[k] = mails[k]
                   /\ n \in DOMAIN mails' /\ mails'[n].kind = kind
                   /\ DOMAIN mails \subseteq DOMAIN mails'
      BY <2>6, MailAdded
    <3>2. MailsRight(p)'
      <4>1. MailsOf(p)' = {n} /\ n \in DOMAIN mails'
        BY <2>3, <3>1
      <4>2. mails'[n].kind = "failure" <=> outcome'[p] = "failed"
        BY <2>2, <2>6, <3>1
      <4> QED
        BY <2>4, <2>6, <4>1, <4>2 DEF MailsRight
    <3>3. \A i \in 1 .. NumDocs : i # p => MailsRight(i)'
      BY <1>a, <2>2, <2>3, <3>1, MailsFrame
    <3> QED
      BY <1>c, <2>2, <3>2, <3>3
  <2>7. \/ ~MailDue(p) /\ UNCHANGED mails
        \/ MailDue(p) /\ Send(p, IF outcome[p] = "failed" THEN "failure" ELSE "success")
    BY <1>7, <2>1, Zenon DEF Notify
  <2> QED
    BY <2>5, <2>6, <2>7
<1>8. CASE Finish
  BY <1>b, <1>d, <1>8 DEF Finish
<1>9. CASE UNCHANGED vars
  <2>1. UNCHANGED <<at, next, profiles, outcome, mails, exit>>
    BY <1>9 DEF vars
  <2> QED
    BY <1>a, <2>1 DEF MailsInv, MailsRight, MailsOf, Wanted
<1> QED
  BY <1>1, <1>2, <1>3, <1>4, <1>5, <1>6, <1>7, <1>8, <1>9 DEF Next

-----------------------------------------------------------------------------
\* The invariant that the theorems follow from.
THEOREM Invariance == Spec => []IInv
<1>1. Init => IInv
  <2> SUFFICES ASSUME Init PROVE IInv
    OBVIOUS
  <2>1. Typed
    BY InitTyped
  <2>2. /\ NumDocs \in Nat /\ NumProfiles = 0 /\ Len(mails) = 0 /\ DOMAIN docs = 1 .. NumDocs
        /\ \A i : MailsOf(i) = {}
    BY <2>1, ListFacts DEF Init, NumProfiles, MailsOf
  <2>3. \A i \in 1 .. NumDocs : outcome[i] = "none"
    BY <2>2 DEF Init
  <2>4. LoadInv
    BY <2>2 DEF Init, LoadInv
  <2>5. RunInv
    BY <2>2, <2>3 DEF Init, RunInv
  <2>6. MailsInv
    BY <2>2, <2>3 DEF Init, MailsInv, MailsRight, Wanted
  <2>7. ErrInv
    BY <2>2, <2>3 DEF Init, ErrInv
  <2> QED
    BY <2>1, <2>4, <2>5, <2>6, <2>7 DEF IInv
<1>2. IInv /\ [Next]_vars => IInv'
  BY TypedStep, LoadStep, RunStep, ErrStep, MailsStep DEF IInv
<1> QED
  BY <1>1, <1>2, PTL DEF Spec

\* Exit code 0 of a command means that every profile file it was called on, and
\* could see, was loaded and, by backup, run with success.
THEOREM ZeroMeansDone == Spec => []ExitCodeHonest
<1>1. IInv => ExitCodeHonest
  <2> SUFFICES ASSUME IInv, exit = 0, NEW i \in DOMAIN docs, Collected(i)
               PROVE  /\ \E k \in DOMAIN profiles : profiles[k] = i
                      /\ input.cmd = "backup" => outcome[i] = "ok"
    BY DEF ExitCodeHonest
  <2>1. Typed /\ LoadInv /\ RunInv
    BY DEF IInv
  <2>2. PICK k \in 1 .. NumProfiles : profiles[k] = i
    BY <2>1, ListFacts DEF LoadInv, LoadedUpTo
  <2>3. ASSUME input.cmd = "backup"
        PROVE  outcome[i] = "ok"
    <3>1. ~loadErr
      BY <2>1 DEF LoadInv
    <3>2. RunUpTo(NumProfiles) /\ Noted(NumProfiles) /\ ~errs
      BY <2>1, <2>3, <3>1 DEF RunInv
    <3> QED
      BY <2>1, <2>2, <3>2, ListFacts DEF RunUpTo, Noted
  <2> QED
    BY <2>1, <2>2, <2>3, ListFacts
<1> QED
  BY <1>1, Invariance, PTL

\* A backup command that returns has run to its end every profile file it could
\* see, whatever became of the profiles before, or has run none and says so in its
\* exit code, because one of the files is rejected.
THEOREM AllHaveRunOrNone == Spec => []AllOrNoneRun
<1>1. IInv => AllOrNoneRun
  <2> SUFFICES ASSUME IInv, exit \in {0, 1}, input.cmd = "backup", input.arg # "missing"
               PROVE  /\ Rejected = {} =>
                           \A i \in DOMAIN docs : Collected(i) => outcome[i] \in {"ok", "failed"}
                      /\ Rejected # {} =>
                           exit = 1 /\ mails = <<>> /\ \A i \in DOMAIN docs : outcome[i] = "none"
    BY DEF AllOrNoneRun
  <2>1. /\ NumDocs \in Nat /\ DOMAIN docs = 1 .. NumDocs /\ NumProfiles \in Nat
    BY ListFacts DEF IInv
  <2>2. RejectedBefore(NumDocs + 1) <=> Rejected # {}
    BY <2>1 DEF RejectedBefore, Rejected
  <2>3. loadErr <=> Rejected # {}
    BY <2>2 DEF IInv, ErrInv
  <2>4. ASSUME Rejected # {}
        PROVE  exit = 1 /\ mails = <<>> /\ \A i \in DOMAIN docs : outcome[i] = "none"
    <3>1. mails \in Seq(Mail) /\ Len(mails) = 0
      BY <2>3, <2>4 DEF IInv, ErrInv, Typed
    <3>2. mails = <<>>
      BY <3>1, Elements
    <3> QED
      BY <2>1, <2>3, <2>4, <3>2 DEF IInv, ErrInv
  <2>5. ASSUME Rejected = {}, NEW i \in 1 .. NumDocs, Collected(i)
        PROVE  outcome[i] \in {"ok", "failed"}
    <3>1. LoadedUpTo(NumDocs + 1) /\ RunUpTo(NumProfiles)
      BY <2>3, <2>5 DEF IInv, ErrInv, RunInv
    <3>2. PICK k \in 1 .. NumProfiles : profiles[k] = i
      BY <2>1, <2>5, <3>1 DEF LoadedUpTo
    <3> QED
      BY <2>1, <3>1, <3>2 DEF RunUpTo
  <2> QED
    BY <2>1, <2>4, <2>5
<1> QED
  BY <1>1, Invariance, PTL

\* At the end every document has had the one mail its profile's outcome and notify
\* section call for, of the right kind, or none.
THEOREM OneMailPerOutcome == Spec => []MailsMatchOutcomes
<1>1. IInv => MailsMatchOutcomes
  <2> SUFFICES ASSUME IInv, exit \in {0, 1}, NEW i \in DOMAIN docs
               PROVE  MailsRight(i)
    BY DEF MailsMatchOutcomes
  <2>1. i \in 1 .. NumDocs /\ at = "exit" /\ exit # 2
    BY ListFacts DEF IInv, Typed
  <2> QED
    BY <2>1, Zenon DEF IInv, MailsInv
<1> QED
  BY <1>1, Invariance, PTL

\* A profile that LoadProfile has let through is one that the runner functions can
\* work with.
THEOREM LoadedCanRun == Spec => []LoadedMeetsAssumptions
<1>1. IInv => LoadedMeetsAssumptions
  <2> SUFFICES ASSUME IInv, NEW k \in DOMAIN profiles, NEW doc, doc = docs[profiles[k]]
               PROVE  /\ doc.type \in ProfileTypes /\ doc.name
                      /\ doc.type # "sftpsync" => Len(doc.dirs) + Len(doc.dbs) > 0
                      /\ doc.type = "sftpsync" => \A i \in DOMAIN doc.dirs : doc.dirs[i].name
                      /\ doc.type # "local" => doc.host /\ SshPort(doc) # 0
    BY DEF LoadedMeetsAssumptions
  <2>1. LoadProfile(doc) /\ doc \in Document
    BY ListFacts DEF IInv, LoadInv
  <2>2. ProfileCreated(doc) /\ SshValid(doc) /\ HasTargets(doc) /\ DirectoriesValid(doc)
    BY <2>1 DEF LoadProfile, loadProfileV1
  <2>3. doc.type \in ProfileTypes /\ doc.name
    BY <2>2 DEF ProfileCreated
  <2>4. doc.type # "sftpsync" => Len(doc.dirs) + Len(doc.dbs) > 0
    <3>1. /\ doc.dirs \in Seq([path : BOOLEAN, name : BOOLEAN, globs : BOOLEAN])
          /\ doc.dbs \in Seq([type : STRING, container : BOOLEAN])
      BY <2>1 DEF Document
    <3>2. /\ Len(doc.dirs) \in Nat /\ (doc.dirs # <<>> => Len(doc.dirs) > 0)
          /\ Len(doc.dbs) \in Nat /\ (doc.dbs # <<>> => Len(doc.dbs) > 0)
      BY <3>1
    <3>3. doc.type # "sftpsync" => doc.dirs # <<>> \/ doc.dbs # <<>>
      BY <2>2, <2>3 DEF HasTargets, ProfileTypes
    <3>4. ASSUME NEW m \in Nat, NEW n \in Nat, m > 0 \/ n > 0
          PROVE  m + n > 0
      BY <3>4
    <3> QED
      BY <3>2, <3>3, <3>4, Zenon
  <2>5. doc.type = "sftpsync" => \A i \in DOMAIN doc.dirs : doc.dirs[i].name
    BY <2>2, Zenon DEF DirectoriesValid
  <2>6. doc.type # "local" => doc.host /\ SshPort(doc) # 0
    BY <2>2, <2>3 DEF SshValid, SshPort, ProfileTypes
  <2> QED
    BY <2>3, <2>4, <2>5, <2>6
<1> QED
  BY <1>1, Invariance, PTL
=============================================================================
