--------------------------- MODULE GitTarget_proofs ---------------------------
(***************************************************************************)
(* The git target for any number of threads, files, requests, faults and   *)
(* pushes of others.  The invariant has a part for the history (what the   *)
(* branch and the remote have in common, and where a text may change), one *)
(* for the threads on their way to the remote, and one for the folder as   *)
(* long as no commit and no push has failed.                               *)
(***************************************************************************)
EXTENDS GitTarget, SequenceTheorems, WellFoundedInduction, TLAPS

-----------------------------------------------------------------------------
(* The invariant. *)

\* A log of commits: each its own number, none above most, the first the one everybody
\* cloned, and a text that changes is what the commit is about.
Log(log, most) ==
    /\ \A i \in DOMAIN log : log[i].id <= most
    /\ \A i, j \in DOMAIN log : log[i].id = log[j].id => i = j
    /\ log[1].id = 0
    /\ \A i \in DOMAIN log : \A f \in Files :
          i > 1 /\ log[i].text[f] # log[i - 1].text[f] => log[i].about = f

\* The branch is what it shares with the remote, then commits the remote does not have.
ForkedAt(mine, theirs, n) ==
    /\ n \in 0 .. Len(mine) /\ n <= Len(theirs)
    /\ \A i \in 1 .. n : mine[i] = theirs[i]
    /\ \A i \in DOMAIN mine : i > n => mine[i].id \notin Numbers(theirs)

Forked == \E n \in 0 .. Len(branch) : ForkedAt(branch, remote, n)

\* A commit that is not published is somebody's: its request is on the way, or left it.
Claimed ==
    \A i \in DOMAIN branch :
        \/ branch[i].id \in Numbers(remote) \cup stranded
        \/ \E t \in Threads : OnTheWay(t) /\ job[t].commit = branch[i].id

\* A request has a commit once it is on the way, and one that is alone has the tip.
Carries(t) ==
    job[t] # Idle =>
        /\ job[t].commit <= commits
        /\ job[t].at \in {"push", "reset"} => job[t].commit # None
        /\ job[t].commit # None => job[t].at \in {"push", "reset", "ok", "failed"}
        /\ job[t].at \in {"push", "reset"} /\ job[t].alone =>
              /\ Last(branch).id = job[t].commit /\ job[t].commit \notin Numbers(remote)
              /\ \A u \in Threads \ {t} : ~OnTheWay(u)

History == Log(branch, commits) /\ Log(remote, commits) /\ Forked /\ Claimed /\ \A t \in Threads : Carries(t)

\* Somebody will still stage, or has staged, what the folder says of f.
Pending(f) ==
    \E t \in Threads :
        /\ job[t] # Idle /\ job[t].file = f
        /\ \/ job[t].at \in {"drop backup", "add"}
           \/ job[t].at \in {"diff", "commit"} /\ index[f] = tree[f]

\* As long as no commit and no push has failed.
Smooth ==
    ~failing =>
        /\ \A t \in Threads : job[t].at # "reset"
        /\ (\A t \in Threads : job[t].at # "push") =>
              Numbers(branch) \subseteq Numbers(remote) /\ Tip = Published
        /\ \A f \in Files \ unstaged : tree[f] = Tip[f] \/ Pending(f)

\* The first layer: it holds with failing pushes too.
Sound == TypeOK /\ History /\ PushIsTransaction

-----------------------------------------------------------------------------
(* Logs. *)

Logs == Seq(Commit) \ {<<>>}

\* What a log is made of.
LEMMA LogParts ==
    ASSUME NEW log \in Logs
    PROVE  /\ log \in Seq(Commit)
           /\ Len(log) \in Nat /\ Len(log) >= 1 /\ DOMAIN log = 1 .. Len(log)
           /\ \A i \in 1 .. Len(log) :
                 /\ log[i] \in Commit /\ log[i].id \in Nat /\ log[i].text \in Snapshot
                 /\ log[i].id \in Numbers(log)
           /\ Last(log) \in Commit /\ Last(log) = log[Len(log)] /\ Last(log).text \in Snapshot
  <1>1. /\ log \in Seq(Commit)
        /\ Len(log) \in Nat /\ Len(log) >= 1 /\ DOMAIN log = 1 .. Len(log)
    BY LenProperties, EmptySeq DEF Logs
  <1>2. \A i \in 1 .. Len(log) : log[i] \in Commit
    BY <1>1, ElementOfSeq
  <1>3. \A i \in 1 .. Len(log) :
          log[i].id \in Nat /\ log[i].text \in Snapshot /\ log[i].id \in Numbers(log)
    BY <1>1, <1>2 DEF Commit, Numbers
  <1>4. Last(log) = log[Len(log)] /\ Len(log) \in 1 .. Len(log)
    BY <1>1 DEF Last
  <1> QED
    BY <1>1, <1>2, <1>3, <1>4

\* One more commit.
LEMMA Appended ==
    ASSUME NEW log \in Logs, NEW e \in Commit
    PROVE  /\ Append(log, e) \in Logs
           /\ Len(Append(log, e)) = Len(log) + 1
           /\ DOMAIN Append(log, e) = 1 .. Len(log) + 1
           /\ \A i \in 1 .. Len(log) : Append(log, e)[i] = log[i]
           /\ Append(log, e)[Len(log) + 1] = e
           /\ Last(Append(log, e)) = e
           /\ Numbers(Append(log, e)) = Numbers(log) \cup {e.id}
  <1> DEFINE longer == Append(log, e)
  <1>1. /\ longer \in Seq(Commit) /\ Len(longer) = Len(log) + 1
        /\ \A i \in 1 .. Len(log) : longer[i] = log[i]
        /\ longer[Len(log) + 1] = e
    BY LogParts, AppendProperties
  <1>2. longer \in Logs /\ DOMAIN longer = 1 .. Len(log) + 1
    BY <1>1, LogParts, LenProperties, EmptySeq DEF Logs
  <1>3. Last(longer) = e
    BY <1>1 DEF Last
  <1>4. Numbers(longer) \subseteq Numbers(log) \cup {e.id}
    <2>1. SUFFICES ASSUME NEW i \in 1 .. Len(log) + 1
                   PROVE  longer[i].id \in Numbers(log) \cup {e.id}
      BY <1>2 DEF Numbers
    <2>2. i = Len(log) + 1 \/ i \in 1 .. Len(log)
      BY LogParts
    <2> QED
      BY <2>2, <1>1, LogParts
  <1>5. Numbers(log) \cup {e.id} \subseteq Numbers(longer)
    <2>1. \A i \in DOMAIN log : i \in DOMAIN longer /\ longer[i].id = log[i].id
      BY <1>1, <1>2, LogParts
    <2>2. Len(log) + 1 \in DOMAIN longer
      BY <1>2, LogParts
    <2> QED
      BY <2>1, <2>2, <1>1 DEF Numbers
  <1> QED
    BY <1>1, <1>2, <1>3, <1>4, <1>5

\* reset --soft HEAD~1, where there is a commit before the tip.
LEMMA Fronted ==
    ASSUME NEW log \in Logs, Len(log) > 1
    PROVE  /\ Shortened(log) = Front(log) /\ Shortened(log) \in Logs
           /\ Len(Shortened(log)) = Len(log) - 1
           /\ DOMAIN Shortened(log) = 1 .. Len(log) - 1
           /\ \A i \in 1 .. Len(log) - 1 : Shortened(log)[i] = log[i]
           /\ Numbers(Shortened(log)) = {log[i].id : i \in 1 .. Len(log) - 1}
  <1> DEFINE shorter == SubSeq(log, 1, Len(log) - 1)
  <1>1. Shortened(log) = Front(log) /\ Shortened(log) = shorter
    BY DEF Shortened, Front
  <1>2. Len(log) - 1 \in Nat /\ Len(log) - 1 >= 1 /\ Len(log) - 1 - 1 + 1 = Len(log) - 1
    BY LogParts
  <1>3. \A i \in 1 .. Len(log) - 1 : log[i] \in Commit /\ 1 + i - 1 = i
    BY LogParts
  <1>4. /\ shorter \in Seq(Commit) /\ Len(shorter) = Len(log) - 1
        /\ \A i \in 1 .. Len(log) - 1 : shorter[i] = log[i]
    <2>1. /\ shorter \in Seq(Commit)
          /\ Len(shorter) = IF 1 <= Len(log) - 1 THEN Len(log) - 1 - 1 + 1 ELSE 0
          /\ \A i \in 1 .. Len(log) - 1 - 1 + 1 : shorter[i] = log[1 + i - 1]
      BY <1>2, <1>3, SubSeqProperties
    <2> QED
      BY <2>1, <1>2, <1>3
  <1> HIDE DEF shorter
  <1>5. shorter \in Logs /\ DOMAIN shorter = 1 .. Len(log) - 1
    <2>1. DOMAIN shorter = 1 .. Len(log) - 1
      BY <1>4, LenProperties
    <2>2. shorter # <<>>
      BY <1>2, <1>4, EmptySeq
    <2> QED
      BY <1>4, <2>1, <2>2 DEF Logs
  <1>6. Numbers(shorter) = {log[i].id : i \in 1 .. Len(log) - 1}
    BY <1>4, <1>5 DEF Numbers
  <1> QED
    BY <1>1, <1>4, <1>5, <1>6

\* A log is one for a larger count of commits too.
LEMMA LogGrows ==
    ASSUME NEW log \in Logs, NEW c \in Nat, NEW d \in Nat, c <= d, Log(log, c)
    PROVE  Log(log, d)
  BY LogParts DEF Log

\* No commit has a number that has not been given.
LEMMA NewNumber ==
    ASSUME NEW log \in Logs, NEW c \in Nat, Log(log, c)
    PROVE  \A k \in Numbers(log) : k \in Nat /\ k <= c
  BY LogParts DEF Log, Numbers

\* A new commit makes a log if it changes what it is about, at most.
LEMMA LogAppended ==
    ASSUME NEW log \in Logs, NEW c \in Nat, Log(log, c), NEW e \in Commit, e.id = c + 1,
           \A f \in Files : e.text[f] # Last(log).text[f] => e.about = f
    PROVE  Log(Append(log, e), c + 1)
  <1> DEFINE longer == Append(log, e)
  <1>1. /\ DOMAIN longer = 1 .. Len(log) + 1 /\ longer[Len(log) + 1] = e
        /\ \A i \in 1 .. Len(log) : longer[i] = log[i]
    BY Appended
  <1>2. /\ Len(log) \in Nat /\ Len(log) >= 1 /\ DOMAIN log = 1 .. Len(log)
        /\ \A i \in 1 .. Len(log) : log[i].id \in Nat
        /\ Last(log) = log[Len(log)]
    BY LogParts
  <1>3. \A i \in 1 .. Len(log) + 1 : i = Len(log) + 1 \/ i \in 1 .. Len(log)
    BY <1>2
  <1> HIDE DEF longer
  <1>4. \A i \in DOMAIN longer : longer[i].id <= c + 1
    BY <1>1, <1>2, <1>3 DEF Log
  <1>5. \A i, j \in DOMAIN longer : longer[i].id = longer[j].id => i = j
    <2>1. \A i \in 1 .. Len(log) : longer[i].id # longer[Len(log) + 1].id
      BY <1>1, <1>2 DEF Log
    <2>2. \A i, j \in 1 .. Len(log) : longer[i].id = longer[j].id => i = j
      BY <1>1, <1>2 DEF Log
    <2> QED
      BY <2>1, <2>2, <1>1, <1>3
  <1>6. longer[1].id = 0
    BY <1>1, <1>2 DEF Log
  <1>7. ASSUME NEW i \in DOMAIN longer, NEW f \in Files, i > 1,
               longer[i].text[f] # longer[i - 1].text[f]
        PROVE  longer[i].about = f
    <2>1. CASE i = Len(log) + 1
      <3>1. longer[i - 1] = Last(log)
        BY <2>1, <1>1, <1>2
      <3> QED
        BY <3>1, <2>1, <1>1, <1>7
    <2>2. CASE i \in 1 .. Len(log)
      <3>1. longer[i] = log[i] /\ longer[i - 1] = log[i - 1]
        BY <2>2, <1>1, <1>2, <1>7
      <3> QED
        BY <3>1, <2>2, <1>2, <1>7 DEF Log
    <2> QED
      BY <2>1, <2>2, <1>1, <1>3
  <1>8. Log(longer, c + 1)
    BY <1>4, <1>5, <1>6, <1>7 DEF Log
  <1> QED
    BY <1>8 DEF longer

\* What is left of a log without its tip is a log, and the tip's number is gone from it.
LEMMA LogFronted ==
    ASSUME NEW log \in Logs, NEW c \in Nat, Log(log, c), Len(log) > 1
    PROVE  /\ Log(Shortened(log), c)
           /\ Numbers(Shortened(log)) \subseteq Numbers(log)
           /\ Last(log).id \notin Numbers(Shortened(log))
  <1> DEFINE shorter == Shortened(log)
  <1>1. /\ DOMAIN shorter = 1 .. Len(log) - 1
        /\ \A i \in 1 .. Len(log) - 1 : shorter[i] = log[i]
        /\ Numbers(shorter) = {log[i].id : i \in 1 .. Len(log) - 1}
    BY Fronted
  <1>2. /\ Len(log) \in Nat /\ DOMAIN log = 1 .. Len(log) /\ Last(log) = log[Len(log)]
        /\ \A i \in 1 .. Len(log) : log[i].id \in Numbers(log)
    BY LogParts
  <1>3. \A i \in 1 .. Len(log) - 1 : i \in 1 .. Len(log) /\ i # Len(log)
                                     /\ (i > 1 => i - 1 \in 1 .. Len(log) - 1)
    <2>1. Len(log) \in Nat
      BY <1>2
    <2> QED
      BY <2>1
  <1> HIDE DEF shorter
  <1>4. Numbers(shorter) \subseteq Numbers(log)
    BY <1>1, <1>2, <1>3
  <1>5. Last(log).id \notin Numbers(shorter)
    <2>1. Len(log) \in DOMAIN log
      BY <1>2
    <2>2. \A i \in 1 .. Len(log) - 1 : log[i].id # log[Len(log)].id
      BY <2>1, <1>2, <1>3 DEF Log
    <2> QED
      BY <2>2, <1>1, <1>2
  <1>6. /\ \A i \in DOMAIN shorter : shorter[i].id <= c
        /\ \A i, j \in DOMAIN shorter : shorter[i].id = shorter[j].id => i = j
    <2>1. \A i \in DOMAIN shorter : i \in DOMAIN log /\ shorter[i] = log[i]
      BY <1>1, <1>2, <1>3
    <2>2. \A i \in DOMAIN log : log[i].id <= c
      BY DEF Log
    <2>3. \A i, j \in DOMAIN log : log[i].id = log[j].id => i = j
      BY DEF Log
    <2>4. \A i \in DOMAIN shorter : shorter[i].id <= c
      BY <2>1, <2>2
    <2>5. \A i, j \in DOMAIN shorter : shorter[i].id = shorter[j].id => i = j
      BY <2>1, <2>3
    <2> QED
      BY <2>4, <2>5
  <1>7. shorter[1].id = 0
    BY <1>1, <1>2 DEF Log
  <1>8. \A i \in DOMAIN shorter : \A f \in Files :
          i > 1 /\ shorter[i].text[f] # shorter[i - 1].text[f] => shorter[i].about = f
    BY <1>1, <1>2, <1>3 DEF Log
  <1>9. Log(shorter, c)
    BY <1>6, <1>7, <1>8 DEF Log
  <1> QED
    BY <1>4, <1>5, <1>9 DEF shorter

\* What IsPrefix says.
LEMMA PrefixParts ==
    ASSUME NEW old \in Logs, NEW new \in Logs, IsPrefix(old, new)
    PROVE  /\ Len(old) <= Len(new)
           /\ \A i \in 1 .. Len(old) : old[i] = new[i]
           /\ Numbers(old) \subseteq Numbers(new)
  <1>1. /\ Len(old) \in Nat /\ Len(new) \in Nat
        /\ DOMAIN old = 1 .. Len(old) /\ DOMAIN new = 1 .. Len(new)
    BY LogParts
  <1>2. Len(old) <= Len(new) /\ SubSeq(old, 1, Len(old)) = SubSeq(new, 1, Len(old))
    BY DEF IsPrefix
  <1>3. \A i \in 1 .. Len(old) : /\ i \in 1 .. Len(new) /\ 1 + i - 1 = i
                                 /\ i \in 1 .. Len(old) - 1 + 1
    BY <1>1, <1>2
  <1>4. \A i \in 1 .. Len(old) : old[i] \in Commit /\ new[i] \in Commit
    BY <1>3, LogParts
  <1>5. \A i \in 1 .. Len(old) - 1 + 1 : SubSeq(old, 1, Len(old))[i] = old[1 + i - 1]
    BY <1>1, <1>4, SubSeqProperties
  <1>6. \A i \in 1 .. Len(old) - 1 + 1 : SubSeq(new, 1, Len(old))[i] = new[1 + i - 1]
    BY <1>1, <1>4, SubSeqProperties
  <1>7. \A i \in 1 .. Len(old) : old[i] = new[i]
    BY <1>2, <1>3, <1>5, <1>6
  <1>8. Numbers(old) \subseteq Numbers(new)
    BY <1>1, <1>3, <1>7 DEF Numbers
  <1> QED
    BY <1>2, <1>7, <1>8

-----------------------------------------------------------------------------
(* Where the branch forks from the remote. *)

\* A new commit of the branch.
LEMMA ForkedAppended ==
    ASSUME NEW mine \in Logs, NEW theirs \in Logs, NEW n \in Nat, ForkedAt(mine, theirs, n),
           NEW e \in Commit, e.id \notin Numbers(theirs)
    PROVE  ForkedAt(Append(mine, e), theirs, n)
  <1> DEFINE longer == Append(mine, e)
  <1>1. /\ Len(longer) = Len(mine) + 1 /\ DOMAIN longer = 1 .. Len(mine) + 1
        /\ longer[Len(mine) + 1] = e
        /\ \A i \in 1 .. Len(mine) : longer[i] = mine[i]
    BY Appended
  <1>2. Len(mine) \in Nat /\ DOMAIN mine = 1 .. Len(mine)
    BY LogParts
  <1>3. \A i \in 1 .. Len(mine) + 1 : i = Len(mine) + 1 \/ i \in 1 .. Len(mine)
    BY <1>2
  <1> HIDE DEF longer
  <1>4. \A i \in 1 .. n : i \in 1 .. Len(mine)
    BY <1>2 DEF ForkedAt
  <1>5. n \in 0 .. Len(longer) /\ n <= Len(theirs)
    BY <1>1, <1>2 DEF ForkedAt
  <1>6. \A i \in DOMAIN longer : i > n => longer[i].id \notin Numbers(theirs)
    BY <1>1, <1>2, <1>3 DEF ForkedAt
  <1>7. ForkedAt(longer, theirs, n)
    BY <1>1, <1>4, <1>5, <1>6 DEF ForkedAt
  <1> QED
    BY <1>7 DEF longer

\* The tip of the branch is dropped.
LEMMA ForkedFronted ==
    ASSUME NEW mine \in Logs, NEW theirs \in Logs, NEW n \in Nat, ForkedAt(mine, theirs, n),
           Len(mine) > 1
    PROVE  \E m \in Nat : ForkedAt(Shortened(mine), theirs, m)
  <1> DEFINE shorter == Shortened(mine)
             m == IF n <= Len(mine) - 1 THEN n ELSE Len(mine) - 1
  <1>1. /\ Len(shorter) = Len(mine) - 1 /\ DOMAIN shorter = 1 .. Len(mine) - 1
        /\ \A i \in 1 .. Len(mine) - 1 : shorter[i] = mine[i]
    BY Fronted
  <1>2. Len(mine) \in Nat /\ DOMAIN mine = 1 .. Len(mine)
    BY LogParts
  <1> HIDE DEF shorter
  <1>3. m \in Nat /\ m \in 0 .. Len(shorter) /\ m <= n
    BY <1>1, <1>2 DEF ForkedAt
  <1>4. \A i \in 1 .. m : i \in 1 .. n /\ i \in 1 .. Len(mine) - 1
    BY <1>1, <1>2, <1>3
  <1>5. \A i \in DOMAIN shorter : i > m => i > n /\ i \in 1 .. Len(mine) /\ shorter[i] = mine[i]
    BY <1>1, <1>2
  <1>6. m <= Len(theirs)
    BY <1>2, <1>3, LogParts DEF ForkedAt
  <1> HIDE DEF m
  <1>7. ForkedAt(shorter, theirs, m)
    BY <1>1, <1>2, <1>3, <1>4, <1>5, <1>6 DEF ForkedAt
  <1> QED
    BY <1>3, <1>7 DEF shorter

\* A new commit of the remote.
LEMMA ForkedMoved ==
    ASSUME NEW mine \in Logs, NEW theirs \in Logs, NEW n \in Nat, ForkedAt(mine, theirs, n),
           NEW e \in Commit, e.id \notin Numbers(mine)
    PROVE  ForkedAt(mine, Append(theirs, e), n)
  <1> DEFINE longer == Append(theirs, e)
  <1>1. /\ Len(longer) = Len(theirs) + 1
        /\ \A i \in 1 .. Len(theirs) : longer[i] = theirs[i]
        /\ Numbers(longer) = Numbers(theirs) \cup {e.id}
    BY Appended
  <1>2. /\ Len(mine) \in Nat /\ Len(theirs) \in Nat /\ DOMAIN mine = 1 .. Len(mine)
        /\ \A i \in 1 .. Len(mine) : mine[i].id \in Numbers(mine)
    BY LogParts
  <1> HIDE DEF longer
  <1>3. \A i \in 1 .. n : i \in 1 .. Len(theirs)
    BY <1>2 DEF ForkedAt
  <1>4. n <= Len(longer)
    BY <1>1, <1>2 DEF ForkedAt
  <1>5. \A i \in DOMAIN mine : i > n => mine[i].id \notin Numbers(longer)
    BY <1>1, <1>2 DEF ForkedAt
  <1>6. ForkedAt(mine, longer, n)
    BY <1>1, <1>3, <1>4, <1>5 DEF ForkedAt
  <1> QED
    BY <1>6 DEF longer

\* A branch that is the remote's has nothing of its own.
LEMMA ForkedNot ==
    ASSUME NEW log \in Logs
    PROVE  \E n \in Nat : ForkedAt(log, log, n)
  <1>1. Len(log) \in Nat /\ DOMAIN log = 1 .. Len(log)
    BY LogParts
  <1>2. ForkedAt(log, log, Len(log))
    BY <1>1 DEF ForkedAt
  <1> QED
    BY <1>1, <1>2

-----------------------------------------------------------------------------
(* Rebase. *)

\* A set of numbers has a least one.
LEMMA Least ==
    ASSUME NEW T, T \subseteq Nat, T # {}
    PROVE  \E j \in T : \A k \in T : j <= k
  <1>1. PICK j \in T : \A k \in T : ~ (<<k, j>> \in OpToRel(<, Nat))
    BY WFMin, NatLessThanWellFounded
  <1>2. \A k \in T : ~ (k < j)
    BY <1>1 DEF OpToRel
  <1> QED
    BY <1>2

\* A bounded one has a greatest.
LEMMA Greatest ==
    ASSUME NEW n \in Nat, NEW T, T \subseteq 1 .. n, T # {}
    PROVE  \E j \in T : \A k \in T : k <= j
  <1> DEFINE D == {n - j : j \in T}
  <1>1. D \subseteq Nat /\ D # {}
    <2>1. \A j \in T : n - j \in Nat
      OBVIOUS
    <2>2. PICK j \in T : TRUE
      OBVIOUS
    <2>3. n - j \in D
      BY <2>2
    <2> QED
      BY <2>1, <2>3
  <1>2. PICK d \in D : \A e \in D : d <= e
    BY <1>1, Least
  <1>3. PICK j \in T : d = n - j
    OBVIOUS
  <1>4. \A k \in T : n - j <= n - k
    BY <1>2, <1>3
  <1> HIDE DEF D
  <1>5. ASSUME NEW k \in T PROVE k <= j
    <2>1. k \in Nat /\ j \in Nat
      OBVIOUS
    <2>2. n - j <= n - k
      BY <1>4
    <2> QED
      BY <2>1, <2>2
  <1> QED
    BY <1>5

\* The fork is the number that Shared chooses.
LEMMA SharedIsFork ==
    ASSUME branch \in Logs, remote \in Logs, NEW n \in Nat, ForkedAt(branch, remote, n)
    PROVE  Shared = n
  <1>1. /\ Len(branch) \in Nat /\ DOMAIN branch = 1 .. Len(branch)
        /\ Len(remote) \in Nat /\ \A i \in 1 .. Len(remote) : remote[i].id \in Numbers(remote)
    BY LogParts
  <1>2. n \in 0 .. Len(branch) /\ n <= Len(remote)
    BY DEF ForkedAt
  <1>3. ASSUME NEW i \in DOMAIN branch
        PROVE  branch[i].id \in Numbers(remote) <=> i <= n
    <2>1. CASE i <= n
      <3>1. i \in 1 .. n /\ i \in 1 .. Len(remote)
        BY <2>1, <1>1, <1>2
      <3>2. branch[i] = remote[i]
        BY <3>1 DEF ForkedAt
      <3> QED
        BY <2>1, <3>1, <3>2, <1>1
    <2>2. CASE ~(i <= n)
      <3>1. i > n
        BY <2>2, <1>1, <1>2
      <3> QED
        BY <2>2, <3>1 DEF ForkedAt
    <2> QED
      BY <2>1, <2>2
  <1> DEFINE Splits(m) == \A i \in DOMAIN branch : branch[i].id \in Numbers(remote) <=> i <= m
  <1>4. Splits(n)
    BY <1>3
  <1>5. Shared = CHOOSE m \in 0 .. Len(branch) : Splits(m)
    BY DEF Shared
  <1>6. Shared \in 0 .. Len(branch) /\ Splits(Shared)
    <2> HIDE DEF Splits
    <2> QED
      BY <1>2, <1>4, <1>5
  <1>7. \A i \in 1 .. Len(branch) : i <= n <=> i <= Shared
    BY <1>1, <1>4, <1>6
  <1> HIDE DEF Splits
  <1>8. ~(n < Shared)
    <2>1. ASSUME n < Shared PROVE FALSE
      <3>1. Shared \in 1 .. Len(branch)
        BY <2>1, <1>1, <1>2, <1>6
      <3> QED
        BY <3>1, <2>1, <1>2, <1>6, <1>7
    <2> QED
      BY <2>1
  <1>9. ~(Shared < n)
    <2>1. ASSUME Shared < n PROVE FALSE
      <3>1. n \in 1 .. Len(branch)
        BY <2>1, <1>1, <1>2, <1>6
      <3> QED
        BY <3>1, <2>1, <1>2, <1>6, <1>7
    <2> QED
      BY <2>1
  <1>10. n \in Int /\ Shared \in Int
    BY <1>1, <1>2, <1>6
  <1> QED
    BY <1>8, <1>9, <1>10

\* A replayed commit has a text for each file: one of the branch's, or the remote's.
LEMMA ReplayedIsText ==
    ASSUME branch \in Logs, remote \in Logs, Shared \in Nat,
           NEW i \in Nat, Shared + i <= Len(branch), NEW f \in Files
    PROVE  Replayed(i, f) \in 0 .. MaxOps
  <1> DEFINE about == {j \in Shared + 1 .. Shared + i : branch[j].about = f}
  <1>1. Replayed(i, f) = IF about = {} THEN Published[f]
                         ELSE branch[CHOOSE j \in about : \A k \in about : k <= j].text[f]
    BY DEF Replayed
  <1>2. Published[f] \in 0 .. MaxOps
    BY LogParts DEF Published, Snapshot
  <1>3. CASE about = {}
    BY <1>1, <1>2, <1>3
  <1>4. CASE about # {}
    <2>1. Len(branch) \in Nat
      BY LogParts
    <2>2. about \subseteq 1 .. Len(branch)
      BY <2>1
    <2>3. \E j \in about : \A k \in about : k <= j
      <3> HIDE DEF about
      <3> QED
        BY <1>4, <2>1, <2>2, Greatest
    <2>4. PICK j \in about : Replayed(i, f) = branch[j].text[f]
      <3> HIDE DEF about
      <3> QED
        BY <1>1, <1>4, <2>3
    <2>5. j \in 1 .. Len(branch)
      BY <2>2
    <2>6. branch[j].text \in Snapshot
      BY <2>5, LogParts
    <2> QED
      BY <2>4, <2>6 DEF Snapshot
  <1> QED
    BY <1>3, <1>4

\* Before the first replayed commit the text is the remote's.
LEMMA ReplayedNone ==
    ASSUME Shared \in Nat, NEW f \in Files
    PROVE  Replayed(0, f) = Published[f]
  <1>1. {j \in Shared + 1 .. Shared + 0 : branch[j].about = f} = {}
    OBVIOUS
  <1> QED
    BY <1>1 DEF Replayed

\* A replayed commit changes what it is about, at most.
LEMMA ReplayedSame ==
    ASSUME Shared \in Nat, NEW i \in Nat, i >= 1, NEW f \in Files,
           branch[Shared + i].about # f
    PROVE  Replayed(i, f) = Replayed(i - 1, f)
  <1>1. {j \in Shared + 1 .. Shared + i : branch[j].about = f}
          = {j \in Shared + 1 .. Shared + (i - 1) : branch[j].about = f}
    <2>1. \A j \in Shared + 1 .. Shared + i :
            j = Shared + i \/ j \in Shared + 1 .. Shared + (i - 1)
      OBVIOUS
    <2>2. \A j \in Shared + 1 .. Shared + (i - 1) : j \in Shared + 1 .. Shared + i
      OBVIOUS
    <2> QED
      BY <2>1, <2>2
  <1> DEFINE about(m) == {j \in Shared + 1 .. Shared + m : branch[j].about = f}
             text(js) == IF js = {} THEN Published[f]
                         ELSE branch[CHOOSE j \in js : \A k \in js : k <= j].text[f]
  <1>2. about(i) = about(i - 1)
    BY <1>1
  <1>3. Replayed(i, f) = text(about(i)) /\ Replayed(i - 1, f) = text(about(i - 1))
    BY DEF Replayed
  <1> HIDE DEF about, text
  <1> QED
    BY <1>2, <1>3

\* The branch after the rebase: the remote's commits, then its own ones, each with its number.
LEMMA Rebased ==
    ASSUME branch \in Logs, remote \in Logs, commits \in Nat,
           Log(branch, commits), Log(remote, commits),
           NEW n \in Nat, ForkedAt(branch, remote, n),
           Rebase
    PROVE  /\ branch' \in Logs /\ Log(branch', commits)
           /\ \E m \in Nat : ForkedAt(branch', remote, m)
           /\ Numbers(branch') \subseteq Numbers(remote) \cup Numbers(branch)
           /\ Numbers(branch) \subseteq Numbers(remote) => branch' = remote
  <1> DEFINE L == Len(remote)
             K == Len(branch) - n
             own == [i \in 1 .. K |->
                       [branch[n + i] EXCEPT !.text = [f \in Files |-> Replayed(i, f)]]]
             new == remote \o own
  <1>1. Shared = n
    BY SharedIsFork
  <1>2. branch' = new
    BY <1>1 DEF Rebase
  <1>3. /\ Len(branch) \in Nat /\ DOMAIN branch = 1 .. Len(branch)
        /\ L \in Nat /\ L >= 1 /\ L = Len(remote) /\ DOMAIN remote = 1 .. L
    BY LogParts
  <1>4. n \in 0 .. Len(branch) /\ n <= L /\ K \in Nat /\ n + K = Len(branch)
    BY <1>3 DEF ForkedAt
  <1>5. \A i \in 1 .. K : n + i \in 1 .. Len(branch) /\ n + i > n /\ i \in Nat /\ i >= 1
                          /\ n + i <= Len(branch)
    BY <1>3, <1>4
  <1> HIDE DEF L, K
  <1>6. ASSUME NEW i \in 1 .. K
        PROVE  /\ own[i] \in Commit /\ own[i].id = branch[n + i].id
               /\ own[i].about = branch[n + i].about
               /\ own[i].text = [f \in Files |-> Replayed(i, f)]
    <2>1. branch[n + i] \in Commit
      BY <1>5, LogParts
    <2>2. \A f \in Files : Replayed(i, f) \in 0 .. MaxOps
      BY <1>1, <1>5, ReplayedIsText
    <2>3. [f \in Files |-> Replayed(i, f)] \in Snapshot
      BY <2>2 DEF Snapshot
    <2>4. own[i] = [branch[n + i] EXCEPT !.text = [f \in Files |-> Replayed(i, f)]]
      OBVIOUS
    <2> HIDE DEF own
    <2> QED
      BY <2>1, <2>3, <2>4 DEF Commit
  <1>7. own \in Seq(Commit) /\ Len(own) = K
    <2>1. own \in [1 .. K -> Commit]
      BY <1>6
    <2> HIDE DEF own
    <2> QED
      BY <2>1, <1>4
  <1> HIDE DEF own
  <1>8. \A i \in 1 .. K : \A f \in Files : own[i].text[f] = Replayed(i, f)
    BY <1>6
  <1>9. /\ new \in Seq(Commit) /\ Len(new) = L + K
        /\ \A i \in 1 .. L : new[i] = remote[i]
        /\ \A i \in 1 .. K : new[L + i] = own[i]
    <2>1. remote \in Seq(Commit)
      BY LogParts
    <2>2. /\ new \in Seq(Commit) /\ Len(new) = L + K
          /\ \A i \in 1 .. L + K : new[i] = IF i <= L THEN remote[i] ELSE own[i - L]
      BY <2>1, <1>7, <1>3, ConcatProperties
    <2>3. \A i \in 1 .. L : i \in 1 .. L + K /\ i <= L
      BY <1>3, <1>4
    <2>4. \A i \in 1 .. K : L + i \in 1 .. L + K /\ ~(L + i <= L) /\ L + i - L = i
      BY <1>3, <1>4
    <2> HIDE DEF new
    <2>5. \A i \in 1 .. L : new[i] = remote[i]
      BY <2>2, <2>3
    <2>6. ASSUME NEW i \in 1 .. K PROVE new[L + i] = own[i]
      <3>1. new[L + i] = own[(L + i) - L]
        BY <2>2, <2>4
      <3>2. (L + i) - L = i
        BY <1>3
      <3> QED
        BY <3>1, <3>2
    <2> QED
      BY <2>2, <2>5, <2>6
  <1> HIDE DEF new
  <1>10. new \in Logs /\ DOMAIN new = 1 .. L + K
    <2>1. DOMAIN new = 1 .. L + K
      BY <1>9, LenProperties
    <2>2. new # <<>>
      BY <1>3, <1>4, <1>9, EmptySeq
    <2> QED
      BY <1>9, <2>1, <2>2 DEF Logs
  <1>11. \A i \in 1 .. L + K : i \in 1 .. L \/ \E k \in 1 .. K : i = L + k
    <2>1. \A i \in 1 .. L + K : i \in 1 .. L \/ (i - L \in 1 .. K /\ i = L + (i - L))
      BY <1>3, <1>4
    <2> QED
      BY <2>1
  <1>12. \A k \in 1 .. K : new[L + k].id = branch[n + k].id
    BY <1>6, <1>9
  <1>13. \A k \in 1 .. K : branch[n + k].id \notin Numbers(remote)
                            /\ branch[n + k].id \in Numbers(branch)
    BY <1>3, <1>5, LogParts DEF ForkedAt
  <1>14. \A i \in 1 .. L : remote[i].id \in Numbers(remote)
    BY <1>3, LogParts
  <1>15. Numbers(new) \subseteq Numbers(remote) \cup Numbers(branch)
    <2>1. SUFFICES ASSUME NEW i \in 1 .. L + K
                   PROVE  new[i].id \in Numbers(remote) \cup Numbers(branch)
      BY <1>10 DEF Numbers
    <2>2. CASE i \in 1 .. L
      BY <2>2, <1>9, <1>14
    <2>3. CASE \E k \in 1 .. K : i = L + k
      BY <2>3, <1>12, <1>13
    <2> QED
      BY <2>2, <2>3, <1>11
  <1>16. ForkedAt(new, remote, L)
    <2>1. L \in 0 .. Len(new) /\ L <= Len(remote)
      BY <1>3, <1>4, <1>9
    <2>2. ASSUME NEW i \in 1 .. L + K, i > L
          PROVE  new[i].id \notin Numbers(remote)
      <3>1. ~(i \in 1 .. L)
        BY <2>2, <1>3
      <3> QED
        BY <3>1, <1>11, <1>12, <1>13
    <2> QED
      BY <2>1, <2>2, <1>9, <1>10 DEF ForkedAt
  <1>17. ASSUME Numbers(branch) \subseteq Numbers(remote) PROVE new = remote
    <2>1. K = 0
      <3>1. ASSUME K # 0 PROVE FALSE
        <4>1. 1 \in 1 .. K
          BY <3>1, <1>4
        <4> QED
          BY <4>1, <1>13, <1>17
      <3> QED
        BY <3>1
    <2>2. own = <<>>
      BY <2>1, <1>7, EmptySeq
    <2> QED
      BY <2>2, LogParts, ConcatEmptySeq DEF new
  <1>18. \A i \in DOMAIN new : new[i].id <= commits
    <2>1. \A k \in Numbers(new) : k <= commits
      BY <1>15, NewNumber
    <2> QED
      BY <2>1 DEF Numbers
  <1>19. \A i, j \in DOMAIN new : new[i].id = new[j].id => i = j
    <2>1. SUFFICES ASSUME NEW i \in 1 .. L + K, NEW j \in 1 .. L + K, new[i].id = new[j].id
                   PROVE  i = j
      BY <1>10
    <2>2. CASE i \in 1 .. L /\ j \in 1 .. L
      BY <2>1, <2>2, <1>3, <1>9 DEF Log
    <2>3. ASSUME NEW l \in 1 .. L, NEW k \in 1 .. K PROVE new[l].id # new[L + k].id
      BY <1>9, <1>12, <1>13, <1>14
    <2>4. (i \in 1 .. L /\ j \in 1 .. L) \/ (\E k, l \in 1 .. K : i = L + k /\ j = L + l)
      BY <2>1, <2>3, <1>11
    <2>5. ASSUME NEW k \in 1 .. K, NEW l \in 1 .. K, i = L + k, j = L + l PROVE i = j
      <3>1. branch[n + k].id = branch[n + l].id
        BY <2>1, <2>5, <1>12
      <3>2. n + k = n + l
        BY <3>1, <1>3, <1>5 DEF Log
      <3> QED
        BY <3>2, <2>5, <1>4
    <2> QED
      BY <2>2, <2>4, <2>5
  <1>20. new[1].id = 0
    BY <1>3, <1>9 DEF Log
  <1>21. ASSUME NEW i \in 1 .. L + K, NEW f \in Files, i > 1,
                new[i].text[f] # new[i - 1].text[f]
         PROVE  new[i].about = f
    <2>1. CASE i \in 1 .. L
      <3>1. i - 1 \in 1 .. L
        BY <2>1, <1>3, <1>21
      <3>2. new[i] = remote[i] /\ new[i - 1] = remote[i - 1]
        BY <2>1, <3>1, <1>9
      <3>3. i \in DOMAIN remote
        BY <2>1, <1>3
      <3> QED
        BY <3>2, <3>3, <1>21 DEF Log
    <2>2. ASSUME NEW k \in 1 .. K, i = L + k PROVE new[i].about = f
      <3>1. new[i].about = branch[n + k].about /\ new[i].text[f] = Replayed(k, f)
        BY <2>2, <1>6, <1>8, <1>9
      <3>2. new[i - 1].text[f] = Replayed(k - 1, f)
        <4>1. CASE k = 1
          <5>1. i - 1 = L /\ L \in 1 .. L /\ k - 1 = 0
            BY <4>1, <2>2, <1>3
          <5>2. new[i - 1].text[f] = Published[f]
            BY <5>1, <1>3, <1>9 DEF Published, Last
          <5> QED
            BY <5>1, <5>2, <1>1, ReplayedNone
        <4>2. CASE k # 1
          <5>1. k - 1 \in 1 .. K /\ i - 1 = L + (k - 1)
            BY <4>2, <2>2, <1>3, <1>4
          <5> QED
            BY <5>1, <1>8, <1>9
        <4> QED
          BY <4>1, <4>2
      <3> QED
        BY <3>1, <3>2, <1>1, <1>5, <1>21, ReplayedSame
    <2> QED
      BY <2>1, <2>2, <1>11
  <1>22. Log(new, commits)
    BY <1>10, <1>18, <1>19, <1>20, <1>21 DEF Log
  <1> QED
    BY <1>2, <1>3, <1>10, <1>15, <1>16, <1>17, <1>22

-----------------------------------------------------------------------------
(* Types. *)

\* What the type invariant says of a thread.
LEMMA JobParts ==
    ASSUME TypeOK, NEW t \in Threads
    PROVE  /\ job[t] = Idle => job[t].at = "idle"
           /\ job[t] # Idle => /\ job[t] \in Job /\ job[t].at \in Stages /\ job[t].file \in Files
                               /\ job[t].commit \in Nat /\ job[t].alone \in BOOLEAN
                               /\ job[t].text \in 0 .. MaxOps /\ job[t].at # "idle"
           /\ job[t].at # "idle" => job[t] # Idle
  <1>1. job[t] \in Job \cup {Idle}
    BY DEF TypeOK
  <1>2. job[t] = Idle => job[t].at = "idle"
    BY DEF Idle
  <1>3. ASSUME job[t] # Idle
        PROVE  /\ job[t] \in Job /\ job[t].at \in Stages /\ job[t].file \in Files
               /\ job[t].commit \in Nat /\ job[t].alone \in BOOLEAN
               /\ job[t].text \in 0 .. MaxOps /\ job[t].at # "idle"
    <2>1. job[t] \in Job
      BY <1>1, <1>3
    <2> QED
      BY <2>1 DEF Job, Stages
  <1> QED
    BY <1>2, <1>3

\* A step that only moves a thread to another stage.
LEMMA GoesTo ==
    ASSUME TypeOK, NEW t \in Threads, job[t] # Idle, NEW stage \in Stages, Goes(t, stage)
    PROVE  /\ job' \in [Threads -> Job \cup {Idle}]
           /\ \A u \in Threads \ {t} : job'[u] = job[u]
           /\ job'[t] # Idle /\ job'[t].at = stage
           /\ job'[t].op = job[t].op /\ job'[t].file = job[t].file
           /\ job'[t].commit = job[t].commit /\ job'[t].alone = job[t].alone
  <1>1. job[t] \in Job
    BY JobParts
  <1>2. job \in [Threads -> Job \cup {Idle}]
    BY DEF TypeOK
  <1>3. job' = [job EXCEPT ![t] = [job[t] EXCEPT !.at = stage]]
    BY <1>2 DEF Goes
  <1> DEFINE next == [job[t] EXCEPT !.at = stage]
  <1>4. /\ next \in Job /\ next.at = stage /\ next.op = job[t].op /\ next.file = job[t].file
        /\ next.commit = job[t].commit /\ next.alone = job[t].alone
    BY <1>1 DEF Job
  <1>5. next # Idle
    BY <1>4 DEF Idle, Stages
  <1> HIDE DEF next
  <1>6. job' = [job EXCEPT ![t] = next]
    BY <1>3 DEF next
  <1>7. job'[t] = next
    BY <1>2, <1>6
  <1> QED
    BY <1>2, <1>4, <1>5, <1>6, <1>7

\* A request takes a thread that does nothing.
LEMMA Begins ==
    ASSUME TypeOK, NEW t \in Threads, NEW f \in Files, NEW first \in Stages,
           NEW op \in {"deploy", "undeploy", "rollback"}, Request(t, op, f, first)
    PROVE  /\ TypeOK'
           /\ \A u \in Threads \ {t} : job'[u] = job[u]
           /\ job[t] = Idle /\ job'[t] # Idle /\ job'[t].at = first /\ job'[t].commit = None
           /\ UNCHANGED <<tree, bak, index, branch, remote, commits, failing, stranded, unstaged>>
  <1> DEFINE next == [op |-> op, at |-> first, file |-> f, text |-> ops + 1,
                      commit |-> None, alone |-> TRUE]
  <1>1. /\ job \in [Threads -> Job \cup {Idle}] /\ ops \in 0 .. MaxOps
        /\ MaxOps \in Nat /\ job[t] = Idle /\ ops < MaxOps /\ ops' = ops + 1
        /\ job' = [job EXCEPT ![t] = next]
        /\ UNCHANGED <<files, repo, faults, locks, pushes>>
    BY GitAssumption DEF TypeOK, Request
  <1>2. ops + 1 \in 0 .. MaxOps
    BY <1>1
  <1>3. next \in Job /\ next.at = first /\ next.commit = None
    BY <1>2 DEF Job, None
  <1>4. next # Idle
    BY <1>3 DEF Idle, Stages
  <1> HIDE DEF next
  <1>5. /\ job' \in [Threads -> Job \cup {Idle}] /\ job'[t] = next
        /\ \A u \in Threads \ {t} : job'[u] = job[u]
    BY <1>1, <1>3
  <1>6. UNCHANGED <<tree, bak, index, branch, remote, commits, failing, stranded, unstaged>>
    BY <1>1 DEF files, repo
  <1>7. TypeOK'
    BY <1>1, <1>2, <1>5, <1>6 DEF TypeOK
  <1> QED
    BY <1>1, <1>3, <1>4, <1>5, <1>6, <1>7

Requests(t) == \E f \in Files : Deploy(t, f) \/ Undeploy(t, f) \/ Rollback(t, f)

\* A request begins at a stage where nothing is on the way.
LEMMA RequestBegins ==
    ASSUME TypeOK, NEW t \in Threads, Requests(t)
    PROVE  /\ TypeOK'
           /\ \A u \in Threads \ {t} : job'[u] = job[u]
           /\ job[t] = Idle /\ job'[t] # Idle /\ job'[t].commit = None
           /\ job'[t].at \in {"back up", "ok", "remove", "put back"}
           /\ UNCHANGED <<tree, bak, index, branch, remote, commits, failing, stranded, unstaged>>
  <1>1. PICK f \in Files : Deploy(t, f) \/ Undeploy(t, f) \/ Rollback(t, f)
    BY DEF Requests
  <1>2. "back up" \in Stages /\ "ok" \in Stages /\ "remove" \in Stages /\ "put back" \in Stages
    BY DEF Stages
  <1>3. CASE Deploy(t, f)
    <2>1. Request(t, "deploy", f, "back up")
      BY <1>3 DEF Deploy
    <2> QED
      BY <2>1, <1>2, Begins
  <1>4. CASE Undeploy(t, f)
    <2>1. PICK first \in {"ok", "remove"} : Request(t, "undeploy", f, first)
      BY <1>4 DEF Undeploy
    <2>2. first \in Stages
      BY <1>2
    <2> QED
      BY <2>1, <2>2, Begins
  <1>5. CASE Rollback(t, f)
    <2>1. PICK first \in {"ok", "put back"} : Request(t, "rollback", f, first)
      BY <1>5 DEF Rollback
    <2>2. first \in Stages
      BY <1>2
    <2> QED
      BY <2>1, <2>2, Begins
  <1> QED
    BY <1>1, <1>3, <1>4, <1>5

\* The answer gives the thread back.
LEMMA AnswerEnds ==
    ASSUME TypeOK, NEW t \in Threads, Answer(t)
    PROVE  /\ TypeOK'
           /\ \A u \in Threads \ {t} : job'[u] = job[u]
           /\ job[t] # Idle /\ job[t].at \in {"ok", "failed"} /\ job'[t] = Idle
           /\ UNCHANGED <<tree, bak, index, branch, remote, commits, failing, stranded, unstaged>>
  <1>1. /\ job \in [Threads -> Job \cup {Idle}] /\ job' = [job EXCEPT ![t] = Idle]
        /\ UNCHANGED <<files, repo, bounds>>
    BY DEF TypeOK, Answer
  <1>2. UNCHANGED <<tree, bak, index, branch, remote, commits, failing, stranded, unstaged, ops, faults, locks, pushes>>
    BY <1>1 DEF files, repo, bounds
  <1>3. /\ job' \in [Threads -> Job \cup {Idle}] /\ job'[t] = Idle
        /\ \A u \in Threads \ {t} : job'[u] = job[u]
    BY <1>1
  <1>4. TypeOK'
    BY <1>2, <1>3 DEF TypeOK
  <1> QED
    BY <1>2, <1>3, <1>4 DEF Answer

\* The steps on the folder and the index, up to the commit.
Folder(t) == BackUp(t) \/ Replace(t) \/ Unlink(t) \/ PutBack(t) \/ DropBackup(t) \/ Add(t) \/ Diff(t)

Early == {"back up", "replace", "remove", "drop backup", "put back", "add", "diff", "commit"}

\* A step on the folder keeps the types, and leaves the history alone.
LEMMA FolderParts ==
    ASSUME TypeOK, NEW t \in Threads, Folder(t)
    PROVE  /\ TypeOK'
           /\ \A u \in Threads \ {t} : job'[u] = job[u]
           /\ job[t] # Idle /\ job[t].at \in Early
           /\ job'[t] # Idle /\ job'[t].at \in Early \cup {"ok", "failed"}
           /\ job'[t].commit = job[t].commit /\ job'[t].file = job[t].file
           /\ UNCHANGED <<branch, remote, commits, failing, stranded, ops, faults, locks, pushes>>
           /\ unstaged \subseteq unstaged' \cup {job[t].file} /\ (~Add(t) => unstaged' = unstaged)
  <1>1. /\ tree \in Snapshot /\ bak \in Snapshot /\ index \in Snapshot
        /\ job[t].at # "idle" /\ job[t].at \in Early
    BY DEF TypeOK, Folder, BackUp, Replace, Unlink, PutBack, DropBackup, Add, Diff, At, Early
  <1>2. /\ job[t] # Idle /\ job[t].file \in Files /\ job[t].text \in 0 .. MaxOps
    BY <1>1, JobParts
  <1>3. None \in 0 .. MaxOps
    BY GitAssumption DEF None
  <1>4. tree' \in Snapshot
    BY <1>1, <1>2, <1>3 DEF Folder, BackUp, Replace, Unlink, PutBack, DropBackup, Add, Diff,
       files, Snapshot
  <1>5. bak' \in Snapshot
    BY <1>1, <1>2, <1>3 DEF Folder, BackUp, Replace, Unlink, PutBack, DropBackup, Add, Diff,
       files, Snapshot
  <1>6. index' \in Snapshot
    BY <1>1, <1>2 DEF Folder, BackUp, Replace, Unlink, PutBack, DropBackup, Add, Diff,
       Staged, repo, Snapshot
  <1>7. UNCHANGED <<branch, remote, commits, failing, stranded, ops, faults, locks, pushes>>
    BY DEF Folder, BackUp, Replace, Unlink, PutBack, DropBackup, Add, Diff, repo, bounds
  <1>8. \E stage \in Early \cup {"ok", "failed"} : Goes(t, stage)
    BY DEF Folder, BackUp, Replace, Unlink, PutBack, DropBackup, Add, Diff, Early
  <1>9. PICK stage \in Early \cup {"ok", "failed"} : Goes(t, stage)
    BY <1>8
  <1>10. stage \in Stages
    BY DEF Early, Stages
  <1>11. /\ job' \in [Threads -> Job \cup {Idle}]
         /\ \A u \in Threads \ {t} : job'[u] = job[u]
         /\ job'[t] # Idle /\ job'[t].at = stage
         /\ job'[t].commit = job[t].commit /\ job'[t].file = job[t].file
    BY <1>2, <1>9, <1>10, GoesTo
  <1>12. /\ unstaged \subseteq unstaged' \cup {job[t].file} /\ (~Add(t) => unstaged' = unstaged)
         /\ unstaged' \subseteq unstaged
    BY DEF Folder, BackUp, Replace, Unlink, PutBack, DropBackup, Add, Diff, repo
  <1>13. TypeOK'
    BY <1>4, <1>5, <1>6, <1>7, <1>11, <1>12 DEF TypeOK
  <1> QED
    BY <1>1, <1>2, <1>7, <1>11, <1>12, <1>13

-----------------------------------------------------------------------------
(* The history: steps that leave the branch and the remote alone. *)

\* What the type invariant says of the repository.
LEMMA RepoParts ==
    ASSUME TypeOK
    PROVE  branch \in Logs /\ remote \in Logs /\ commits \in Nat
  BY DEF TypeOK, Logs

\* A thread that is not on the way, before or after the step, and has no commit then.
Quiet(t) ==
    /\ UNCHANGED <<branch, remote, commits, stranded>>
    /\ \A u \in Threads \ {t} : job'[u] = job[u]
    /\ ~OnTheWay(t)
    /\ job'[t] # Idle => job'[t].commit = None /\ job'[t].at \notin {"push", "reset"}

\* Such a step leaves the history what it was.
LEMMA QuietKeeps ==
    ASSUME TypeOK, History, PushIsTransaction, NEW t \in Threads, Quiet(t)
    PROVE  History' /\ PushIsTransaction'
  <1>1. /\ branch' = branch /\ remote' = remote /\ commits' = commits /\ stranded' = stranded
        /\ \A u \in Threads \ {t} : job'[u] = job[u]
    BY DEF Quiet
  <1>2. commits \in Nat
    BY RepoParts
  <1>3. Log(branch, commits)' /\ Log(remote, commits)'
    BY <1>1 DEF History, Log
  <1>4. Forked'
    BY <1>1 DEF History, Forked, ForkedAt, Numbers
  <1>5. ~OnTheWay(t) /\ ~OnTheWay(t)'
    BY DEF Quiet, OnTheWay
  <1>6. \A u \in Threads \ {t} : OnTheWay(u)' <=> OnTheWay(u)
    BY <1>1 DEF OnTheWay
  <1>7. Claimed'
    <2>1. SUFFICES ASSUME NEW i \in DOMAIN branch,
                          branch[i].id \notin Numbers(remote) \cup stranded
                   PROVE  \E u \in Threads : OnTheWay(u)' /\ job'[u].commit = branch[i].id
      BY <1>1 DEF Claimed, Numbers
    <2>2. PICK u \in Threads : OnTheWay(u) /\ job[u].commit = branch[i].id
      BY <2>1 DEF History, Claimed
    <2>3. u # t
      BY <2>2, <1>5
    <2> QED
      BY <2>2, <2>3, <1>1, <1>6
  <1>8. ASSUME NEW u \in Threads PROVE Carries(u)'
    <2>1. CASE u = t
      <3>1. SUFFICES ASSUME job'[t] # Idle PROVE Carries(t)'
        BY <2>1 DEF Carries
      <3>2. job'[t].commit = 0 /\ job'[t].at \notin {"push", "reset"}
        BY <3>1 DEF Quiet, None
      <3> QED
        BY <3>2, <1>1, <1>2 DEF Carries, None
    <2>2. CASE u # t
      <3>1. Carries(u) /\ job'[u] = job[u]
        BY <2>2, <1>1 DEF History
      <3>2. (\A v \in Threads \ {u} : ~OnTheWay(v)) => \A v \in Threads \ {u} : ~OnTheWay(v)'
        BY <1>5, <1>6
      <3> QED
        BY <3>1, <3>2, <1>1 DEF Carries, Numbers
    <2> QED
      BY <2>1, <2>2
  <1>9. PushIsTransaction'
    <2>1. SUFFICES ASSUME NEW u \in Threads,
                          job'[u] # Idle /\ job'[u].commit # None /\ job'[u].alone
                   PROVE  /\ job'[u].at = "ok" => job'[u].commit \in Numbers(remote)
                          /\ job'[u].at = "failed" =>
                                \/ job'[u].commit \in stranded
                                \/ job'[u].commit \notin Numbers(branch) \cup Numbers(remote)
      BY <1>1 DEF PushIsTransaction, Numbers
    <2>2. u # t
      BY <2>1 DEF Quiet
    <2>3. job'[u] = job[u]
      BY <2>2, <1>1
    <2> QED
      BY <2>1, <2>3 DEF PushIsTransaction
  <1> QED
    BY <1>3, <1>4, <1>7, <1>8, <1>9 DEF History

\* A thread at an early stage has no commit yet, and one that has answered is not on the way.
LEMMA EarlyHasNone ==
    ASSUME TypeOK, History, NEW t \in Threads, job[t] # Idle
    PROVE  /\ job[t].at \in Early => job[t].commit = None /\ ~OnTheWay(t)
           /\ job[t].at \in {"ok", "failed"} => ~OnTheWay(t)
  <1>1. job[t].commit # None => job[t].at \in {"push", "reset", "ok", "failed"}
    BY DEF History, Carries
  <1> QED
    BY <1>1 DEF Early, OnTheWay

LockedOut(t) == AddFails(t) \/ CommitFails(t)

\* So is a command that the locked index makes fail: folder and index stay what they were.
LEMMA LockedParts ==
    ASSUME TypeOK, History, NEW t \in Threads, LockedOut(t)
    PROVE  /\ TypeOK' /\ Quiet(t)
           /\ job[t] # Idle /\ job[t].at \in {"add", "commit"}
           /\ job'[t] # Idle /\ job'[t].at \in {"diff", "failed"}
           /\ \A u \in Threads \ {t} : job'[u] = job[u]
           /\ UNCHANGED <<tree, index, branch, remote>>
           /\ ~failing' => failing' = failing /\ unstaged' = unstaged \cup {job[t].file}
  <1>1. /\ job[t].at \in {"add", "commit"} /\ job[t].at # "idle"
        /\ locks < MaxLocks /\ locks' = locks + 1
        /\ UNCHANGED <<files, index, branch, remote, commits, stranded, ops, faults, pushes>>
    BY DEF LockedOut, AddFails, CommitFails, At, Locked
  <1>2. job[t] # Idle /\ job[t].file \in Files
    BY <1>1, JobParts
  <1>3. PICK stage \in {"diff", "failed"} : Goes(t, stage)
    BY DEF LockedOut, AddFails, CommitFails
  <1>4. stage \in Stages
    BY DEF Stages
  <1>5. /\ job' \in [Threads -> Job \cup {Idle}]
        /\ \A u \in Threads \ {t} : job'[u] = job[u]
        /\ job'[t] # Idle /\ job'[t].at = stage /\ job'[t].commit = job[t].commit
    BY <1>2, <1>3, <1>4, GoesTo
  <1>6. locks' \in 0 .. MaxLocks
    BY <1>1, GitAssumption DEF TypeOK
  <1>7. CASE AddFails(t)
    <2>1. failing' = failing /\ unstaged' = unstaged \cup {job[t].file}
      BY <1>7 DEF AddFails
    <2>2. TypeOK'
      BY <1>1, <1>2, <1>5, <1>6, <2>1 DEF TypeOK, files
    <2> QED
      BY <2>1, <2>2, <1>1, <1>2, <1>5, EarlyHasNone DEF Quiet, Early, files
  <1>8. CASE CommitFails(t)
    <2>1. failing' = TRUE /\ unstaged' = unstaged
      BY <1>8 DEF CommitFails
    <2>2. TypeOK'
      BY <1>1, <1>5, <1>6, <2>1 DEF TypeOK, files
    <2> QED
      BY <2>1, <2>2, <1>1, <1>2, <1>5, EarlyHasNone DEF Quiet, Early, files
  <1> QED
    BY <1>7, <1>8 DEF LockedOut

\* Beginning, answering and the steps on the folder are such steps.
LEMMA QuietSteps ==
    ASSUME TypeOK, History, NEW t \in Threads, Requests(t) \/ Answer(t) \/ Folder(t)
    PROVE  Quiet(t)
  <1>1. CASE Requests(t)
    <2>1. /\ \A u \in Threads \ {t} : job'[u] = job[u]
          /\ job[t] = Idle /\ job'[t] # Idle /\ job'[t].commit = None
          /\ job'[t].at \in {"back up", "ok", "remove", "put back"}
          /\ UNCHANGED <<tree, bak, index, branch, remote, commits, failing, stranded, unstaged>>
      BY <1>1, RequestBegins
    <2> QED
      BY <2>1 DEF Quiet, OnTheWay
  <1>2. CASE Answer(t)
    <2>1. /\ \A u \in Threads \ {t} : job'[u] = job[u]
          /\ job[t] # Idle /\ job[t].at \in {"ok", "failed"} /\ job'[t] = Idle
          /\ UNCHANGED <<tree, bak, index, branch, remote, commits, failing, stranded, unstaged>>
      BY <1>2, AnswerEnds
    <2> QED
      BY <2>1, EarlyHasNone DEF Quiet
  <1>3. CASE Folder(t)
    <2>1. /\ \A u \in Threads \ {t} : job'[u] = job[u]
          /\ job[t] # Idle /\ job[t].at \in Early
          /\ job'[t] # Idle /\ job'[t].at \in Early \cup {"ok", "failed"}
          /\ job'[t].commit = job[t].commit
          /\ UNCHANGED <<branch, remote, commits, failing, stranded, ops, faults, locks, pushes>>
      BY <1>3, FolderParts
    <2>2. job[t].commit = None /\ ~OnTheWay(t)
      BY <2>1, EarlyHasNone
    <2> QED
      BY <2>1, <2>2 DEF Quiet, Early
  <1> QED
    BY <1>1, <1>2, <1>3

-----------------------------------------------------------------------------
(* The history: a commit. *)

\* The commit of a thread: the others on the way are no longer alone.
LEMMA CommitParts ==
    ASSUME TypeOK, History, NEW t \in Threads, MakeCommit(t), Committed(job[t].file) # Tip
    PROVE  LET e == [id |-> commits + 1, about |-> job[t].file, text |-> Committed(job[t].file)]
           IN  /\ TypeOK'
               /\ job[t] # Idle /\ job[t].at = "commit"
               /\ e \in Commit /\ branch' = Append(branch, e) /\ commits' = commits + 1
               /\ \A f \in Files : e.text[f] # Tip[f] => e.about = f
               /\ UNCHANGED <<tree, bak, remote, failing, stranded, unstaged>>
               /\ index' = [index EXCEPT ![job[t].file] = tree[job[t].file]]
               /\ job'[t] # Idle /\ job'[t].at = "push" /\ job'[t].commit = commits + 1
               /\ job'[t].alone => \A u \in Threads \ {t} : ~OnTheWay(u)
               /\ \A u \in Threads \ {t} :
                     /\ OnTheWay(u) => /\ job'[u] # Idle /\ job'[u].at = job[u].at
                                       /\ job'[u].commit = job[u].commit /\ ~job'[u].alone
                                       /\ job'[u].file = job[u].file
                     /\ ~OnTheWay(u) => job'[u] = job[u]
  <1> DEFINE f == job[t].file
             e == [id |-> commits + 1, about |-> f, text |-> Committed(f)]
             crossed == \E u \in Threads \ {t} : OnTheWay(u)
             mine == [job[t] EXCEPT !.at = "push", !.commit = commits + 1, !.alone = ~crossed]
             theirs(u) == [job[u] EXCEPT !.alone = FALSE]
  <1>1. /\ branch \in Logs /\ remote \in Logs /\ commits \in Nat
        /\ tree \in Snapshot /\ index \in Snapshot
        /\ job \in [Threads -> Job \cup {Idle}]
    BY RepoParts DEF TypeOK
  <1>2. At(t, "commit") /\ commits' = commits + 1
        /\ branch' = Append(branch, [id |-> commits', about |-> f, text |-> Committed(f)])
        /\ index' = [index EXCEPT ![f] = tree[f]]
        /\ job' = [u \in Threads |->
                      IF u = t THEN [job[t] EXCEPT !.at = "push", !.commit = commits', !.alone = ~crossed]
                      ELSE IF OnTheWay(u) THEN [job[u] EXCEPT !.alone = FALSE]
                      ELSE job[u]]
        /\ UNCHANGED <<files, remote, failing, stranded, unstaged, bounds>>
    BY DEF MakeCommit
  <1>3. job[t].at = "commit" /\ job[t] # Idle /\ job[t] \in Job /\ f \in Files
    BY <1>2, JobParts DEF At
  <1>4. Tip \in Snapshot
    BY <1>1, LogParts DEF Tip
  <1>5. /\ Committed(f) \in Snapshot
        /\ \A g \in Files : Committed(f)[g] # Tip[g] => g = f
    BY <1>1, <1>3, <1>4 DEF Committed, Snapshot
  <1>6. e \in Commit
    BY <1>1, <1>3, <1>5 DEF Commit
  <1>7. branch' = Append(branch, e)
    BY <1>2
  <1>8. \A g \in Files : e.text[g] # Tip[g] => e.about = g
    BY <1>5
  <1>9. (~crossed) \in BOOLEAN
    OBVIOUS
  <1>10. /\ mine \in Job /\ mine.at = "push" /\ mine.commit = commits + 1 /\ mine.alone = ~crossed
    <2>1. job[t] \in Job /\ commits + 1 \in Nat
      BY <1>1, <1>3
    <2> DEFINE record(b) == [job[t] EXCEPT !.at = "push", !.commit = commits + 1, !.alone = b]
    <2>2. \A b \in BOOLEAN : /\ record(b) \in Job /\ record(b).at = "push"
                             /\ record(b).commit = commits + 1 /\ record(b).alone = b
      BY <2>1 DEF Job, Stages
    <2>3. mine = record(~crossed)
      OBVIOUS
    <2> HIDE DEF record, mine, crossed
    <2> QED
      BY <2>2, <2>3, <1>9
  <1> HIDE DEF crossed
  <1>11. ASSUME NEW u \in Threads, OnTheWay(u)
         PROVE  /\ theirs(u) \in Job /\ theirs(u).at = job[u].at
                /\ theirs(u).commit = job[u].commit /\ ~theirs(u).alone
                /\ theirs(u).file = job[u].file
    <2>1. job[u] \in Job
      BY <1>11, JobParts DEF OnTheWay
    <2> QED
      BY <2>1 DEF Job
  <1>12. \A r \in Job : r # Idle
    <2>1. \A r \in Job : r.at # "idle"
      BY DEF Job, Stages
    <2> QED
      BY <2>1 DEF Idle
  <1> HIDE DEF mine, theirs, e, f
  <1>13. job' = [u \in Threads |-> IF u = t THEN mine ELSE IF OnTheWay(u) THEN theirs(u) ELSE job[u]]
    BY <1>2 DEF mine, theirs, crossed
  <1>14. /\ job'[t] = mine
         /\ \A u \in Threads \ {t} : /\ OnTheWay(u) => job'[u] = theirs(u)
                                     /\ ~OnTheWay(u) => job'[u] = job[u]
    BY <1>13
  <1>15. job' \in [Threads -> Job \cup {Idle}]
    BY <1>1, <1>10, <1>11, <1>13
  <1>16. UNCHANGED <<tree, bak, remote, failing, stranded, unstaged, ops, faults, locks, pushes>>
    BY <1>2 DEF files, bounds
  <1>17. index' \in Snapshot
    BY <1>1, <1>2, <1>3 DEF Snapshot, f
  <1>18. branch' \in Logs /\ commits' \in Nat
    BY <1>1, <1>2, <1>6, <1>7, Appended
  <1>19. TypeOK'
    BY <1>15, <1>16, <1>17, <1>18 DEF TypeOK, Logs
  <1>20. job'[t].alone => \A u \in Threads \ {t} : ~OnTheWay(u)
    BY <1>10, <1>14 DEF crossed
  <1>21. \A u \in Threads \ {t} : OnTheWay(u) =>
            /\ job'[u] # Idle /\ job'[u].at = job[u].at
            /\ job'[u].commit = job[u].commit /\ ~job'[u].alone
            /\ job'[u].file = job[u].file
    BY <1>11, <1>12, <1>14
  <1>22. job'[t] # Idle /\ job'[t].at = "push" /\ job'[t].commit = commits + 1
    BY <1>10, <1>12, <1>14
  <1> QED
    BY <1>2, <1>3, <1>6, <1>7, <1>8, <1>14, <1>16, <1>19, <1>20, <1>21, <1>22 DEF e, f

\* Nothing to commit: the request fails.
LEMMA NothingToCommit ==
    ASSUME TypeOK, History, NEW t \in Threads, MakeCommit(t), Committed(job[t].file) = Tip
    PROVE  /\ TypeOK' /\ Quiet(t)
           /\ job[t] # Idle /\ job[t].at = "commit"
           /\ job'[t] # Idle /\ job'[t].at = "failed"
           /\ \A u \in Threads \ {t} : job'[u] = job[u]
           /\ UNCHANGED <<tree, bak, index, branch, remote, failing, stranded, unstaged, commits>>
  <1>1. /\ At(t, "commit") /\ Goes(t, "failed") /\ UNCHANGED <<index, branch, commits>>
        /\ UNCHANGED <<files, remote, failing, stranded, unstaged, bounds>>
    BY DEF MakeCommit
  <1>2. job[t].at = "commit" /\ job[t] # Idle
    BY <1>1, JobParts DEF At
  <1>3. UNCHANGED <<tree, bak, index, branch, remote, failing, stranded, unstaged, commits, ops, faults, locks, pushes>>
    BY <1>1 DEF files, bounds
  <1>4. "failed" \in Stages
    BY DEF Stages
  <1>5. /\ job' \in [Threads -> Job \cup {Idle}]
        /\ \A u \in Threads \ {t} : job'[u] = job[u]
        /\ job'[t] # Idle /\ job'[t].at = "failed"
        /\ job'[t].commit = job[t].commit
    BY <1>1, <1>2, <1>4, GoesTo
  <1>6. TypeOK'
    BY <1>3, <1>5 DEF TypeOK
  <1>7. job[t].commit = None /\ ~OnTheWay(t)
    BY <1>2, EarlyHasNone DEF Early
  <1>8. Quiet(t)
    BY <1>3, <1>5, <1>7 DEF Quiet
  <1> QED
    BY <1>2, <1>3, <1>5, <1>6, <1>8

\* A commit keeps the history.
LEMMA CommitKeeps ==
    ASSUME TypeOK, History, PushIsTransaction,
           NEW t \in Threads, MakeCommit(t), Committed(job[t].file) # Tip
    PROVE  History' /\ PushIsTransaction'
  <1> DEFINE e == [id |-> commits + 1, about |-> job[t].file, text |-> Committed(job[t].file)]
  <1>1. /\ job[t] # Idle /\ job[t].at = "commit"
        /\ e \in Commit /\ branch' = Append(branch, e) /\ commits' = commits + 1
        /\ \A f \in Files : e.text[f] # Tip[f] => e.about = f
        /\ remote' = remote /\ stranded' = stranded
        /\ job'[t] # Idle /\ job'[t].at = "push" /\ job'[t].commit = commits + 1
    BY CommitParts
  <1>2. /\ job'[t].alone => \A u \in Threads \ {t} : ~OnTheWay(u)
        /\ \A u \in Threads \ {t} :
              /\ OnTheWay(u) => /\ job'[u] # Idle /\ job'[u].at = job[u].at
                                /\ job'[u].commit = job[u].commit /\ ~job'[u].alone
              /\ ~OnTheWay(u) => job'[u] = job[u]
    BY CommitParts
  <1>3. branch \in Logs /\ remote \in Logs /\ commits \in Nat
    BY RepoParts
  <1>4. e.id = commits + 1
    OBVIOUS
  <1> HIDE DEF e
  <1>5. /\ DOMAIN branch = 1 .. Len(branch) /\ Len(branch) \in Nat
        /\ DOMAIN branch' = 1 .. Len(branch) + 1
        /\ \A i \in 1 .. Len(branch) : branch'[i] = branch[i]
        /\ branch'[Len(branch) + 1] = e /\ Last(branch') = e
        /\ Numbers(branch') = Numbers(branch) \cup {commits + 1}
    <2>1. DOMAIN branch = 1 .. Len(branch) /\ Len(branch) \in Nat
      BY <1>3, LogParts
    <2> DEFINE longer == Append(branch, e)
    <2>2. /\ DOMAIN longer = 1 .. Len(branch) + 1
          /\ \A i \in 1 .. Len(branch) : longer[i] = branch[i]
          /\ longer[Len(branch) + 1] = e
          /\ Last(longer) = e
          /\ Numbers(longer) = Numbers(branch) \cup {e.id}
      BY <1>1, <1>3, Appended
    <2>3. branch' = longer
      BY <1>1
    <2> HIDE DEF longer
    <2>4. Last(branch') = Last(longer) /\ Numbers(branch') = Numbers(longer)
      BY <2>3
    <2> QED
      BY <2>1, <2>2, <2>3, <2>4, <1>4
  <1>6. Log(branch, commits)'
    BY <1>1, <1>3, <1>4, LogAppended DEF History, Tip
  <1>7. Log(remote, commits)'
    BY <1>1, <1>3, LogGrows DEF History
  <1>8. \A k \in Numbers(branch) \cup Numbers(remote) : k \in Nat /\ k <= commits
    BY <1>3, NewNumber DEF History
  <1>9. commits + 1 \notin Numbers(branch) \cup Numbers(remote)
    BY <1>3, <1>8
  <1>10. Forked'
    <2>1. PICK n \in 0 .. Len(branch) : ForkedAt(branch, remote, n)
      BY DEF History, Forked
    <2>2. n \in Nat
      BY <1>5
    <2>3. ForkedAt(branch', remote, n)
      BY <2>1, <2>2, <1>1, <1>3, <1>4, <1>9, ForkedAppended
    <2> QED
      BY <2>3, <1>1 DEF Forked, ForkedAt, Numbers
  <1>11. \A u \in Threads : OnTheWay(u) => OnTheWay(u)' /\ job'[u].commit = job[u].commit
    BY <1>1, <1>2 DEF OnTheWay
  <1>12. OnTheWay(t)'
    BY <1>1 DEF OnTheWay
  <1>13. Claimed'
    <2>1. SUFFICES ASSUME NEW i \in 1 .. Len(branch) + 1
                   PROVE  \/ branch'[i].id \in Numbers(remote) \cup stranded
                          \/ \E u \in Threads : OnTheWay(u)' /\ job'[u].commit = branch'[i].id
      BY <1>1, <1>5 DEF Claimed, Numbers
    <2>2. CASE i = Len(branch) + 1
      BY <2>2, <1>1, <1>4, <1>5, <1>12
    <2>3. CASE i \in 1 .. Len(branch)
      <3>1. branch'[i] = branch[i] /\ i \in DOMAIN branch
        BY <2>3, <1>5
      <3>2. \/ branch[i].id \in Numbers(remote) \cup stranded
            \/ \E u \in Threads : OnTheWay(u) /\ job[u].commit = branch[i].id
        BY <3>1 DEF History, Claimed
      <3> QED
        BY <3>1, <3>2, <1>11
    <2> QED
      BY <2>2, <2>3, <1>5
  <1>14. ASSUME NEW u \in Threads PROVE Carries(u)'
    <2>1. CASE u = t
      <3>1. job'[t].alone => \A v \in Threads \ {t} : ~OnTheWay(v)'
        <4>1. \A v \in Threads \ {t} : ~OnTheWay(v) => ~OnTheWay(v)'
          BY <1>2 DEF OnTheWay
        <4> QED
          BY <4>1, <1>2
      <3>2. job'[t].commit <= commits' /\ job'[t].commit # None
        BY <1>1, <1>3 DEF None
      <3>3. Last(branch').id = job'[t].commit /\ job'[t].commit \notin Numbers(remote')
        BY <1>1, <1>4, <1>5, <1>9
      <3> QED
        BY <2>1, <3>1, <3>2, <3>3, <1>1 DEF Carries, Numbers
    <2>2. CASE u # t /\ OnTheWay(u)
      <3>1. /\ job'[u] # Idle /\ job'[u].at = job[u].at /\ job[u] # Idle
            /\ job'[u].commit = job[u].commit /\ ~job'[u].alone
            /\ job[u].at \in {"push", "reset"}
        BY <2>2, <1>2 DEF OnTheWay
      <3>2. job[u].commit <= commits /\ job[u].commit # None /\ job[u].commit \in Nat
        BY <3>1, JobParts DEF History, Carries
      <3>3. job'[u].commit <= commits' /\ job'[u].commit # None
        BY <3>1, <3>2, <1>1, <1>3
      <3> QED
        BY <3>1, <3>3 DEF Carries
    <2>3. CASE u # t /\ ~OnTheWay(u)
      <3>1. job'[u] = job[u] /\ Carries(u)
        BY <2>3, <1>2 DEF History
      <3>2. SUFFICES ASSUME job[u] # Idle PROVE Carries(u)'
        BY <3>1 DEF Carries
      <3>3. /\ job[u].commit <= commits /\ job[u].commit \in Nat
            /\ job[u].at \notin {"push", "reset"}
            /\ job[u].commit # None => job[u].at \in {"push", "reset", "ok", "failed"}
        BY <2>3, <3>1, <3>2, JobParts DEF Carries, OnTheWay
      <3>4. job[u].commit <= commits'
        BY <3>3, <1>1, <1>3
      <3> QED
        BY <3>1, <3>3, <3>4 DEF Carries
    <2> QED
      BY <2>1, <2>2, <2>3
  <1>15. PushIsTransaction'
    <2>1. SUFFICES ASSUME NEW u \in Threads,
                          job'[u] # Idle /\ job'[u].commit # None /\ job'[u].alone,
                          job'[u].at \in {"ok", "failed"}
                   PROVE  /\ job'[u].at = "ok" => job'[u].commit \in Numbers(remote)
                          /\ job'[u].at = "failed" =>
                                \/ job'[u].commit \in stranded
                                \/ job'[u].commit \notin Numbers(branch') \cup Numbers(remote)
      BY <1>1 DEF PushIsTransaction, Numbers
    <2>2. u # t
      BY <2>1, <1>1
    <2>3. job'[u] = job[u]
      BY <2>1, <2>2, <1>2 DEF OnTheWay
    <2>4. job[u].commit <= commits /\ job[u].commit \in Nat
      BY <2>1, <2>3, JobParts DEF History, Carries
    <2>5. job[u].commit # commits + 1
      BY <2>4, <1>3
    <2>6. /\ job[u].at = "ok" => job[u].commit \in Numbers(remote)
          /\ job[u].at = "failed" =>
                \/ job[u].commit \in stranded
                \/ job[u].commit \notin Numbers(branch) \cup Numbers(remote)
      BY <2>1, <2>3 DEF PushIsTransaction
    <2> QED
      BY <2>3, <2>5, <2>6, <1>5
  <1> QED
    BY <1>6, <1>7, <1>10, <1>13, <1>14, <1>15 DEF History

-----------------------------------------------------------------------------
(* The history: the push. *)

\* A push that is rejected or fails.
Refused(t) ==
    /\ job[t].at = "push" /\ job'[t].at = "reset" /\ remote' = remote /\ stranded' = stranded
    /\ failing'

\* A push that goes through.
Accepted(t) ==
    /\ job[t].at = "push" /\ job'[t].at = "ok" /\ stranded' = stranded /\ failing' = failing
    /\ remote' = branch /\ IsPrefix(remote, branch)

\* A push that is given up.
GivenUp(t) ==
    /\ job[t].at = "push" /\ job'[t].at = "failed" /\ stranded' = stranded \cup {job[t].commit}
    /\ failing'
    /\ remote' = remote \/ (remote' = branch /\ IsPrefix(remote, branch))

\* The three outcomes of a push, and what they leave alone.
LEMMA PushParts ==
    ASSUME TypeOK, History, NEW t \in Threads, Push(t) \/ Unreachable(t) \/ TimesOut(t)
    PROVE  /\ TypeOK'
           /\ job[t] # Idle /\ job'[t] # Idle
           /\ job'[t].commit = job[t].commit /\ job'[t].alone = job[t].alone
           /\ job'[t].file = job[t].file
           /\ \A u \in Threads \ {t} : job'[u] = job[u]
           /\ UNCHANGED <<tree, bak, index, branch, commits, unstaged>>
           /\ Refused(t) \/ Accepted(t) \/ GivenUp(t)
  <1>1. job[t].at = "push" /\ job[t] # Idle /\ job[t].commit \in Nat
    BY JobParts DEF Push, Unreachable, TimesOut, At
  <1>2. PICK stage \in {"ok", "reset", "failed"} : Goes(t, stage)
    BY DEF Push, Unreachable, TimesOut
  <1>3. stage \in Stages
    BY DEF Stages
  <1>4. /\ job' \in [Threads -> Job \cup {Idle}]
        /\ \A u \in Threads \ {t} : job'[u] = job[u]
        /\ job'[t] # Idle /\ job'[t].at = stage /\ job'[t].file = job[t].file
        /\ job'[t].commit = job[t].commit /\ job'[t].alone = job[t].alone
    BY <1>1, <1>2, <1>3, GoesTo
  <1>5. ASSUME NEW s \in Stages, Goes(t, s) PROVE job'[t].at = s
    BY <1>1, <1>5, GoesTo
  <1>6. UNCHANGED <<tree, bak, index, branch, commits, unstaged, ops, locks, pushes>>
    BY DEF Push, Unreachable, TimesOut, files, bounds
  <1>7. faults' \in 0 .. MaxFaults
    BY GitAssumption DEF Push, Unreachable, TimesOut, Fault, bounds, TypeOK
  <1>8. Refused(t) \/ Accepted(t) \/ GivenUp(t)
    <2>1. CASE Push(t) /\ IsPrefix(remote, branch)
      <3>1. Goes(t, "ok") /\ "ok" \in Stages
        BY <2>1 DEF Push, Stages
      <3>2. job'[t].at = "ok"
        BY <3>1, <1>5
      <3> QED
        BY <2>1, <3>2, <1>1 DEF Push, Accepted
    <2>2. CASE (Push(t) /\ ~IsPrefix(remote, branch)) \/ Unreachable(t)
      <3>1. Goes(t, "reset") /\ "reset" \in Stages
        BY <2>2 DEF Push, Unreachable, Stages
      <3>2. job'[t].at = "reset"
        BY <3>1, <1>5
      <3>3. remote' = remote /\ stranded' = stranded /\ failing' = TRUE
        BY <2>2 DEF Push, Unreachable
      <3> QED
        BY <3>2, <3>3, <1>1 DEF Refused
    <2>3. CASE TimesOut(t)
      <3>1. Goes(t, "failed") /\ "failed" \in Stages
        BY <2>3 DEF TimesOut, Stages
      <3>2. job'[t].at = "failed"
        BY <3>1, <1>5
      <3>3. remote' = remote \/ (remote' = branch /\ IsPrefix(remote, branch))
        BY <2>3 DEF TimesOut
      <3>4. stranded' = stranded \cup {job[t].commit} /\ failing' = TRUE
        BY <2>3 DEF TimesOut
      <3> QED
        BY <3>2, <3>3, <3>4, <1>1 DEF GivenUp
    <2> QED
      BY <2>1, <2>2, <2>3
  <1>9. remote' \in Seq(Commit) \ {<<>>}
    BY <1>8 DEF TypeOK, Refused, Accepted, GivenUp
  <1>10. failing' \in BOOLEAN /\ stranded' \subseteq Nat
    <2>1. failing' \in BOOLEAN
      BY DEF Push, Unreachable, TimesOut, TypeOK
    <2>2. stranded' \subseteq Nat
      BY <1>1, <1>8 DEF TypeOK, Refused, Accepted, GivenUp
    <2> QED
      BY <2>1, <2>2
  <1>11. TypeOK'
    BY <1>4, <1>6, <1>7, <1>9, <1>10 DEF TypeOK
  <1> QED
    BY <1>1, <1>4, <1>6, <1>8, <1>11

\* A push keeps the history, however it ends.
LEMMA PushKeeps ==
    ASSUME TypeOK, History, PushIsTransaction,
           NEW t \in Threads, Push(t) \/ Unreachable(t) \/ TimesOut(t)
    PROVE  History' /\ PushIsTransaction'
  <1>1. /\ job[t] # Idle /\ job'[t] # Idle
        /\ job'[t].commit = job[t].commit /\ job'[t].alone = job[t].alone
        /\ \A u \in Threads \ {t} : job'[u] = job[u]
        /\ branch' = branch /\ commits' = commits
        /\ Refused(t) \/ Accepted(t) \/ GivenUp(t)
    BY PushParts
  <1>2. branch \in Logs /\ remote \in Logs /\ commits \in Nat
    BY RepoParts
  <1>3. job[t].at = "push" /\ OnTheWay(t) /\ job'[t].at \in {"reset", "ok", "failed"}
    BY <1>1 DEF Refused, Accepted, GivenUp, OnTheWay
  <1>4. remote' = remote \/ (remote' = branch /\ IsPrefix(remote, branch))
    BY <1>1 DEF Refused, Accepted, GivenUp
  <1>5. /\ Numbers(remote) \subseteq Numbers(remote')
        /\ Numbers(remote') \subseteq Numbers(branch) \cup Numbers(remote)
    BY <1>2, <1>4, PrefixParts
  <1>6. stranded \subseteq stranded'
    BY <1>1 DEF Refused, Accepted, GivenUp
  <1>7. Log(branch, commits)' /\ Log(remote, commits)'
    BY <1>1, <1>4 DEF History, Log
  <1>8. Forked'
    <2>1. CASE remote' = remote
      BY <2>1, <1>1 DEF History, Forked, ForkedAt, Numbers
    <2>2. CASE remote' = branch
      <3>1. PICK n \in Nat : ForkedAt(branch, branch, n)
        BY <1>2, ForkedNot
      <3> QED
        BY <3>1, <2>2, <1>1 DEF Forked, ForkedAt, Numbers
    <2> QED
      BY <2>1, <2>2, <1>4
  <1>9. \A u \in Threads \ {t} : OnTheWay(u)' <=> OnTheWay(u)
    BY <1>1 DEF OnTheWay
  <1>10. Claimed'
    <2>1. SUFFICES ASSUME NEW i \in DOMAIN branch,
                          branch[i].id \notin Numbers(remote') \cup stranded'
                   PROVE  \E u \in Threads : OnTheWay(u)' /\ job'[u].commit = branch[i].id
      BY <1>1 DEF Claimed, Numbers
    <2>2. branch[i].id \notin Numbers(remote) \cup stranded
      BY <2>1, <1>5, <1>6
    <2>3. PICK u \in Threads : OnTheWay(u) /\ job[u].commit = branch[i].id
      BY <2>2 DEF History, Claimed
    <2>4. CASE u # t
      BY <2>3, <2>4, <1>1, <1>9
    <2>5. CASE u = t
      <3>1. CASE Refused(t)
        BY <2>3, <2>5, <3>1, <1>1 DEF Refused, OnTheWay
      <3>2. CASE Accepted(t)
        <4>1. branch[i].id \in Numbers(remote')
          BY <3>2 DEF Accepted, Numbers
        <4> QED
          BY <4>1, <2>1
      <3>3. CASE GivenUp(t)
        BY <2>1, <2>3, <2>5, <3>3 DEF GivenUp
      <3> QED
        BY <3>1, <3>2, <3>3, <1>1
    <2> QED
      BY <2>4, <2>5
  <1>11. ASSUME NEW u \in Threads PROVE Carries(u)'
    <2>1. CASE u = t
      <3>1. Carries(t)
        BY DEF History
      <3>2. /\ job'[t].commit <= commits' /\ job'[t].commit # None
            /\ job'[t].at \in {"push", "reset", "ok", "failed"}
        BY <3>1, <1>1, <1>3 DEF Carries
      <3>3. ASSUME job'[t].at \in {"push", "reset"}, job'[t].alone
            PROVE  /\ Last(branch').id = job'[t].commit /\ job'[t].commit \notin Numbers(remote')
                   /\ \A v \in Threads \ {t} : ~OnTheWay(v)'
        <4>1. remote' = remote
          BY <3>3, <1>1 DEF Refused, Accepted, GivenUp
        <4>2. /\ Last(branch).id = job[t].commit /\ job[t].commit \notin Numbers(remote)
              /\ \A v \in Threads \ {t} : ~OnTheWay(v)
          BY <3>1, <3>3, <1>1, <1>3 DEF Carries
        <4> QED
          BY <4>1, <4>2, <1>1, <1>9
      <3> QED
        BY <2>1, <3>2, <3>3 DEF Carries, Numbers
    <2>2. CASE u # t
      <3>1. Carries(u) /\ job'[u] = job[u]
        BY <2>2, <1>1 DEF History
      <3>2. job[u] # Idle => ~(job[u].at \in {"push", "reset"} /\ job[u].alone)
        BY <2>2, <3>1, <1>3 DEF Carries
      <3> QED
        BY <3>1, <3>2, <1>1 DEF Carries
    <2> QED
      BY <2>1, <2>2
  <1>12. PushIsTransaction'
    <2>1. SUFFICES ASSUME NEW u \in Threads,
                          job'[u] # Idle /\ job'[u].commit # None /\ job'[u].alone
                   PROVE  /\ job'[u].at = "ok" => job'[u].commit \in Numbers(remote')
                          /\ job'[u].at = "failed" =>
                                \/ job'[u].commit \in stranded'
                                \/ job'[u].commit \notin Numbers(branch) \cup Numbers(remote')
      BY <1>1 DEF PushIsTransaction, Numbers
    <2>2. CASE u = t
      <3>1. ASSUME job'[t].at = "ok" PROVE job'[t].commit \in Numbers(remote')
        <4>1. remote' = branch
          BY <3>1, <1>1 DEF Refused, Accepted, GivenUp
        <4>2. Last(branch).id = job[t].commit
          BY <2>1, <2>2, <1>1, <1>3 DEF History, Carries
        <4>3. Last(branch) = branch[Len(branch)] /\ Len(branch) \in 1 .. Len(branch)
          BY <1>2, LogParts
        <4>4. branch[Len(branch)].id \in Numbers(branch)
          BY <4>3, <1>2, LogParts
        <4> QED
          BY <4>1, <4>2, <4>3, <4>4, <1>1
      <3>2. ASSUME job'[t].at = "failed" PROVE job'[t].commit \in stranded'
        BY <3>2, <1>1 DEF Refused, Accepted, GivenUp
      <3> QED
        BY <2>2, <3>1, <3>2
    <2>3. CASE u # t
      <3>1. job'[u] = job[u]
        BY <2>3, <1>1
      <3>2. /\ job[u].at = "ok" => job[u].commit \in Numbers(remote)
            /\ job[u].at = "failed" =>
                  \/ job[u].commit \in stranded
                  \/ job[u].commit \notin Numbers(branch) \cup Numbers(remote)
        BY <2>1, <3>1 DEF PushIsTransaction
      <3> QED
        BY <3>1, <3>2, <1>5, <1>6
    <2> QED
      BY <2>2, <2>3
  <1> QED
    BY <1>7, <1>8, <1>10, <1>11, <1>12 DEF History

-----------------------------------------------------------------------------
(* The history: the reset. *)

\* What a reset does.
LEMMA ResetParts ==
    ASSUME TypeOK, NEW t \in Threads, Reset(t)
    PROVE  /\ TypeOK'
           /\ job[t] # Idle /\ job[t].at = "reset"
           /\ job'[t] # Idle /\ job'[t].at = "failed"
           /\ job'[t].commit = job[t].commit /\ job'[t].alone = job[t].alone
           /\ \A u \in Threads \ {t} : job'[u] = job[u]
           /\ branch' = Shortened(branch) /\ branch' \in Logs
           /\ stranded' = IF job[t].alone THEN stranded ELSE stranded \cup {job[t].commit}
           /\ UNCHANGED <<tree, bak, index, remote, commits, failing, unstaged>>
  <1>1. /\ At(t, "reset") /\ Goes(t, "failed")
        /\ branch' = Shortened(branch)
        /\ stranded' = IF job[t].alone THEN stranded ELSE stranded \cup {job[t].commit}
        /\ UNCHANGED <<files, index, remote, commits, failing, unstaged, bounds>>
    BY DEF Reset
  <1>2. job[t].at = "reset" /\ job[t] # Idle /\ job[t].commit \in Nat
    BY <1>1, JobParts DEF At
  <1>3. "failed" \in Stages
    BY DEF Stages
  <1>4. /\ job' \in [Threads -> Job \cup {Idle}]
        /\ \A u \in Threads \ {t} : job'[u] = job[u]
        /\ job'[t] # Idle /\ job'[t].at = "failed"
        /\ job'[t].commit = job[t].commit /\ job'[t].alone = job[t].alone
    BY <1>1, <1>2, <1>3, GoesTo
  <1>5. UNCHANGED <<tree, bak, index, remote, commits, failing, unstaged, ops, faults, locks, pushes>>
    BY <1>1 DEF files, bounds
  <1>6. branch' \in Logs
    <2>1. branch \in Logs
      BY RepoParts
    <2>2. CASE Len(branch) > 1
      BY <2>1, <2>2, <1>1, Fronted
    <2>3. CASE ~(Len(branch) > 1)
      BY <2>1, <2>3, <1>1 DEF Shortened
    <2> QED
      BY <2>2, <2>3
  <1>7. stranded' \subseteq Nat
    BY <1>1, <1>2 DEF TypeOK
  <1>8. TypeOK'
    BY <1>4, <1>5, <1>6, <1>7 DEF TypeOK, Logs
  <1> QED
    BY <1>1, <1>2, <1>4, <1>5, <1>6, <1>8

\* A reset keeps the history: who is alone drops the commit it has made, who is not leaves
\* one behind.
LEMMA ResetKeeps ==
    ASSUME TypeOK, History, PushIsTransaction, NEW t \in Threads, Reset(t)
    PROVE  History' /\ PushIsTransaction'
  <1>1. /\ job[t] # Idle /\ job[t].at = "reset"
        /\ job'[t] # Idle /\ job'[t].at = "failed"
        /\ job'[t].commit = job[t].commit /\ job'[t].alone = job[t].alone
        /\ \A u \in Threads \ {t} : job'[u] = job[u]
        /\ branch' = Shortened(branch) /\ branch' \in Logs
        /\ stranded' = IF job[t].alone THEN stranded ELSE stranded \cup {job[t].commit}
        /\ remote' = remote /\ commits' = commits
    BY ResetParts
  <1>2. branch \in Logs /\ remote \in Logs /\ commits \in Nat
    BY RepoParts
  <1>3. Log(branch, commits) /\ Log(remote, commits) /\ Carries(t)
    BY DEF History
  <1>4. OnTheWay(t)
    BY <1>1 DEF OnTheWay
  <1>5. job[t].alone => /\ Last(branch).id = job[t].commit
                        /\ job[t].commit \notin Numbers(remote)
    BY <1>1, <1>3 DEF Carries
  <1>6. \A u \in Threads \ {t} : OnTheWay(u)' <=> OnTheWay(u)
    BY <1>1 DEF OnTheWay
  <1>7. stranded \subseteq stranded'
    BY <1>1
  <1>8. /\ DOMAIN branch = 1 .. Len(branch) /\ Len(branch) \in Nat /\ Len(branch) >= 1
        /\ Last(branch) = branch[Len(branch)]
    BY <1>2, LogParts
  <1>9. ASSUME NEW u \in Threads PROVE Carries(u)'
    <2>1. CASE u = t
      <3>1. job'[t].commit <= commits' /\ job'[t].at = "failed"
        BY <1>1, <1>3 DEF Carries
      <3> QED
        BY <3>1, <2>1 DEF Carries
    <2>2. CASE u # t
      <3>1. Carries(u) /\ job'[u] = job[u]
        BY <2>2, <1>1 DEF History
      <3>2. job[u] # Idle => ~(job[u].at \in {"push", "reset"} /\ job[u].alone)
        BY <2>2, <3>1, <1>4 DEF Carries
      <3> QED
        BY <3>1, <3>2, <1>1 DEF Carries
    <2> QED
      BY <2>1, <2>2
  <1>10. CASE Len(branch) > 1
    <2>1. /\ DOMAIN branch' = 1 .. Len(branch) - 1
          /\ \A i \in 1 .. Len(branch) - 1 : branch'[i] = branch[i]
      BY <1>1, <1>2, <1>10, Fronted
    <2>2. /\ Log(branch', commits) /\ Numbers(branch') \subseteq Numbers(branch)
          /\ Last(branch).id \notin Numbers(branch')
      BY <1>1, <1>2, <1>3, <1>10, LogFronted
    <2>3. Log(branch, commits)' /\ Log(remote, commits)'
      BY <2>2, <1>1, <1>3 DEF Log
    <2>4. Forked'
      <3>1. PICK n \in 0 .. Len(branch) : ForkedAt(branch, remote, n)
        BY DEF History, Forked
      <3>2. PICK m \in Nat : ForkedAt(branch', remote, m)
        BY <3>1, <1>1, <1>2, <1>8, <1>10, ForkedFronted
      <3> QED
        BY <3>2, <1>1 DEF Forked, ForkedAt, Numbers
    <2>5. Claimed'
      <3>1. SUFFICES ASSUME NEW i \in 1 .. Len(branch) - 1,
                            branch[i].id \notin Numbers(remote) \cup stranded'
                     PROVE  \E u \in Threads : OnTheWay(u)' /\ job'[u].commit = branch[i].id
        BY <2>1, <1>1 DEF Claimed, Numbers
      <3>2. i \in DOMAIN branch /\ i # Len(branch) /\ Len(branch) \in DOMAIN branch
        <4>1. Len(branch) \in Nat /\ i \in Nat /\ 1 <= i /\ i <= Len(branch) - 1
          BY <1>8
        <4>2. i \in 1 .. Len(branch) /\ i # Len(branch) /\ Len(branch) \in 1 .. Len(branch)
          BY <4>1
        <4> QED
          BY <4>2, <1>8
      <3>3. PICK u \in Threads : OnTheWay(u) /\ job[u].commit = branch[i].id
        BY <3>1, <3>2, <1>7 DEF History, Claimed
      <3>4. branch[i].id # branch[Len(branch)].id
        BY <3>2, <1>3 DEF Log
      <3>5. u # t
        BY <3>1, <3>3, <3>4, <1>1, <1>5, <1>8
      <3> QED
        BY <3>3, <3>5, <1>1, <1>6
    <2>7. PushIsTransaction'
      <3>1. SUFFICES ASSUME NEW u \in Threads,
                            job'[u] # Idle /\ job'[u].commit # None /\ job'[u].alone
                     PROVE  /\ job'[u].at = "ok" => job'[u].commit \in Numbers(remote)
                            /\ job'[u].at = "failed" =>
                                  \/ job'[u].commit \in stranded'
                                  \/ job'[u].commit \notin Numbers(branch') \cup Numbers(remote)
        BY <1>1 DEF PushIsTransaction, Numbers
      <3>2. CASE u = t
        <4>1. job[t].commit \notin Numbers(branch') \cup Numbers(remote)
          BY <2>2, <3>1, <3>2, <1>1, <1>5
        <4> QED
          BY <4>1, <3>2, <1>1
      <3>3. CASE u # t
        <4>1. job'[u] = job[u]
          BY <3>3, <1>1
        <4>2. /\ job[u].at = "ok" => job[u].commit \in Numbers(remote)
              /\ job[u].at = "failed" =>
                    \/ job[u].commit \in stranded
                    \/ job[u].commit \notin Numbers(branch) \cup Numbers(remote)
          BY <3>1, <4>1 DEF PushIsTransaction
        <4> QED
          BY <4>1, <4>2, <2>2, <1>7
      <3> QED
        BY <3>2, <3>3
    <2> QED
      BY <2>3, <2>4, <2>5, <2>7, <1>9 DEF History
  <1>11. CASE ~(Len(branch) > 1)
    <2>1. branch' = branch /\ Len(branch) = 1
      BY <1>1, <1>8, <1>11 DEF Shortened
    <2>2. Last(branch).id = 0
      BY <2>1, <1>3, <1>8 DEF Log
    <2>3. ~job[t].alone
      <3>1. job[t].commit # None
        BY <1>1, <1>3 DEF Carries
      <3> QED
        BY <3>1, <2>2, <1>5 DEF None
    <2>4. Log(branch, commits)' /\ Log(remote, commits)'
      <3>1. branch' = branch /\ remote' = remote /\ commits' = commits
        BY <2>1, <1>1
      <3>2. Log(branch, commits) /\ Log(remote, commits)
        BY <1>3
      <3> QED
        BY <3>1, <3>2
    <2>5. Forked'
      <3>1. branch' = branch /\ remote' = remote
        BY <2>1, <1>1
      <3>2. Forked
        BY DEF History
      <3> QED
        BY <3>1, <3>2 DEF Forked, ForkedAt, Numbers
    <2>6. Claimed'
      <3>0. branch' = branch /\ remote' = remote
        BY <2>1, <1>1
      <3>1. SUFFICES ASSUME NEW i \in DOMAIN branch,
                            branch[i].id \notin Numbers(remote) \cup stranded'
                     PROVE  \E u \in Threads : OnTheWay(u)' /\ job'[u].commit = branch[i].id
        BY <3>0 DEF Claimed, Numbers
      <3>2. PICK u \in Threads : OnTheWay(u) /\ job[u].commit = branch[i].id
        BY <3>1, <1>7 DEF History, Claimed
      <3>3. u # t
        BY <3>1, <3>2, <2>3, <1>1
      <3> QED
        BY <3>2, <3>3, <1>1, <1>6
    <2>8. PushIsTransaction'
      <3>1. branch' = branch /\ remote' = remote
        BY <2>1, <1>1
      <3>2. SUFFICES ASSUME NEW u \in Threads,
                            job'[u] # Idle /\ job'[u].commit # None /\ job'[u].alone
                     PROVE  /\ job'[u].at = "ok" => job'[u].commit \in Numbers(remote)
                            /\ job'[u].at = "failed" =>
                                  \/ job'[u].commit \in stranded'
                                  \/ job'[u].commit \notin Numbers(branch) \cup Numbers(remote)
        BY <3>1 DEF PushIsTransaction, Numbers
      <3>3. u # t
        BY <3>2, <2>3, <1>1
      <3>4. job'[u] = job[u]
        BY <3>3, <1>1
      <3> QED
        BY <3>2, <3>4, <1>7 DEF PushIsTransaction
    <2> QED
      BY <2>4, <2>5, <2>6, <2>8, <1>9 DEF History
  <1> QED
    BY <1>10, <1>11

-----------------------------------------------------------------------------
(* The history: others. *)

\* What a push of somebody else does.
LEMMA OtherParts ==
    ASSUME TypeOK, OtherPush
    PROVE  LET e == [id |-> commits + 1, about |-> None, text |-> Published]
           IN  /\ TypeOK'
               /\ e \in Commit /\ remote' = Append(remote, e) /\ commits' = commits + 1
               /\ Published' = Published
               /\ UNCHANGED <<tree, bak, index, branch, failing, stranded, unstaged, job>>
  <1> DEFINE e == [id |-> commits + 1, about |-> None, text |-> Published]
  <1>1. /\ pushes < MaxPushes /\ pushes' = pushes + 1 /\ commits' = commits + 1
        /\ remote' = Append(remote, e)
        /\ UNCHANGED <<files, index, branch, failing, stranded, unstaged, job, ops, faults, locks>>
    BY DEF OtherPush
  <1>2. branch \in Logs /\ remote \in Logs /\ commits \in Nat
    BY RepoParts
  <1>3. Published \in Snapshot
    BY <1>2, LogParts DEF Published
  <1>4. e \in Commit /\ e.text = Published
    BY <1>2, <1>3 DEF Commit
  <1>5. UNCHANGED <<tree, bak, index, branch, failing, stranded, unstaged, job, ops, faults, locks>>
    BY <1>1 DEF files
  <1> HIDE DEF e
  <1>6. Append(remote, e) \in Logs /\ Last(Append(remote, e)) = e
    BY <1>2, <1>4, Appended
  <1>7. remote' \in Logs /\ Published' = Published
    BY <1>1, <1>4, <1>6 DEF Published
  <1>8. pushes' \in 0 .. MaxPushes /\ commits' \in Nat
    BY <1>1, <1>2, GitAssumption DEF TypeOK
  <1>9. TypeOK'
    BY <1>5, <1>7, <1>8 DEF TypeOK, Logs
  <1> QED
    BY <1>1, <1>4, <1>5, <1>7, <1>9 DEF e

\* The push of somebody else keeps the history.
LEMMA OtherKeeps ==
    ASSUME TypeOK, History, PushIsTransaction, OtherPush
    PROVE  History' /\ PushIsTransaction'
  <1> DEFINE e == [id |-> commits + 1, about |-> None, text |-> Published]
  <1>1. /\ e \in Commit /\ remote' = Append(remote, e) /\ commits' = commits + 1
        /\ branch' = branch /\ stranded' = stranded /\ job' = job
    BY OtherParts
  <1>2. branch \in Logs /\ remote \in Logs /\ commits \in Nat
    BY RepoParts
  <1>3. e.id = commits + 1 /\ e.text = Last(remote).text
    BY DEF Published
  <1> HIDE DEF e
  <1>4. Numbers(remote') = Numbers(remote) \cup {commits + 1}
    <2>1. Numbers(Append(remote, e)) = Numbers(remote) \cup {e.id}
      BY <1>1, <1>2, Appended
    <2> QED
      BY <2>1, <1>1, <1>3
  <1>5. Log(branch, commits) /\ Log(remote, commits)
    BY DEF History
  <1>6. Log(branch, commits)'
    BY <1>1, <1>2, <1>5, LogGrows
  <1>7. Log(remote, commits)'
    BY <1>1, <1>2, <1>3, <1>5, LogAppended
  <1>8. \A k \in Numbers(branch) : k # commits + 1
    BY <1>2, <1>5, NewNumber
  <1>9. Forked'
    <2>1. PICK n \in 0 .. Len(branch) : ForkedAt(branch, remote, n)
      BY DEF History, Forked
    <2>2. ForkedAt(branch, remote', n)
      BY <2>1, <1>1, <1>2, <1>3, <1>8, ForkedMoved
    <2> QED
      BY <2>2, <1>1 DEF Forked, ForkedAt, Numbers
  <1>10. \A u \in Threads : OnTheWay(u)' <=> OnTheWay(u)
    BY <1>1 DEF OnTheWay
  <1>11. Claimed'
    <2>1. SUFFICES ASSUME NEW i \in DOMAIN branch,
                          branch[i].id \notin Numbers(remote') \cup stranded
                   PROVE  \E u \in Threads : OnTheWay(u)' /\ job[u].commit = branch[i].id
      BY <1>1 DEF Claimed, Numbers
    <2> QED
      BY <2>1, <1>4, <1>10 DEF History, Claimed
  <1>12. ASSUME NEW u \in Threads PROVE Carries(u)'
    <2>1. SUFFICES ASSUME job[u] # Idle PROVE Carries(u)'
      BY <1>1 DEF Carries
    <2>2. Carries(u) /\ job[u].commit \in Nat
      BY <2>1, JobParts DEF History
    <2>3. job[u].commit <= commits' /\ job[u].commit # commits + 1
      BY <2>1, <2>2, <1>1, <1>2 DEF Carries
    <2>4. job[u].commit \notin Numbers(remote) => job[u].commit \notin Numbers(remote')
      BY <2>3, <1>4
    <2> QED
      BY <2>2, <2>3, <2>4, <1>1, <1>10 DEF Carries
  <1>13. PushIsTransaction'
    <2>1. SUFFICES ASSUME NEW u \in Threads,
                          job[u] # Idle /\ job[u].commit # None /\ job[u].alone
                   PROVE  /\ job[u].at = "ok" => job[u].commit \in Numbers(remote')
                          /\ job[u].at = "failed" =>
                                \/ job[u].commit \in stranded
                                \/ job[u].commit \notin Numbers(branch) \cup Numbers(remote')
      BY <1>1 DEF PushIsTransaction, Numbers
    <2>2. job[u].commit <= commits /\ job[u].commit \in Nat
      BY <2>1, JobParts DEF History, Carries
    <2>3. job[u].commit # commits + 1
      BY <2>2, <1>2
    <2>4. /\ job[u].at = "ok" => job[u].commit \in Numbers(remote)
          /\ job[u].at = "failed" =>
                \/ job[u].commit \in stranded
                \/ job[u].commit \notin Numbers(branch) \cup Numbers(remote)
      BY <2>1 DEF PushIsTransaction
    <2> QED
      BY <2>3, <2>4, <1>4
  <1> QED
    BY <1>6, <1>7, <1>9, <1>11, <1>12, <1>13 DEF History

\* A rebase keeps types and history: nothing is on the way.
LEMMA RebaseKeeps ==
    ASSUME TypeOK, History, PushIsTransaction, Rebase
    PROVE  /\ TypeOK' /\ History' /\ PushIsTransaction'
           /\ UNCHANGED <<tree, bak, index, remote, failing, stranded, unstaged, job>>
           /\ Numbers(branch) \subseteq Numbers(remote) => branch' = remote
  <1>1. /\ \A u \in Threads : ~OnTheWay(u)
        /\ UNCHANGED <<files, index, remote, commits, failing, stranded, unstaged, job, bounds>>
    BY DEF Rebase
  <1>2. UNCHANGED <<tree, bak, index, remote, commits, failing, stranded, unstaged, job, ops, faults, locks, pushes>>
    BY <1>1 DEF files, bounds
  <1>3. branch \in Logs /\ remote \in Logs /\ commits \in Nat
    BY RepoParts
  <1>4. PICK n \in 0 .. Len(branch) : ForkedAt(branch, remote, n)
    BY DEF History, Forked
  <1>5. n \in Nat
    BY <1>3, LogParts
  <1>6. /\ branch' \in Logs /\ Log(branch', commits)
        /\ \E m \in Nat : ForkedAt(branch', remote, m)
        /\ Numbers(branch') \subseteq Numbers(remote) \cup Numbers(branch)
        /\ Numbers(branch) \subseteq Numbers(remote) => branch' = remote
    BY <1>3, <1>4, <1>5, Rebased DEF History
  <1>7. TypeOK'
    BY <1>2, <1>6 DEF TypeOK, Logs
  <1>8. Log(branch, commits)' /\ Log(remote, commits)'
    BY <1>2, <1>6 DEF History, Log
  <1>9. Forked'
    BY <1>2, <1>6 DEF Forked, ForkedAt, Numbers
  <1>10. \A u \in Threads : ~OnTheWay(u)'
    BY <1>1, <1>2 DEF OnTheWay
  <1>11. Claimed'
    <2>1. SUFFICES ASSUME NEW i \in DOMAIN branch'
                   PROVE  branch'[i].id \in Numbers(remote) \cup stranded
      BY <1>2 DEF Claimed, Numbers
    <2>2. branch'[i].id \in Numbers(remote) \cup Numbers(branch)
      BY <1>6 DEF Numbers
    <2>3. \A k \in Numbers(branch) : k \in Numbers(remote) \cup stranded
      <3>1. \A j \in DOMAIN branch : branch[j].id \in Numbers(remote) \cup stranded
        BY <1>1 DEF History, Claimed
      <3> QED
        BY <3>1 DEF Numbers
    <2> QED
      BY <2>2, <2>3
  <1>12. ASSUME NEW u \in Threads PROVE Carries(u)'
    <2>1. SUFFICES ASSUME job[u] # Idle PROVE Carries(u)'
      BY <1>2 DEF Carries
    <2>2. Carries(u) /\ job[u].at \notin {"push", "reset"}
      BY <2>1, <1>1 DEF History, OnTheWay
    <2> QED
      BY <2>1, <2>2, <1>2 DEF Carries
  <1>13. PushIsTransaction'
    <2>1. SUFFICES ASSUME NEW u \in Threads,
                          job[u] # Idle /\ job[u].commit # None /\ job[u].alone
                   PROVE  /\ job[u].at = "ok" => job[u].commit \in Numbers(remote)
                          /\ job[u].at = "failed" =>
                                \/ job[u].commit \in stranded
                                \/ job[u].commit \notin Numbers(branch') \cup Numbers(remote)
      BY <1>2 DEF PushIsTransaction, Numbers
    <2>2. /\ job[u].at = "ok" => job[u].commit \in Numbers(remote)
          /\ job[u].at = "failed" =>
                \/ job[u].commit \in stranded
                \/ job[u].commit \notin Numbers(branch) \cup Numbers(remote)
      BY <2>1 DEF PushIsTransaction
    <2> QED
      BY <2>2, <1>6
  <1> QED
    BY <1>2, <1>6, <1>7, <1>8, <1>9, <1>11, <1>12, <1>13 DEF History

-----------------------------------------------------------------------------
(* Types and history of every step. *)

\* A step of a thread, by what it touches.
LEMMA StepCases ==
    ASSUME Next
    PROVE  \/ \E t \in Threads : \/ Requests(t) \/ Answer(t) \/ Folder(t)
                                 \/ LockedOut(t) \/ MakeCommit(t)
                                 \/ Push(t) \/ Unreachable(t) \/ TimesOut(t)
                                 \/ Reset(t)
           \/ OtherPush \/ Rebase
  BY DEF Next, Requests, Folder, LockedOut

\* In the beginning everybody has the one empty commit.
LEMMA SoundInit == Init => Sound
  <1> SUFFICES ASSUME Init PROVE Sound
    OBVIOUS
  <1> DEFINE e == [id |-> 0, about |-> None, text |-> tree]
  <1>1. /\ tree = [f \in Files |-> None] /\ bak = tree /\ index = tree
        /\ branch = <<e>> /\ remote = <<e>>
        /\ job = [t \in Threads |-> Idle]
        /\ failing = FALSE /\ stranded = {} /\ unstaged = {}
        /\ commits = 0 /\ ops = 0 /\ faults = 0 /\ locks = 0 /\ pushes = 0
    BY DEF Init
  <1>2. tree \in Snapshot
    BY <1>1, GitAssumption DEF Snapshot, None
  <1>3. e \in Commit /\ e.id = 0
    BY <1>2 DEF Commit
  <1> HIDE DEF e
  <1>4. /\ <<e>> \in Seq(Commit) /\ <<e>> # <<>> /\ Len(<<e>>) = 1 /\ DOMAIN <<e>> = 1 .. 1
        /\ <<e>>[1] = e
    BY <1>3
  <1>5. TypeOK
    <2>1. \A t \in Threads : job[t] \in Job \cup {Idle}
      BY <1>1
    <2>2. job \in [Threads -> Job \cup {Idle}]
      BY <2>1, <1>1
    <2>3. branch \in Seq(Commit) \ {<<>>} /\ remote \in Seq(Commit) \ {<<>>}
      BY <1>1, <1>4
    <2>4. failing \in BOOLEAN
      BY <1>1
    <2>6. /\ stranded \subseteq Nat /\ unstaged \subseteq Files /\ commits \in Nat
          /\ ops \in 0 .. MaxOps /\ faults \in 0 .. MaxFaults
          /\ locks \in 0 .. MaxLocks /\ pushes \in 0 .. MaxPushes
      BY <1>1, GitAssumption
    <2>5. tree \in Snapshot /\ bak \in Snapshot /\ index \in Snapshot
      BY <1>1, <1>2
    <2> QED
      BY <2>2, <2>3, <2>4, <2>5, <2>6 DEF TypeOK
  <1>6. Log(<<e>>, 0)
    <2>1. \A i \in DOMAIN <<e>> : i = 1
      BY <1>4
    <2> QED
      BY <2>1, <1>3, <1>4 DEF Log
  <1>7. 0 \in Numbers(<<e>>) /\ \A i \in DOMAIN <<e>> : <<e>>[i].id \in Numbers(<<e>>)
    BY <1>3, <1>4 DEF Numbers
  <1>8. Log(branch, commits) /\ Log(remote, commits) /\ Claimed
    BY <1>1, <1>6, <1>7 DEF Claimed
  <1>9. Forked
    <2>1. branch \in Logs /\ remote = branch
      BY <1>1, <1>4 DEF Logs
    <2>2. PICK n \in Nat : ForkedAt(branch, branch, n)
      BY <2>1, ForkedNot
    <2> QED
      BY <2>1, <2>2 DEF Forked, ForkedAt
  <1>10. \A t \in Threads : job[t] = Idle
    BY <1>1
  <1>11. (\A t \in Threads : Carries(t)) /\ PushIsTransaction
    BY <1>10 DEF Carries, PushIsTransaction
  <1> QED
    BY <1>5, <1>8, <1>9, <1>11 DEF Sound, History

\* Every step keeps types, history, and what a push promises.
LEMMA SoundStep == Sound /\ [Next]_vars => Sound'
  <1> SUFFICES ASSUME TypeOK, History, PushIsTransaction, [Next]_vars
               PROVE  Sound'
    BY DEF Sound
  <1>1. ASSUME NEW t \in Threads, Requests(t) \/ Answer(t) \/ Folder(t)
        PROVE  Sound'
    <2>1. TypeOK'
      BY <1>1, RequestBegins, AnswerEnds, FolderParts
    <2>2. Quiet(t)
      BY <1>1, QuietSteps
    <2> QED
      BY <2>1, <2>2, QuietKeeps DEF Sound
  <1>2. ASSUME NEW t \in Threads, MakeCommit(t)
        PROVE  Sound'
    <2>1. CASE Committed(job[t].file) = Tip
      BY <1>2, <2>1, NothingToCommit, QuietKeeps DEF Sound
    <2>2. CASE Committed(job[t].file) # Tip
      <3>1. TypeOK'
        BY <1>2, <2>2, CommitParts
      <3> QED
        BY <1>2, <2>2, <3>1, CommitKeeps DEF Sound
    <2> QED
      BY <2>1, <2>2
  <1>3. ASSUME NEW t \in Threads, Push(t) \/ Unreachable(t) \/ TimesOut(t)
        PROVE  Sound'
    BY <1>3, PushParts, PushKeeps DEF Sound
  <1>4. ASSUME NEW t \in Threads, Reset(t)
        PROVE  Sound'
    BY <1>4, ResetParts, ResetKeeps DEF Sound
  <1>5. CASE OtherPush
    BY <1>5, OtherParts, OtherKeeps DEF Sound
  <1>6. CASE Rebase
    BY <1>6, RebaseKeeps DEF Sound
  <1>7. CASE UNCHANGED vars
    <2>1. UNCHANGED <<tree, bak, index, branch, remote, commits, failing, stranded, unstaged, job,
                      ops, faults, locks, pushes>>
      BY <1>7 DEF vars, files, repo, bounds
    <2>2. TypeOK'
      BY <2>1 DEF TypeOK
    <2>3. Log(branch, commits)' /\ Log(remote, commits)'
      BY <2>1 DEF History, Log
    <2>4. Forked'
      BY <2>1 DEF History, Forked, ForkedAt, Numbers
    <2>5. \A u \in Threads : OnTheWay(u)' <=> OnTheWay(u)
      BY <2>1 DEF OnTheWay
    <2>6. Claimed' /\ \A u \in Threads : Carries(u)'
      BY <2>1, <2>5 DEF History, Claimed, Carries, Numbers
    <2>7. PushIsTransaction'
      BY <2>1 DEF PushIsTransaction, Numbers
    <2> QED
      BY <2>2, <2>3, <2>4, <2>6, <2>7 DEF Sound, History
  <1>8. ASSUME NEW t \in Threads, LockedOut(t)
        PROVE  Sound'
    BY <1>8, LockedParts, QuietKeeps DEF Sound
  <1> QED
    BY <1>1, <1>2, <1>3, <1>4, <1>5, <1>6, <1>7, <1>8, StepCases

\* The variables keep their types: whatever the threads, the faults and the others do, the
\* branch and the remote are never empty, and a rebase replays commits into commits.
THEOREM TypeCorrect == Spec => []TypeOK
  <1>1. Sound => TypeOK
    BY DEF Sound
  <1> QED
    BY <1>1, SoundInit, SoundStep, PTL DEF Spec

\* Whatever is reset, rebased or pushed by others, the branch begins with what it shares with
\* the remote, and none of the commits after that is published.  Nor is one of them nobody's:
\* it is on its way, or a request that failed has left it (its push was given up, or its
\* reset took off the commit of another).
THEOREM BranchExtendsTheRemote == Spec => [](Forked /\ Claimed)
  <1>1. Sound => Forked /\ Claimed
    BY DEF Sound, History
  <1> QED
    BY <1>1, SoundInit, SoundStep, PTL DEF Spec

\* "Push is transactional": whatever overlaps elsewhere, a request that was alone on the way
\* and succeeded is published, and one that was alone and failed has left no commit, unless
\* its push was given up.
THEOREM PushIsTransactional == Spec => []PushIsTransaction
  <1>1. Sound => PushIsTransaction
    BY DEF Sound
  <1> QED
    BY <1>1, SoundInit, SoundStep, PTL DEF Spec

-----------------------------------------------------------------------------
(* As long as no commit and no push has failed. *)

\* Nobody is resetting, and with nobody pushing the branch is the remote's.
Level ==
    /\ \A t \in Threads : job[t].at # "reset"
    /\ (\A t \in Threads : job[t].at # "push") =>
          Numbers(branch) \subseteq Numbers(remote) /\ Tip = Published

\* What the folder says is what the branch says, or somebody sees to it, or a git add has failed.
Followed == \A f \in Files \ unstaged : tree[f] = Tip[f] \/ Pending(f)

\* Smooth is these two, until a commit or a push has failed.
LEMMA SmoothParts == Smooth <=> (~failing => Level /\ Followed)
  BY DEF Smooth, Level, Followed

\* A request that begins or an answer that is given leaves everything pending.
LEMMA EndsKeepSmooth ==
    ASSUME TypeOK, Smooth, NEW t \in Threads, Requests(t) \/ Answer(t), ~failing'
    PROVE  Level' /\ Followed'
  <1>1. /\ \A u \in Threads \ {t} : job'[u] = job[u]
        /\ job[t] = Idle \/ job[t].at \in {"ok", "failed"}
        /\ job'[t] = Idle \/ job'[t].at \in {"back up", "ok", "remove", "put back"}
        /\ UNCHANGED <<tree, index, branch, remote, failing, unstaged>>
    BY RequestBegins, AnswerEnds
  <1>2. Level /\ Followed
    BY <1>1, SmoothParts
  <1>3. job[t].at \notin {"push", "reset"} /\ job'[t].at \notin {"push", "reset"}
    <2>1. Idle.at = "idle"
      BY DEF Idle
    <2> QED
      BY <2>1, <1>1
  <1>4. Level'
    <2>1. \A u \in Threads : job'[u].at # "reset"
      BY <1>1, <1>2, <1>3 DEF Level
    <2>2. (\A u \in Threads : job'[u].at # "push") => \A u \in Threads : job[u].at # "push"
      BY <1>1, <1>3
    <2>3. /\ Numbers(branch)' = Numbers(branch) /\ Numbers(remote)' = Numbers(remote)
          /\ Tip' = Tip /\ Published' = Published
      BY <1>1 DEF Numbers, Tip, Published
    <2> QED
      BY <2>1, <2>2, <2>3, <1>2 DEF Level
  <1>5. ASSUME NEW f \in Files, Pending(f) PROVE Pending(f)'
    <2>1. PICK u \in Threads :
            /\ job[u] # Idle /\ job[u].file = f
            /\ \/ job[u].at \in {"drop backup", "add"}
               \/ job[u].at \in {"diff", "commit"} /\ index[f] = tree[f]
      BY <1>5 DEF Pending
    <2>2. u # t
      BY <2>1, <1>1
    <2> QED
      BY <2>1, <2>2, <1>1 DEF Pending
  <1>6. Followed'
    BY <1>1, <1>2, <1>5 DEF Followed, Tip
  <1> QED
    BY <1>4, <1>6

\* A step on the folder sees to what it changes, until it has been committed.
LEMMA FolderKeepsSmooth ==
    ASSUME TypeOK, Smooth, NEW t \in Threads, Folder(t), ~failing'
    PROVE  Level' /\ Followed'
  <1>1. PICK h \in Files : h = job[t].file
    BY FolderParts, JobParts
  <1>2. /\ \A u \in Threads \ {t} : job'[u] = job[u]
        /\ job[t] # Idle /\ job[t].at \in Early
        /\ job'[t] # Idle /\ job'[t].at \in Early \cup {"ok", "failed"}
        /\ job'[t].file = h
        /\ unstaged \subseteq unstaged' \cup {h} /\ (~Add(t) => unstaged' = unstaged)
        /\ UNCHANGED <<branch, remote, failing>>
    BY <1>1, FolderParts
  <1>3. Level /\ Followed
    BY <1>2, SmoothParts
  <1>4. job[t].at \notin {"push", "reset"} /\ job'[t].at \notin {"push", "reset"}
    BY <1>2 DEF Early
  <1>5. Level'
    BY <1>2, <1>3, <1>4 DEF Level, Tip, Published, Numbers
  <1>6. tree \in Snapshot /\ index \in Snapshot
    BY DEF TypeOK
  <1>7. ASSUME NEW s \in Stages, Goes(t, s) PROVE job'[t].at = s
    BY <1>2, <1>7, GoesTo
  <1>8. ASSUME NEW f \in Files, f # h, Pending(f), tree'[f] = tree[f], index'[f] = index[f]
        PROVE  Pending(f)'
    <2>1. PICK u \in Threads :
            /\ job[u] # Idle /\ job[u].file = f
            /\ \/ job[u].at \in {"drop backup", "add"}
               \/ job[u].at \in {"diff", "commit"} /\ index[f] = tree[f]
      BY <1>8 DEF Pending
    <2>2. u # t
      BY <2>1, <1>1, <1>8
    <2> QED
      BY <2>1, <2>2, <1>2, <1>8 DEF Pending
  <1>9. \A f \in Files : f # h => tree'[f] = tree[f] /\ index'[f] = index[f]
    BY <1>1, <1>6 DEF Folder, BackUp, Replace, Unlink, PutBack, DropBackup, Add, Diff, Staged,
       files, repo, Snapshot
  <1>10. h \in unstaged' \/ tree'[h] = Tip[h] \/ Pending(h)'
    <2>1. CASE Replace(t) \/ Unlink(t) \/ DropBackup(t)
               \/ (PutBack(t) /\ bak[job[t].file] # None)
      <3>1. Goes(t, "add") \/ Goes(t, "drop backup")
        BY <2>1 DEF Replace, Unlink, DropBackup, PutBack
      <3>2. job'[t].at \in {"add", "drop backup"}
        BY <3>1, <1>7 DEF Stages
      <3> QED
        BY <3>2, <1>2 DEF Pending
    <2>2. CASE BackUp(t) \/ (PutBack(t) /\ bak[job[t].file] = None)
      <3>1. tree' = tree /\ index' = index /\ job[t].at \in {"back up", "put back"}
        BY <2>2 DEF BackUp, PutBack, repo, At
      <3>2. Pending(h) => Pending(h)'
        BY <3>1, <1>2 DEF Pending
      <3>3. unstaged' = unstaged
        BY <2>2 DEF BackUp, PutBack, repo
      <3> QED
        BY <3>1, <3>2, <3>3, <1>3, <1>6 DEF Followed
    <2>3. CASE Add(t)
      <3>1. tree' = tree /\ index'[h] = tree[h]
        BY <2>3, <1>1, <1>6 DEF Add, Staged, files, Snapshot
      <3>2. job'[t].at = "diff"
        BY <2>3, <1>7 DEF Add, Stages
      <3> QED
        BY <3>1, <3>2, <1>2 DEF Pending
    <2>4. CASE Diff(t)
      <3>1. tree' = tree /\ index' = index /\ unstaged' = unstaged /\ job[t].at = "diff"
        BY <2>4 DEF Diff, files, repo, At
      <3>2. CASE index[h] = Tip[h]
        <4>1. CASE tree[h] = index[h]
          BY <3>1, <3>2, <4>1
        <4>2. CASE tree[h] # index[h]
          <5>1. Pending(h) => Pending(h)'
            BY <3>1, <4>2, <1>2 DEF Pending
          <5> QED
            BY <5>1, <3>1, <1>3, <1>6 DEF Followed
        <4> QED
          BY <4>1, <4>2
      <3>3. CASE index[h] # Tip[h]
        <4>1. job'[t].at = "commit"
          BY <2>4, <3>3, <1>1, <1>7 DEF Diff, Stages
        <4>2. Pending(h) => Pending(h)'
          BY <3>1, <4>1, <1>2 DEF Pending
        <4> QED
          BY <4>2, <3>1, <1>3, <1>6 DEF Followed
      <3> QED
        BY <3>2, <3>3
    <2> QED
      BY <2>1, <2>2, <2>3, <2>4 DEF Folder
  <1>11. Tip' = Tip
    BY <1>2 DEF Tip
  <1>12. Followed'
    <2>1. SUFFICES ASSUME NEW f \in Files, f \notin unstaged' PROVE tree'[f] = Tip[f] \/ Pending(f)'
      BY <1>11 DEF Followed
    <2>2. CASE f = h
      BY <2>1, <2>2, <1>10
    <2>3. CASE f # h
      BY <2>1, <2>3, <1>2, <1>3, <1>8, <1>9 DEF Followed
    <2> QED
      BY <2>2, <2>3
  <1> QED
    BY <1>5, <1>12

\* A git add that fails leaves its file behind, and no other.
LEMMA LockedKeepsSmooth ==
    ASSUME TypeOK, History, Smooth, NEW t \in Threads, LockedOut(t), ~failing'
    PROVE  Level' /\ Followed'
  <1>1. /\ job[t] # Idle /\ job[t].at \in {"add", "commit"} /\ job'[t].at \in {"diff", "failed"}
        /\ \A u \in Threads \ {t} : job'[u] = job[u]
        /\ UNCHANGED <<tree, index, branch, remote, failing>>
        /\ unstaged' = unstaged \cup {job[t].file}
    BY LockedParts
  <1>2. Level /\ Followed
    BY <1>1, SmoothParts
  <1>3. Level'
    BY <1>1, <1>2 DEF Level, Tip, Published, Numbers
  <1>4. ASSUME NEW f \in Files \ unstaged', Pending(f) PROVE Pending(f)'
    BY <1>1, <1>4 DEF Pending
  <1>5. Followed'
    BY <1>1, <1>2, <1>4 DEF Followed, Tip
  <1> QED
    BY <1>3, <1>5

\* A commit brings the branch to what the folder says of the file.
LEMMA CommitKeepsSmooth ==
    ASSUME TypeOK, History, Smooth, NEW t \in Threads, MakeCommit(t), ~failing'
    PROVE  Level' /\ Followed'
  <1> DEFINE h == job[t].file
             e == [id |-> commits + 1, about |-> h, text |-> Committed(h)]
  <1>1. CASE Committed(job[t].file) = Tip
    <2>1. /\ job[t] # Idle /\ job[t].at = "commit" /\ job'[t].at = "failed"
          /\ \A u \in Threads \ {t} : job'[u] = job[u]
          /\ UNCHANGED <<tree, index, branch, remote, failing, unstaged>>
      BY <1>1, NothingToCommit
    <2>2. Level /\ Followed
      BY <2>1, SmoothParts
    <2>3. Level'
      BY <2>1, <2>2 DEF Level, Tip, Published, Numbers
    <2>4. ASSUME NEW f \in Files \ unstaged PROVE tree'[f] = Tip[f] \/ Pending(f)'
      <3>1. CASE f = job[t].file
        <4>1. branch \in Logs /\ Tip \in Snapshot
          BY RepoParts, LogParts DEF Tip
        <4>2. Committed(f)[f] = tree[f]
          BY <4>1 DEF Committed, Snapshot
        <4> QED
          BY <3>1, <4>2, <1>1, <2>1
      <3>2. CASE f # job[t].file
        <4>1. Pending(f) => Pending(f)'
          BY <3>2, <2>1 DEF Pending
        <4> QED
          BY <4>1, <2>1, <2>2 DEF Followed
      <3> QED
        BY <3>1, <3>2
    <2> QED
      BY <2>1, <2>3, <2>4 DEF Followed, Tip
  <1>2. CASE Committed(job[t].file) # Tip
    <2>1. /\ job[t] # Idle /\ job[t].at = "commit"
          /\ e \in Commit /\ branch' = Append(branch, e)
          /\ tree' = tree /\ failing' = failing /\ unstaged' = unstaged
          /\ index' = [index EXCEPT ![h] = tree[h]]
          /\ job'[t].at = "push"
          /\ \A u \in Threads \ {t} :
                /\ OnTheWay(u) => job'[u].at = job[u].at
                /\ ~OnTheWay(u) => job'[u] = job[u]
      BY <1>2, CommitParts
    <2>2. Level /\ Followed
      BY <2>1, SmoothParts
    <2>3. /\ branch \in Logs /\ tree \in Snapshot /\ index \in Snapshot /\ h \in Files
          /\ Tip \in Snapshot
      BY <2>1, RepoParts, JobParts, LogParts DEF TypeOK, Tip
    <2>4. \A u \in Threads \ {t} : job'[u].at = job[u].at
      BY <2>1
    <2>5. Level'
      BY <2>1, <2>2, <2>4 DEF Level
    <2>6. e.text = Committed(h)
      OBVIOUS
    <2> HIDE DEF e, h
    <2>7. Tip' = Committed(h)
      <3>1. Last(Append(branch, e)) = e
        BY <2>1, <2>3, Appended
      <3> QED
        BY <3>1, <2>1, <2>6 DEF Tip
    <2>8. \A f \in Files : Committed(h)[f] = IF f = h THEN tree[f] ELSE Tip[f]
      BY <2>3 DEF Committed, Snapshot
    <2>9. ASSUME NEW f \in Files \ unstaged PROVE tree[f] = Committed(h)[f] \/ Pending(f)'
      <3>1. CASE f = h
        BY <3>1, <2>8
      <3>2. CASE f # h /\ Pending(f)
        <4>1. PICK u \in Threads :
                /\ job[u] # Idle /\ job[u].file = f
                /\ \/ job[u].at \in {"drop backup", "add"}
                   \/ job[u].at \in {"diff", "commit"} /\ index[f] = tree[f]
          BY <3>2 DEF Pending
        <4>2. u # t
          BY <4>1, <3>2 DEF h
        <4>3. job'[u] = job[u]
          BY <4>1, <4>2, <2>1 DEF OnTheWay
        <4>4. index'[f] = index[f]
          BY <3>2, <2>1, <2>3 DEF Snapshot
        <4> QED
          BY <4>1, <4>3, <4>4, <2>1 DEF Pending
      <3>3. CASE f # h /\ tree[f] = Tip[f]
        BY <3>3, <2>8
      <3> QED
        BY <3>1, <3>2, <3>3, <2>2 DEF Followed
    <2> QED
      BY <2>1, <2>5, <2>7, <2>9 DEF Followed
  <1> QED
    BY <1>1, <1>2

\* A push that has not failed has brought the remote to the branch.
LEMMA PushKeepsSmooth ==
    ASSUME TypeOK, History, Smooth,
           NEW t \in Threads, Push(t) \/ Unreachable(t) \/ TimesOut(t), ~failing'
    PROVE  Level' /\ Followed'
  <1>1. /\ job[t] # Idle /\ job'[t] # Idle
        /\ \A u \in Threads \ {t} : job'[u] = job[u]
        /\ UNCHANGED <<tree, index, branch, unstaged>>
        /\ Refused(t) \/ Accepted(t) \/ GivenUp(t)
    BY PushParts
  <1>2. /\ job[t].at = "push" /\ job'[t].at = "ok" /\ failing' = failing
        /\ remote' = branch
    BY <1>1 DEF Refused, Accepted, GivenUp
  <1>3. Level /\ Followed
    BY <1>2, SmoothParts
  <1>4. Level'
    BY <1>1, <1>2, <1>3 DEF Level, Tip, Published, Numbers
  <1>5. \A f \in Files : Pending(f) => Pending(f)'
    BY <1>1, <1>2 DEF Pending
  <1>6. Followed'
    BY <1>1, <1>3, <1>5 DEF Followed, Tip
  <1> QED
    BY <1>4, <1>6

\* In the beginning the folder is empty, and so is the commit.
LEMMA SmoothInit == Init => Smooth
  <1> SUFFICES ASSUME Init PROVE Level /\ Followed
    BY SmoothParts
  <1> DEFINE e == [id |-> 0, about |-> None, text |-> tree]
  <1>1. /\ \A t \in Threads : job[t] = Idle
        /\ branch = <<e>> /\ remote = <<e>>
    BY DEF Init
  <1>2. Tip = tree /\ Published = tree
    BY <1>1 DEF Tip, Published, Last
  <1>3. Level
    BY <1>1, <1>2 DEF Level, Idle
  <1> QED
    BY <1>2, <1>3 DEF Followed

\* Every step keeps folder, branch and remote together until a commit or a push has failed.
LEMMA SmoothStep == Sound /\ Smooth /\ [Next]_vars => Smooth'
  <1> SUFFICES ASSUME TypeOK, History, PushIsTransaction, Smooth, [Next]_vars, ~failing'
               PROVE  Level' /\ Followed'
    BY SmoothParts DEF Sound, Smooth, Level, Followed
  <1>1. ASSUME NEW t \in Threads, Requests(t) \/ Answer(t)
        PROVE  Level' /\ Followed'
    BY <1>1, EndsKeepSmooth
  <1>2. ASSUME NEW t \in Threads, Folder(t)
        PROVE  Level' /\ Followed'
    BY <1>2, FolderKeepsSmooth
  <1>3. ASSUME NEW t \in Threads, MakeCommit(t)
        PROVE  Level' /\ Followed'
    BY <1>3, CommitKeepsSmooth
  <1>4. ASSUME NEW t \in Threads, Push(t) \/ Unreachable(t) \/ TimesOut(t)
        PROVE  Level' /\ Followed'
    BY <1>4, PushKeepsSmooth
  <1>5. ASSUME NEW t \in Threads, Reset(t)
        PROVE  Level' /\ Followed'
    <2>1. job[t].at = "reset" /\ failing' = failing
      BY <1>5, ResetParts
    <2> QED
      BY <2>1, SmoothParts DEF Level
  <1>6. CASE OtherPush
    <2> DEFINE e == [id |-> commits + 1, about |-> None, text |-> Published]
    <2>1. /\ e \in Commit /\ remote' = Append(remote, e) /\ Published' = Published
          /\ UNCHANGED <<tree, index, branch, failing, unstaged, job>>
      BY <1>6, OtherParts
    <2>2. Level /\ Followed
      BY <2>1, SmoothParts
    <2> HIDE DEF e
    <2>3. Numbers(remote) \subseteq Numbers(remote')
      BY <2>1, RepoParts, Appended
    <2>4. Tip' = Tip /\ Numbers(branch') = Numbers(branch)
      BY <2>1 DEF Tip
    <2>5. Level'
      <3>1. \A t \in Threads : job'[t].at = job[t].at
        BY <2>1
      <3>2. Numbers(branch)' = Numbers(branch) /\ Numbers(remote) \subseteq Numbers(remote)'
        BY <2>3, <2>4 DEF Numbers
      <3> QED
        BY <2>1, <2>2, <2>4, <3>1, <3>2 DEF Level
    <2>6. Followed'
      BY <2>1, <2>2, <2>4 DEF Followed, Pending
    <2> QED
      BY <2>5, <2>6
  <1>7. CASE Rebase
    <2>1. /\ UNCHANGED <<tree, index, remote, failing, unstaged, job>>
          /\ Numbers(branch) \subseteq Numbers(remote) => branch' = remote
          /\ \A t \in Threads : ~OnTheWay(t)
      BY <1>7, RebaseKeeps DEF Rebase
    <2>2. Level /\ Followed
      BY <2>1, SmoothParts
    <2>3. \A t \in Threads : job[t].at \notin {"push", "reset"}
      BY <2>1 DEF OnTheWay, Idle
    <2>4. branch' = remote /\ Tip = Published
      BY <2>1, <2>2, <2>3 DEF Level
    <2>5. Tip' = Tip /\ Published' = Published
      BY <2>1, <2>4 DEF Tip, Published
    <2>6. Level'
      BY <2>1, <2>3, <2>4, <2>5 DEF Level, Numbers
    <2>7. Followed'
      BY <2>1, <2>2, <2>5 DEF Followed, Pending
    <2> QED
      BY <2>6, <2>7
  <1>8. CASE UNCHANGED vars
    <2>1. UNCHANGED <<tree, index, branch, remote, failing, unstaged, job>>
      BY <1>8 DEF vars, files, repo
    <2>2. Level /\ Followed
      BY <2>1, SmoothParts
    <2>3. Tip' = Tip /\ Published' = Published
      BY <2>1 DEF Tip, Published
    <2>4. Level'
      BY <2>1, <2>2, <2>3 DEF Level, Numbers
    <2>5. Followed'
      BY <2>1, <2>2, <2>3 DEF Followed, Pending
    <2> QED
      BY <2>4, <2>5
  <1>9. ASSUME NEW t \in Threads, LockedOut(t)
        PROVE  Level' /\ Followed'
    BY <1>9, LockedKeepsSmooth
  <1> QED
    BY <1>1, <1>2, <1>3, <1>4, <1>5, <1>6, <1>7, <1>8, <1>9, StepCases

\* As long as no commit and no push has failed, requests that overlap leave branch and remote
\* in agreement once they are through, and the folder with them but for the files whose
\* last git add failed without anybody looking.
THEOREM StaysInStep == Spec => []InStep
  <1>1. TypeOK /\ Smooth => InStep
    <2> SUFFICES ASSUME TypeOK, Smooth, ~failing,
                        \A t \in Threads : job[t] = Idle \/ job[t].at \in {"ok", "failed"}
                 PROVE  Tip = Published /\ \A f \in Files \ unstaged : tree[f] = Tip[f]
      BY DEF InStep
    <2>1. \A t \in Threads : job[t].at # "push"
      BY DEF Idle
    <2>2. Tip = Published
      BY <2>1 DEF Smooth
    <2>3. \A f \in Files : ~Pending(f)
      BY DEF Pending
    <2>4. \A f \in Files \ unstaged : tree[f] = Tip[f]
      BY <2>3 DEF Smooth
    <2> QED
      BY <2>2, <2>4
  <1>2. Sound => TypeOK
    BY DEF Sound
  <1> QED
    BY <1>1, <1>2, SoundInit, SoundStep, SmoothInit, SmoothStep, PTL DEF Spec

-----------------------------------------------------------------------------
(* What is published. *)

\* Where the text of a file changes along a log there is a commit about it.
LEMMA SomeCommitIsAbout ==
    ASSUME NEW log \in Logs, NEW c \in Nat, Log(log, c), NEW f \in Files,
           NEW n \in 1 .. Len(log), Last(log).text[f] # log[n].text[f]
    PROVE  \E i \in 1 .. Len(log) : i > n /\ log[i].about = f
  <1> DEFINE changed == {i \in 1 .. Len(log) : i > n /\ log[i].text[f] # log[n].text[f]}
  <1>1. /\ Len(log) \in Nat /\ DOMAIN log = 1 .. Len(log) /\ Last(log) = log[Len(log)]
        /\ n \in Nat /\ n <= Len(log)
    BY LogParts
  <1>2. Len(log) \in changed
    BY <1>1
  <1>3. changed \subseteq Nat /\ changed # {}
    BY <1>2
  <1>4. PICK i \in changed : \A j \in changed : i <= j
    BY <1>3, Least
  <1>5. i \in 1 .. Len(log) /\ i > n /\ i \in Nat
    OBVIOUS
  <1>6. log[i - 1].text[f] = log[n].text[f]
    <2>1. CASE i - 1 = n
      BY <2>1
    <2>2. CASE i - 1 # n
      <3>1. i - 1 \in 1 .. Len(log) /\ i - 1 > n /\ ~(i <= i - 1)
        BY <2>2, <1>1, <1>5
      <3> QED
        BY <3>1, <1>4
    <2> QED
      BY <2>1, <2>2
  <1>7. i > 1 /\ i \in DOMAIN log
    BY <1>1, <1>5
  <1> QED
    BY <1>5, <1>6, <1>7 DEF Log

\* The remote's text changes only when the branch goes out, and with a commit about the file
\* that is some request's.
LEMMA PublishedByItsCommit ==
    ASSUME Sound, [Next]_vars, NEW f \in Files, Published'[f] # Published[f]
    PROVE  \E i \in DOMAIN remote' :
              /\ remote'[i].about = f /\ remote'[i].id \notin Numbers(remote)
              /\ \/ remote'[i].id \in stranded'
                 \/ \E t \in Threads : job[t] # Idle /\ job[t].commit = remote'[i].id
  <1> USE DEF Sound
  <1>1. remote' # remote
    BY DEF Published
  <1>2. ~OtherPush
    BY OtherParts
  <1>3. \A t \in Threads : ~(Requests(t) \/ Answer(t) \/ Folder(t) \/ LockedOut(t) \/ MakeCommit(t) \/ Reset(t))
    BY <1>1, RequestBegins, AnswerEnds, FolderParts, LockedParts, ResetParts DEF MakeCommit, History
  <1>4. ~Rebase /\ ~UNCHANGED vars
    BY <1>1 DEF Rebase, vars, repo
  <1>5. PICK t \in Threads : Push(t) \/ Unreachable(t) \/ TimesOut(t)
    BY <1>2, <1>3, <1>4, StepCases
  <1>6. /\ remote' = branch /\ IsPrefix(remote, branch) /\ stranded \subseteq stranded'
    <2>1. Refused(t) \/ Accepted(t) \/ GivenUp(t)
      BY <1>5, PushParts
    <2> QED
      BY <2>1, <1>1 DEF Refused, Accepted, GivenUp
  <1>7. branch \in Logs /\ remote \in Logs /\ commits \in Nat
    BY RepoParts
  <1>8. /\ Len(branch) \in Nat /\ Len(remote) \in Nat /\ Len(remote) >= 1
        /\ DOMAIN branch = 1 .. Len(branch) /\ DOMAIN remote = 1 .. Len(remote)
        /\ Last(remote) = remote[Len(remote)]
    BY <1>7, LogParts
  <1>9. Len(remote) <= Len(branch) /\ \A i \in 1 .. Len(remote) : remote[i] = branch[i]
    BY <1>6, <1>7, PrefixParts
  <1>10. Len(remote) \in 1 .. Len(branch) /\ branch[Len(remote)] = Last(remote)
    BY <1>8, <1>9
  <1>11. Last(branch).text[f] # branch[Len(remote)].text[f]
    BY <1>6, <1>10 DEF Published
  <1>12. PICK i \in 1 .. Len(branch) : i > Len(remote) /\ branch[i].about = f
    BY <1>7, <1>10, <1>11, SomeCommitIsAbout DEF History
  <1>13. branch[i].id \notin Numbers(remote)
    <2>1. \A j \in 1 .. Len(remote) : j \in DOMAIN branch /\ j # i
      BY <1>8, <1>9, <1>12
    <2>2. \A j \in 1 .. Len(remote) : branch[j].id # branch[i].id
      BY <2>1, <1>8 DEF History, Log
    <2> QED
      BY <2>2, <1>8, <1>9 DEF Numbers
  <1>14. \/ branch[i].id \in stranded
         \/ \E u \in Threads : OnTheWay(u) /\ job[u].commit = branch[i].id
    BY <1>8, <1>13 DEF History, Claimed
  <1> QED
    BY <1>6, <1>8, <1>12, <1>13, <1>14 DEF OnTheWay

\* "The deploy commit contains only the files it touched": what a failed request left in the
\* folder or in the index is never published by a request for another file.
THEOREM FailedIsNotPublished == Spec => FailedStaysDown
  <1>1. Sound /\ [Next]_vars =>
          [\A f \in Files : Published'[f] # Published[f] =>
              \E i \in DOMAIN remote' :
                  /\ remote'[i].about = f /\ remote'[i].id \notin Numbers(remote)
                  /\ \/ remote'[i].id \in stranded'
                     \/ \E t \in Threads : job[t] # Idle /\ job[t].commit = remote'[i].id]_vars
    BY PublishedByItsCommit
  <1> QED
    BY <1>1, SoundInit, SoundStep, PTL DEF Spec, FailedStaysDown
=============================================================================
