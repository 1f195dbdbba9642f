------------------------ MODULE PaperStateFileProofs ------------------------
(***************************************************************************)
(* Theorems about paper_state.json for any number of sessions, candidates, *)
(* crashes and failed writes.                                              *)
(***************************************************************************)
EXTENDS PaperStateFile, TLAPS

\* A session that saves has its ledger.
SaverLoaded == \A x \in Sessions : save[x] # Idle => ledger[x] # NotLoaded

\* The temporary path never names the file.
Apart == temp # NoInode => temp # file

\* While no two saves overlapped: at most one session is saving; its handle is
\* the inode the temporary path names; once it has written, that inode holds its
\* ledger.
SoleSave ==
  ~overlap =>
    /\ \A x, y \in Sessions : (save[x] # Idle /\ save[y] # Idle) => x = y
    /\ \A x \in Sessions : save[x] # Idle =>
         /\ temp # NoInode /\ save[x].inode = temp
         /\ save[x].step = "opened" => disk[temp] = Empty
         /\ save[x].step = "written" => disk[temp] = ledger[x]

Inv == TypeOK /\ SaverLoaded /\ Apart /\ SoleSave /\ FileReadable

\* With one session at a time: nothing overlaps, the session knows at least
\* what the file knows, and a fill that is being saved was not reported before.
Known ==
  alone =>
    /\ ~overlap
    /\ \A x, y \in Alive : x = y
    /\ \A x \in Alive, k \in Trades : AsFar(Found[k], ledger[x][k])
    /\ \A x \in Sessions, k \in Trades :
         (save[x] # Idle /\ save[x].trade = k) => reported[k] = 0 /\ ledger[x][k] # "none"

-----------------------------------------------------------------------------
\* A step of a session that changes neither the files nor the saves.
Quiet(x) == Restore(x) \/ Leave(x) \/ \E k \in Trades : Exit(x, k)

\* A step that begins a save, for a fill or a checkpoint.
Begins(x, k) ==
  /\ save[x] = Idle /\ ledger[x] # NotLoaded
  /\ Open(x, k)
  /\ UNCHANGED <<reported, alone, crashes, faults>>
  /\ \/ /\ k \in Trades /\ ledger[x][k] = "none"
        /\ ledger' = [ledger EXCEPT ![x][k] = "open"]
     \/ k = NoTrade /\ UNCHANGED ledger

LEMMA Steps ==
  ASSUME [Next]_vars
  PROVE  \/ \E x \in Sessions : Quiet(x)
         \/ \E x \in Sessions, k \in Trades \cup {NoTrade} : Begins(x, k)
         \/ \E x \in Sessions : Write(x) \/ WriteFails(x) \/ Replace(x) \/ ReplaceFails(x)
         \/ Crash
         \/ UNCHANGED vars
<1>1. ASSUME NEW x \in Sessions, NEW k \in Trades, Fill(x, k)
      PROVE  Begins(x, k)
  BY <1>1 DEF Fill, Begins
<1>2. ASSUME NEW x \in Sessions, Checkpoint(x)
      PROVE  Begins(x, NoTrade)
  BY <1>2 DEF Checkpoint, Begins
<1>3. QED
  BY <1>1, <1>2 DEF Next, Quiet

LEMMA IdleTypes == Idle \in Saves /\ Fresh \in Ledgers
BY DEF Idle, Saves, Fresh, Ledgers, Fates

LEMMA FoundType ==
  ASSUME TypeOK
  PROVE  Found \in Ledgers
BY IdleTypes DEF Found, Readable, TypeOK

LEMMA TypeNext ==
  ASSUME TypeOK, SaverLoaded, [Next]_vars
  PROVE  TypeOK'
<1>1. ASSUME NEW x \in Sessions, Quiet(x)
      PROVE  TypeOK'
  <2>1. ledger' \in [Sessions -> Ledgers \cup {NotLoaded}]
    <3>1. CASE Restore(x)
      BY <3>1, FoundType DEF Restore, TypeOK
    <3>2. CASE Leave(x)
      BY <3>2 DEF Leave, TypeOK
    <3>3. ASSUME NEW k \in Trades, Exit(x, k)
          PROVE  ledger' \in [Sessions -> Ledgers \cup {NotLoaded}]
      <4>1. ledger[x] \in Ledgers
        BY <3>3 DEF Exit, TypeOK
      <4>2. [ledger[x] EXCEPT ![k] = "closed"] \in Ledgers
        BY <4>1 DEF Ledgers, Fates
      <4>3. ledger' = [ledger EXCEPT ![x] = [ledger[x] EXCEPT ![k] = "closed"]]
        BY <3>3 DEF Exit, TypeOK
      <4>4. QED
        BY <4>2, <4>3 DEF TypeOK
    <3>4. QED
      BY <1>1, <3>1, <3>2, <3>3 DEF Quiet
  <2>2. UNCHANGED <<save, file, temp, disk, reported, overlap, crashes, faults>>
    BY <1>1 DEF Quiet, Restore, Leave, Exit
  <2>3. alone' \in BOOLEAN
    BY <1>1 DEF Quiet, Restore, Leave, Exit, TypeOK
  <2>4. QED
    BY <2>1, <2>2, <2>3 DEF TypeOK
<1>2. ASSUME NEW x \in Sessions, NEW k \in Trades \cup {NoTrade}, Begins(x, k)
      PROVE  TypeOK'
  <2>1. ledger' \in [Sessions -> Ledgers \cup {NotLoaded}]
    <3>1. CASE k \in Trades /\ ledger' = [ledger EXCEPT ![x][k] = "open"]
      <4>1. ledger[x] \in Ledgers
        BY <1>2 DEF Begins, TypeOK
      <4>2. [ledger[x] EXCEPT ![k] = "open"] \in Ledgers
        BY <3>1, <4>1 DEF Ledgers, Fates
      <4>3. ledger' = [ledger EXCEPT ![x] = [ledger[x] EXCEPT ![k] = "open"]]
        BY <3>1 DEF TypeOK
      <4>4. QED
        BY <4>2, <4>3 DEF TypeOK
    <3>2. CASE UNCHANGED ledger
      BY <3>2 DEF TypeOK
    <3>3. QED
      BY <1>2, <3>1, <3>2 DEF Begins
  <2>2. temp' \in Inodes
    BY <1>2 DEF Begins, Open, Free, TypeOK
  <2>3. disk' \in [Inodes -> Contents] /\ file' = file /\ overlap' \in BOOLEAN
    BY <1>2 DEF Begins, Open, Contents, TypeOK
  <2>4. save' \in [Sessions -> Saves]
    BY <1>2, <2>2 DEF Begins, Open, Saves, TypeOK
  <2>5. UNCHANGED <<reported, alone, crashes, faults>>
    BY <1>2 DEF Begins
  <2>6. QED
    BY <2>1, <2>2, <2>3, <2>4, <2>5 DEF TypeOK
<1>3. ASSUME NEW x \in Sessions, Write(x)
      PROVE  TypeOK'
  <2>1. ledger[x] \in Ledgers
    BY <1>3 DEF Write, SaverLoaded, Idle, TypeOK
  <2>2. disk' \in [Inodes -> Contents]
    BY <1>3, <2>1 DEF Write, Contents, TypeOK
  <2>3. save' \in [Sessions -> Saves]
    BY <1>3 DEF Write, Saves, TypeOK
  <2>4. QED
    BY <1>3, <2>2, <2>3 DEF Write, TypeOK
<1>4. ASSUME NEW x \in Sessions, WriteFails(x)
      PROVE  TypeOK'
  <2>1. faults' \in 0 .. MaxFaults
    BY <1>4, BoundsAssumption DEF WriteFails, TypeOK
  <2>2. disk' \in [Inodes -> Contents] /\ save' \in [Sessions -> Saves]
    BY <1>4, IdleTypes DEF WriteFails, Contents, TypeOK
  <2>3. QED
    BY <1>4, <2>1, <2>2 DEF WriteFails, TypeOK
<1>5. ASSUME NEW x \in Sessions, Replace(x)
      PROVE  TypeOK'
  <2>1. reported' \in [Trades -> 0 .. 2]
    <3>1. reported \in [Trades -> 0 .. 2]
      BY DEF TypeOK
    <3>2. \/ reported' = reported
          \/ \E n \in 0 .. 2 : reported' = [reported EXCEPT ![save[x].trade] = n]
      <4>1. save[x].trade \in Trades \cup {NoTrade}
        BY DEF TypeOK, Saves
      <4>2. CASE save[x].trade = NoTrade
        BY <1>5, <4>2 DEF Replace
      <4>3. CASE save[x].trade \in Trades /\ reported[save[x].trade] = 2
        BY <1>5, <4>3, NoTradeAssumption DEF Replace
      <4>4. CASE save[x].trade \in Trades /\ reported[save[x].trade] # 2
        <5>1. reported[save[x].trade] + 1 \in 0 .. 2
          BY <3>1, <4>4
        <5>2. reported' = [reported EXCEPT ![save[x].trade] = reported[save[x].trade] + 1]
          BY <1>5, <4>4, NoTradeAssumption DEF Replace
        <5>3. QED
          BY <5>1, <5>2
      <4>5. QED
        BY <4>1, <4>2, <4>3, <4>4
    <3>3. QED
      BY <3>1, <3>2
  <2>2. save' \in [Sessions -> Saves]
    BY <1>5, IdleTypes DEF Replace, TypeOK
  <2>3. QED
    BY <1>5, <2>1, <2>2 DEF Replace, TypeOK
<1>6. ASSUME NEW x \in Sessions, ReplaceFails(x)
      PROVE  TypeOK'
  <2>1. save' \in [Sessions -> Saves]
    BY <1>6, IdleTypes DEF ReplaceFails, TypeOK
  <2>2. QED
    BY <1>6, <2>1 DEF ReplaceFails, TypeOK
<1>7. CASE Crash
  <2>1. crashes' \in 0 .. MaxCrashes
    BY <1>7, BoundsAssumption DEF Crash, TypeOK
  <2>2. save' \in [Sessions -> Saves] /\ ledger' \in [Sessions -> Ledgers \cup {NotLoaded}]
    BY <1>7, IdleTypes DEF Crash
  <2>3. QED
    BY <1>7, <2>1, <2>2 DEF Crash, TypeOK
<1>8. CASE UNCHANGED vars
  BY <1>8 DEF vars, TypeOK
<1>9. QED
  BY Steps, <1>1, <1>2, <1>3, <1>4, <1>5, <1>6, <1>7, <1>8

-----------------------------------------------------------------------------
LEMMA InvInit == Init => Inv /\ Known
<1> SUFFICES ASSUME Init PROVE Inv /\ Known
  OBVIOUS
<1>1. save \in [Sessions -> Saves] /\ disk \in [Inodes -> Contents]
  BY IdleTypes DEF Init, Contents
<1>2. /\ ledger \in [Sessions -> Ledgers \cup {NotLoaded}]
      /\ reported \in [Trades -> 0 .. 2]
  BY DEF Init
<1>3. crashes \in 0 .. MaxCrashes /\ faults \in 0 .. MaxFaults
  BY BoundsAssumption DEF Init
<1>4. TypeOK
  BY <1>1, <1>2, <1>3 DEF Init, TypeOK
<1>5. Apart /\ SaverLoaded /\ SoleSave /\ FileReadable /\ Known
  BY DEF Init, Apart, SaverLoaded, SoleSave, FileReadable, Known, Alive
<1>6. QED
  BY <1>4, <1>5 DEF Inv

LEMMA LoadedNext ==
  ASSUME TypeOK, SaverLoaded, [Next]_vars
  PROVE  SaverLoaded'
<1>1. ASSUME NEW x \in Sessions, Quiet(x)
      PROVE  SaverLoaded'
  <2>1. Found # NotLoaded
    BY FoundType, LedgerAssumption
  <2>2. CASE Restore(x)
    BY <2>1, <2>2 DEF Restore, SaverLoaded, TypeOK
  <2>3. CASE Leave(x)
    BY <2>3 DEF Leave, SaverLoaded, TypeOK
  <2>4. ASSUME NEW k \in Trades, Exit(x, k)
        PROVE  SaverLoaded'
    BY <2>4 DEF Exit, SaverLoaded, TypeOK
  <2>5. QED
    BY <1>1, <2>2, <2>3, <2>4 DEF Quiet
<1>2. ASSUME NEW x \in Sessions, NEW k \in Trades \cup {NoTrade}, Begins(x, k)
      PROVE  SaverLoaded'
  <2>1. ledger'[x] # NotLoaded
    <3>1. CASE k \in Trades /\ ledger' = [ledger EXCEPT ![x][k] = "open"]
      <4>1. ledger[x] \in Ledgers
        BY <1>2 DEF Begins, TypeOK
      <4>2. [ledger[x] EXCEPT ![k] = "open"] \in Ledgers
        BY <3>1, <4>1 DEF Ledgers, Fates
      <4>3. ledger'[x] = [ledger[x] EXCEPT ![k] = "open"]
        BY <3>1 DEF TypeOK
      <4>4. QED
        BY <4>2, <4>3, LedgerAssumption
    <3>2. CASE UNCHANGED ledger
      BY <1>2, <3>2 DEF Begins
    <3>3. QED
      BY <1>2, <3>1, <3>2 DEF Begins
  <2>2. \A y \in Sessions : y # x => save'[y] = save[y] /\ ledger'[y] = ledger[y]
    BY <1>2 DEF Begins, Open, TypeOK
  <2>3. QED
    BY <2>1, <2>2 DEF SaverLoaded
<1>3. ASSUME NEW x \in Sessions,
             Write(x) \/ WriteFails(x) \/ Replace(x) \/ ReplaceFails(x)
      PROVE  SaverLoaded'
  BY <1>3 DEF Write, WriteFails, Replace, ReplaceFails, SaverLoaded, TypeOK, Idle
<1>4. CASE Crash
  BY <1>4 DEF Crash, SaverLoaded
<1>5. CASE UNCHANGED vars
  BY <1>5 DEF vars, SaverLoaded
<1>6. QED
  BY Steps, <1>1, <1>2, <1>3, <1>4, <1>5

LEMMA ApartNext ==
  ASSUME TypeOK, Apart, [Next]_vars
  PROVE  Apart'
<1>1. ASSUME NEW x \in Sessions, NEW k \in Trades \cup {NoTrade}, Begins(x, k)
      PROVE  Apart'
  BY <1>1 DEF Begins, Open, Free, Apart
<1>2. UNCHANGED <<file, temp>> \/ temp' = NoInode
      \/ \E x \in Sessions, k \in Trades \cup {NoTrade} : Begins(x, k)
  BY Steps DEF Quiet, Restore, Leave, Exit, Write, WriteFails, Replace, ReplaceFails,
               Crash, vars
<1>3. QED
  BY <1>1, <1>2 DEF Apart

\* A session's own steps leave a save that is under way alone.
LEMMA QuietKeeps ==
  ASSUME TypeOK, NEW x \in Sessions, Quiet(x)
  PROVE  /\ UNCHANGED <<save, file, temp, disk, reported, overlap>>
         /\ \A y \in Sessions : save[y] # Idle /\ ledger[y] # NotLoaded =>
                                 ledger'[y] = ledger[y]
BY DEF Quiet, Restore, Leave, Exit, TypeOK

LEMMA SoleNext ==
  ASSUME Inv, [Next]_vars
  PROVE  SoleSave' /\ FileReadable'
<1> USE DEF Inv
<1>1. ASSUME NEW x \in Sessions, Quiet(x)
      PROVE  SoleSave' /\ FileReadable'
  BY <1>1, QuietKeeps DEF SoleSave, FileReadable, SaverLoaded
<1>2. ASSUME NEW x \in Sessions, NEW k \in Trades \cup {NoTrade}, Begins(x, k), ~overlap'
      PROVE  SoleSave' /\ FileReadable'
  <2>1. ~overlap /\ \A y \in Sessions : save[y] = Idle
    BY <1>2 DEF Begins, Open, Saving
  <2>2. temp' \in Inodes /\ temp' # file
    BY <1>2 DEF Begins, Open, Free, Apart, TypeOK
  <2>3. disk' = [disk EXCEPT ![temp'] = Empty] /\ file' = file
    BY <1>2 DEF Begins, Open
  <2>4. save' = [save EXCEPT ![x] = [step |-> "opened", inode |-> temp', trade |-> k]]
    BY <1>2 DEF Begins, Open
  <2>5. FileReadable'
    BY <2>1, <2>2, <2>3 DEF FileReadable, TypeOK
  <2>6. \A y \in Sessions : save'[y] # Idle =>
          y = x /\ save'[y].step = "opened" /\ save'[y].inode = temp'
    BY <2>1, <2>4 DEF TypeOK
  <2>7. disk'[temp'] = Empty
    BY <2>2, <2>3 DEF TypeOK
  <2>8. SoleSave'
    BY <2>2, <2>6, <2>7, NoInodeAssumption DEF SoleSave
  <2>9. QED
    BY <2>5, <2>8
<1>3. ASSUME NEW x \in Sessions, Write(x), ~overlap
      PROVE  SoleSave' /\ FileReadable'
  <2>1. save[x] # Idle /\ save[x].step = "opened"
    BY <1>3 DEF Write, Idle
  <2>2. /\ save[x].inode = temp /\ temp # NoInode /\ disk[temp] = Empty
        /\ \A y \in Sessions : save[y] # Idle => y = x
    BY <1>3, <2>1 DEF SoleSave
  <2>12. ~Mixes(x)
    BY <2>2, NoInodeAssumption DEF Mixes, Idle
  <2>3. disk' = [disk EXCEPT ![temp] = ledger[x]]
    BY <1>3, <2>2, <2>12 DEF Write
  <2>4. UNCHANGED <<ledger, file, temp, overlap>> /\ save' = [save EXCEPT ![x].step = "written"]
    BY <1>3 DEF Write
  <2>5. temp \in Inodes /\ temp # file
    BY <2>2 DEF Apart, TypeOK
  <2>6. disk'[temp] = ledger[x] /\ disk'[file] = disk[file]
    BY <2>3, <2>5 DEF TypeOK
  <2>7. save'[x].step = "written" /\ save'[x].inode = save[x].inode
    BY <2>4 DEF TypeOK, Saves
  <2>8. \A y \in Sessions : y # x => save'[y] = save[y]
    BY <2>4 DEF TypeOK
  <2>9. FileReadable'
    BY <2>4, <2>6 DEF FileReadable
  <2>10. SoleSave'
    BY <2>2, <2>4, <2>6, <2>7, <2>8 DEF SoleSave
  <2>11. QED
    BY <2>9, <2>10
<1>4. ASSUME NEW x \in Sessions, WriteFails(x), ~overlap
      PROVE  SoleSave' /\ FileReadable'
  <2>1. save[x] # Idle
    BY <1>4 DEF WriteFails, Idle
  <2>2. save[x].inode = temp /\ temp # file /\ \A y \in Sessions : save[y] # Idle => y = x
    BY <1>4, <2>1 DEF SoleSave, Apart
  <2>3. \A y \in Sessions : save'[y] = Idle
    BY <1>4, <2>2 DEF WriteFails, TypeOK
  <2>4. file' = file /\ disk'[file] = disk[file]
    BY <1>4, <2>2 DEF WriteFails, TypeOK
  <2>5. QED
    BY <1>4, <2>3, <2>4 DEF SoleSave, FileReadable
<1>5. ASSUME NEW x \in Sessions, Replace(x), ~overlap
      PROVE  SoleSave' /\ FileReadable'
  <2>1. save[x] # Idle /\ save[x].step = "written"
    BY <1>5 DEF Replace, Idle
  <2>2. disk[temp] = ledger[x] /\ \A y \in Sessions : save[y] # Idle => y = x
    BY <1>5, <2>1 DEF SoleSave
  <2>3. ledger[x] \in Ledgers
    BY <2>1 DEF SaverLoaded, TypeOK
  <2>4. \A y \in Sessions : save'[y] = Idle
    BY <1>5, <2>2 DEF Replace, TypeOK
  <2>5. file' = temp /\ disk' = disk
    BY <1>5 DEF Replace
  <2>6. QED
    BY <2>2, <2>3, <2>4, <2>5, LedgerAssumption DEF SoleSave, FileReadable
<1>6. ASSUME NEW x \in Sessions, ReplaceFails(x), ~overlap
      PROVE  SoleSave' /\ FileReadable'
  <2>1. save[x] # Idle /\ temp = NoInode
    BY <1>6 DEF ReplaceFails, Idle
  <2>2. QED
    BY <1>6, <2>1 DEF SoleSave
<1>7. CASE Crash
  BY <1>7 DEF Crash, SoleSave, FileReadable
<1>8. CASE UNCHANGED vars
  BY <1>8 DEF vars, SoleSave, FileReadable
<1>9. CASE overlap'
  BY <1>9 DEF SoleSave, FileReadable
<1>10. CASE ~overlap'
  <2>1. overlap' = overlap \/ \E x \in Sessions, k \in Trades \cup {NoTrade} : Begins(x, k)
    BY Steps DEF Quiet, Restore, Leave, Exit, Write, WriteFails, Replace, ReplaceFails,
                 Crash, vars
  <2>2. QED
    BY Steps, <1>1, <1>2, <1>3, <1>4, <1>5, <1>6, <1>7, <1>8, <1>10, <2>1
<1>11. QED
  BY <1>9, <1>10

LEMMA InvNext == Inv /\ [Next]_vars => Inv'
BY TypeNext, LoadedNext, ApartNext, SoleNext DEF Inv

LEMMA InvAlways == Spec => []Inv
BY InvInit, InvNext, PTL DEF Spec

\* The state of the sessions and of the files is well formed.
THEOREM TypeCorrect == Spec => []TypeOK
<1>1. Inv => TypeOK
  BY DEF Inv
<1>2. QED
  BY <1>1, InvAlways, PTL

\* Until two saves overlap, paper_state.json parses at every moment.
THEOREM FileAlwaysParses == Spec => []FileReadable
<1>1. Inv => FileReadable
  BY DEF Inv
<1>2. QED
  BY <1>1, InvAlways, PTL

\* Until two saves overlap, only a rename changes what the file holds.
LEMMA FileSteps ==
  ASSUME Inv, ~overlap', [Next]_vars
  PROVE  \/ UNCHANGED file /\ (file # NoInode => disk'[file] = disk[file])
         \/ \E x \in Sessions : /\ Replace(x) /\ ledger[x] \in Ledgers
                                /\ file' = temp /\ temp # NoInode
                                /\ disk' = disk /\ disk[temp] = ledger[x]
                                /\ \A y \in Sessions : save[y] # Idle => y = x
<1> DEFINE Goal == \/ UNCHANGED file /\ (file # NoInode => disk'[file] = disk[file])
                   \/ \E x \in Sessions : /\ Replace(x) /\ ledger[x] \in Ledgers
                                          /\ file' = temp /\ temp # NoInode
                                          /\ disk' = disk /\ disk[temp] = ledger[x]
                                          /\ \A y \in Sessions : save[y] # Idle => y = x
<1>1. ASSUME NEW x \in Sessions, NEW k \in Trades \cup {NoTrade}, Begins(x, k)
      PROVE  Goal
  <2>1. temp' \in Inodes /\ temp' # file
    BY <1>1 DEF Begins, Open, Free, Inv, Apart, TypeOK
  <2>2. disk' = [disk EXCEPT ![temp'] = Empty] /\ file' = file
    BY <1>1 DEF Begins, Open
  <2>3. QED
    BY <2>1, <2>2 DEF Inv, TypeOK
<1>2. ASSUME NEW x \in Sessions, Write(x) \/ WriteFails(x), ~overlap
      PROVE  Goal
  <2>1. save[x] # Idle
    BY <1>2 DEF Write, WriteFails, Idle
  <2>2. save[x].inode = temp /\ temp # NoInode /\ temp # file
    BY <1>2, <2>1 DEF Inv, SoleSave, Apart
  <2>3. file' = file /\ \E text : disk' = [disk EXCEPT ![temp] = text]
    BY <1>2, <2>2 DEF Write, WriteFails
  <2>4. QED
    BY <2>2, <2>3 DEF Inv, TypeOK
<1>3. ASSUME NEW x \in Sessions, Replace(x), ~overlap
      PROVE  Goal
  <2>1. save[x] # Idle /\ save[x].step = "written"
    BY <1>3 DEF Replace, Idle
  <2>2. disk[temp] = ledger[x] /\ \A y \in Sessions : save[y] # Idle => y = x
    BY <1>3, <2>1 DEF Inv, SoleSave
  <2>3. ledger[x] \in Ledgers
    BY <2>1 DEF Inv, SaverLoaded, TypeOK
  <2>4. QED
    BY <1>3, <2>2, <2>3 DEF Replace
<1>4. \/ UNCHANGED <<file, disk>>
      \/ \E x \in Sessions, k \in Trades \cup {NoTrade} : Begins(x, k)
      \/ \E x \in Sessions : (Write(x) \/ WriteFails(x) \/ Replace(x)) /\ overlap' = overlap
  BY Steps DEF Quiet, Restore, Leave, Exit, Write, WriteFails, Replace, ReplaceFails,
               Crash, vars
<1>5. QED
  BY <1>1, <1>2, <1>3, <1>4

\* Until two saves overlap, a rename leaves in the file what its session holds.
THEOREM SaveAlwaysInstalls == Spec => SaveInstalls
<1> DEFINE Step == \A x \in Sessions :
      (save[x].step = "written" /\ file' # file /\ save'[x] = Idle /\ ~overlap) =>
        file' # NoInode /\ disk'[file'] = ledger[x]
<1>1. Inv /\ [Next]_vars => Step
  <2> SUFFICES ASSUME Inv, [Next]_vars,
                      NEW x \in Sessions, save[x].step = "written", file' # file, ~overlap
               PROVE  file' # NoInode /\ disk'[file'] = ledger[x]
    OBVIOUS
  <2>1. save[x] # Idle
    BY DEF Idle
  <2>2. PICK y \in Sessions : Replace(y)
    BY Steps DEF Quiet, Restore, Leave, Exit, Begins, Open, Write, WriteFails,
                 ReplaceFails, Crash, vars
  <2>3. ~overlap'
    BY <2>2 DEF Replace
  <2>4. QED
    BY <2>1, <2>3, FileSteps
<1>2. QED
  BY <1>1, InvAlways, PTL DEF Spec, SaveInstalls

-----------------------------------------------------------------------------
\* One session at a time.
Sole == Inv /\ Known /\ ReportedKept /\ ReportedOnce

LEMMA AloneStep ==
  ASSUME Inv, Known, [Next]_vars, alone'
  PROVE  alone /\ ~overlap'
<1>1. alone
  BY Steps DEF Quiet, Restore, Leave, Exit, Begins, Write, WriteFails, Replace,
               ReplaceFails, Crash, vars
<1>2. ~overlap /\ \A x, y \in Alive : x = y
  BY <1>1 DEF Known
<1>3. ASSUME NEW x \in Sessions, NEW k \in Trades \cup {NoTrade}, Begins(x, k)
      PROVE  ~overlap'
  <2>1. Saving = {}
    BY <1>2, <1>3 DEF Begins, Saving, Alive, Inv, SaverLoaded
  <2>2. QED
    BY <1>2, <1>3, <2>1 DEF Begins, Open
<1>4. overlap' = overlap \/ \E x \in Sessions, k \in Trades \cup {NoTrade} : Begins(x, k)
  BY Steps DEF Quiet, Restore, Leave, Exit, Write, WriteFails, Replace, ReplaceFails,
               Crash, vars
<1>5. QED
  BY <1>1, <1>2, <1>3, <1>4

LEMMA AliveNext ==
  ASSUME Inv, Known, [Next]_vars, alone'
  PROVE  \A x, y \in Alive' : x = y
<1>1. alone /\ \A x, y \in Alive : x = y
  BY AloneStep DEF Known
<1>2. ASSUME NEW x \in Sessions, Restore(x)
      PROVE  Alive' \subseteq {x}
  BY <1>1, <1>2 DEF Restore, Alive, Inv, TypeOK
<1>3. Alive' \subseteq Alive \/ \E x \in Sessions : Restore(x)
  <2>1. ASSUME NEW x \in Sessions, Leave(x) \/ \E k \in Trades : Exit(x, k)
        PROVE  Alive' \subseteq Alive
    BY <2>1 DEF Leave, Exit, Alive, Inv, TypeOK
  <2>2. ASSUME NEW x \in Sessions, NEW k \in Trades \cup {NoTrade}, Begins(x, k)
        PROVE  Alive' \subseteq Alive
    BY <2>2 DEF Begins, Alive, Inv, TypeOK
  <2>3. UNCHANGED ledger => Alive' \subseteq Alive
    BY DEF Alive
  <2>4. Crash => Alive' \subseteq Alive
    BY DEF Crash, Alive
  <2>5. QED
    BY Steps, <2>1, <2>2, <2>3, <2>4 DEF Quiet, Write, WriteFails, Replace, ReplaceFails, vars
<1>4. QED
  BY <1>1, <1>2, <1>3

LEMMA SoleWhileAlone ==
  ASSUME Sole, [Next]_vars, alone'
  PROVE  Sole'
<1> USE DEF Sole
<1>1. /\ alone /\ ~overlap /\ ~overlap' /\ Inv'
      /\ \A x, y \in Alive' : x = y
  BY AloneStep, AliveNext, InvNext DEF Known
<1> DEFINE Knows == \A x \in Sessions, k \in Trades :
                      ledger[x] # NotLoaded => AsFar(Found[k], ledger[x][k])
           InHand == \A x \in Sessions, k \in Trades :
                       (save[x] # Idle /\ save[x].trade = k) =>
                         reported[k] = 0 /\ ledger[x][k] # "none"
           Kept == \A k \in Trades : /\ reported[k] <= 1
                                     /\ reported[k] > 0 => Readable /\ disk[file][k] # "none"
<1>2. Knows /\ InHand /\ Kept
  BY <1>1 DEF Known, Alive, ReportedKept, ReportedOnce
<1>3. SUFFICES Knows' /\ InHand' /\ Kept'
  BY <1>1 DEF Known, Alive, ReportedKept, ReportedOnce
<1>4. CASE UNCHANGED file /\ (file # NoInode => disk'[file] = disk[file])
  <2>1. Found' = Found /\ Readable' = Readable /\ (Readable => disk'[file'] = disk[file])
    BY <1>4 DEF Found, Readable
  <2>2. PICK F : F = Found /\ F = Found'
    BY <2>1
  <2>3. ASSUME NEW x \in Sessions, NEW k \in Trades \cup {NoTrade}, Begins(x, k)
        PROVE  Knows' /\ InHand' /\ Kept'
    <3>1. reported' = reported
      BY <2>3 DEF Begins
    <3>2. \A y \in Sessions : y # x => save'[y] = save[y] /\ ledger'[y] = ledger[y]
      BY <2>3 DEF Begins, Open, Inv, TypeOK
    <3>3. save'[x].trade = k
      BY <2>3 DEF Begins, Open, Inv, TypeOK
    <3>4. ledger[x] # NotLoaded /\ ledger[x] \in Ledgers
      BY <2>3 DEF Begins, Inv, TypeOK
    <3>5. CASE k = NoTrade /\ ledger' = ledger
      BY <1>2, <2>1, <2>2, <3>1, <3>2, <3>3, <3>5, NoTradeAssumption
    <3>6. CASE k \in Trades /\ ledger[x][k] = "none" /\ ledger' = [ledger EXCEPT ![x][k] = "open"]
      <4>1. ledger'[x] = [ledger[x] EXCEPT ![k] = "open"]
        BY <3>6 DEF Inv, TypeOK
      <4>2. ledger'[x][k] = "open" /\ \A j \in Trades : j # k => ledger'[x][j] = ledger[x][j]
        BY <3>4, <3>6, <4>1 DEF Ledgers
      <4>3. F[k] = "none"
        BY <1>2, <2>2, <3>4, <3>6 DEF AsFar
      <4>4. reported[k] = 0
        <5>1. reported[k] \in 0 .. 2 /\ (reported[k] > 0 => Readable /\ disk[file][k] # "none")
          BY <1>2, <3>6 DEF Inv, TypeOK
        <5>2. Readable => disk[file][k] = "none"
          BY <2>2, <4>3 DEF Found
        <5>3. QED
          BY <5>1, <5>2
      <4>5. Knows'
        BY <1>2, <2>2, <3>2, <3>4, <4>2, <4>3 DEF AsFar
      <4>6. InHand'
        BY <1>2, <3>1, <3>2, <3>3, <4>2, <4>4
      <4>7. Kept'
        BY <1>2, <2>1, <3>1
      <4>8. QED
        BY <4>5, <4>6, <4>7
    <3>7. QED
      BY <2>3, <3>5, <3>6 DEF Begins
  <2>4. ASSUME NEW x \in Sessions, Restore(x)
        PROVE  Knows' /\ InHand' /\ Kept'
    <3>1. UNCHANGED <<save, reported>> /\ ledger' = [ledger EXCEPT ![x] = Found]
      BY <2>4 DEF Restore
    <3>2. ledger'[x] = F /\ \A y \in Sessions : y # x => ledger'[y] = ledger[y]
      BY <2>2, <3>1 DEF Inv, TypeOK
    <3>3. save[x] = Idle
      BY <2>4 DEF Restore, Inv, SaverLoaded
    <3>4. QED
      BY <1>2, <2>1, <2>2, <3>1, <3>2, <3>3 DEF AsFar
  <2>5. ASSUME NEW x \in Sessions, Leave(x)
        PROVE  Knows' /\ InHand' /\ Kept'
    <3>1. UNCHANGED <<save, reported>> /\ save[x] = Idle
      BY <2>5 DEF Leave
    <3>2. ledger'[x] = NotLoaded /\ \A y \in Sessions : y # x => ledger'[y] = ledger[y]
      BY <2>5 DEF Leave, Inv, TypeOK
    <3>3. QED
      BY <1>2, <2>1, <2>2, <3>1, <3>2
  <2>6. ASSUME NEW x \in Sessions, NEW k \in Trades, Exit(x, k)
        PROVE  Knows' /\ InHand' /\ Kept'
    <3>1. UNCHANGED <<save, reported>> /\ save[x] = Idle
      BY <2>6 DEF Exit
    <3>2. ledger'[x] = [ledger[x] EXCEPT ![k] = "closed"]
          /\ \A y \in Sessions : y # x => ledger'[y] = ledger[y]
      BY <2>6 DEF Exit, Inv, TypeOK
    <3>3. ledger[x] # NotLoaded /\ ledger[x] \in Ledgers
      BY <2>6 DEF Exit, Inv, TypeOK
    <3>4. ledger'[x][k] = "closed" /\ \A j \in Trades : j # k => ledger'[x][j] = ledger[x][j]
      BY <3>2, <3>3 DEF Ledgers
    <3>5. Knows'
      <4>1. \A y \in Sessions, j \in Trades : ledger[y] # NotLoaded => AsFar(F[j], ledger[y][j])
        BY <1>2, <2>2
      <4>2. ASSUME NEW j \in Trades
            PROVE  AsFar(F[j], ledger'[x][j])
        BY <3>3, <3>4, <4>1 DEF AsFar
      <4>3. ASSUME NEW y \in Sessions, NEW j \in Trades, ledger'[y] # NotLoaded
            PROVE  AsFar(F[j], ledger'[y][j])
        BY <3>2, <4>1, <4>2, <4>3
      <4>4. QED
        BY <2>2, <4>3
    <3>6. InHand'
      BY <1>2, <3>1, <3>2
    <3>7. Kept'
      BY <1>2, <2>1, <3>1
    <3>8. QED
      BY <3>5, <3>6, <3>7
  <2>7. ASSUME NEW x \in Sessions, Write(x) \/ WriteFails(x) \/ ReplaceFails(x)
        PROVE  Knows' /\ InHand' /\ Kept'
    <3>1. UNCHANGED <<ledger, reported>>
      BY <2>7 DEF Write, WriteFails, ReplaceFails
    <3>2. \A y \in Sessions : save'[y] # Idle => save[y] # Idle /\ save'[y].trade = save[y].trade
      <4>1. CASE Write(x)
        <5>1. save' = [save EXCEPT ![x].step = "written"] /\ save[x] # Idle
          BY <4>1 DEF Write, Idle
        <5>2. save'[x].trade = save[x].trade /\ \A y \in Sessions : y # x => save'[y] = save[y]
          BY <5>1 DEF Inv, TypeOK, Saves
        <5>3. QED
          BY <5>1, <5>2
      <4>2. CASE save' = [save EXCEPT ![x] = Idle]
        BY <4>2 DEF Inv, TypeOK
      <4>3. QED
        BY <2>7, <4>1, <4>2 DEF WriteFails, ReplaceFails
    <3>3. QED
      BY <1>2, <2>1, <2>2, <3>1, <3>2
  <2>8. CASE Crash
    BY <1>2, <2>1, <2>8 DEF Crash
  <2>9. CASE UNCHANGED vars
    BY <1>2, <2>1, <2>2, <2>9 DEF vars
  <2>10. ASSUME NEW x \in Sessions, Replace(x)
         PROVE  FALSE
    BY <1>1, <1>4, <2>10 DEF Replace, Inv, Apart
  <2>11. QED
    BY Steps, <2>3, <2>4, <2>5, <2>6, <2>7, <2>8, <2>9, <2>10 DEF Quiet
<1>5. ASSUME NEW x \in Sessions, Replace(x), ledger[x] \in Ledgers, file' = temp,
             temp # NoInode, disk' = disk, disk[temp] = ledger[x],
             \A y \in Sessions : save[y] # Idle => y = x
      PROVE  Knows' /\ InHand' /\ Kept'
  <2>1. ledger' = ledger /\ save[x] # Idle
    BY <1>5 DEF Replace, Idle
  <2>2. Readable' /\ Found' = ledger[x] /\ disk'[file'] = ledger[x]
    BY <1>5, LedgerAssumption DEF Readable, Found
  <2>3. \A y \in Sessions : ledger[y] # NotLoaded => y = x
    BY <1>5, <2>1, <1>1 DEF Known, Alive, Inv, SaverLoaded
  <2>4. \A y \in Sessions : save'[y] = Idle
    BY <1>5 DEF Replace, Inv, TypeOK
  <2>5. Knows'
    BY <2>1, <2>2, <2>3 DEF AsFar
  <2>6. InHand'
    BY <2>4
  <2>7. ASSUME NEW k \in Trades
        PROVE  reported'[k] <= 1 /\ (reported'[k] > 0 => ledger[x][k] # "none")
    <3>1. reported \in [Trades -> 0 .. 2]
      BY DEF Inv, TypeOK
    <3>2. CASE save[x].trade = k
      <4>1. reported[k] = 0 /\ ledger[x][k] # "none"
        BY <1>2, <2>1, <3>2
      <4>2. reported' = [reported EXCEPT ![k] = 1]
        BY <1>5, <3>2, <4>1, NoTradeAssumption DEF Replace
      <4>3. QED
        BY <3>1, <4>1, <4>2
    <3>3. CASE save[x].trade # k
      <4>1. reported'[k] = reported[k]
        BY <1>5, <3>1, <3>3 DEF Replace
      <4>2. reported[k] <= 1 /\ (reported[k] > 0 => Found[k] # "none")
        BY <1>2 DEF Found
      <4>3. AsFar(Found[k], ledger[x][k])
        BY <1>2, <2>1, <1>5, LedgerAssumption
      <4>4. QED
        BY <4>1, <4>2, <4>3 DEF AsFar
    <3>4. QED
      BY <3>2, <3>3
  <2>8. Kept'
    BY <2>2, <2>7
  <2>9. QED
    BY <2>5, <2>6, <2>8
<1>6. QED
  BY <1>1, <1>4, <1>5, FileSteps

LEMMA SoleStep == Sole /\ [Next]_vars => Sole'
<1>1. ASSUME Sole, [Next]_vars, ~alone'
      PROVE  Sole'
  BY <1>1, InvNext DEF Sole, Known, ReportedKept, ReportedOnce
<1>2. QED
  BY <1>1, SoleWhileAlone

LEMMA SoleAlways == Spec => []Sole
<1>1. Init => Sole
  BY InvInit DEF Sole, Init, ReportedKept, ReportedOnce
<1>2. QED
  BY <1>1, SoleStep, PTL DEF Spec

\* With one session at a time, a restart knows of every fill that was reported.
THEOREM ReportedAlwaysKept == Spec => []ReportedKept
<1>1. Sole => ReportedKept
  BY DEF Sole
<1>2. QED
  BY <1>1, SoleAlways, PTL

\* With one session at a time, no candidate's fill is reported twice.
THEOREM ReportedAlwaysOnce == Spec => []ReportedOnce
<1>1. Sole => ReportedOnce
  BY DEF Sole
<1>2. QED
  BY <1>1, SoleAlways, PTL

\* With one session at a time, the file forgets no trade and reopens none.
THEOREM FileNeverRegresses == Spec => FileNeverGoesBack
<1> DEFINE Step == (alone' /\ Readable) =>
                     /\ Readable'
                     /\ \A k \in Trades : AsFar(disk[file][k], (disk[file][k])')
<1>1. Sole /\ [Next]_vars => Step
  <2> SUFFICES ASSUME Sole, [Next]_vars, alone', Readable
               PROVE  /\ Readable'
                      /\ \A k \in Trades : AsFar(disk[file][k], (disk[file][k])')
    OBVIOUS
  <2>1. alone /\ ~overlap'
    BY AloneStep DEF Sole
  <2>2. CASE UNCHANGED file /\ (file # NoInode => disk'[file] = disk[file])
    BY <2>2 DEF Readable, AsFar
  <2>3. ASSUME NEW x \in Sessions, Replace(x), ledger[x] \in Ledgers,
               file' = temp, temp # NoInode, disk' = disk, disk[temp] = ledger[x]
        PROVE  /\ Readable'
               /\ \A k \in Trades : AsFar(disk[file][k], (disk[file][k])')
    <3>1. Readable' /\ Found = disk[file] /\ (disk[file])' = ledger[x]
      BY <2>3, LedgerAssumption DEF Readable, Found
    <3>2. x \in Alive
      BY <2>3, LedgerAssumption DEF Alive
    <3>3. QED
      BY <2>1, <3>1, <3>2 DEF Sole, Known
  <2>4. QED
    BY <2>1, <2>2, <2>3, FileSteps DEF Sole
<1>2. QED
  BY <1>1, SoleAlways, PTL DEF Spec, FileNeverGoesBack

=============================================================================
