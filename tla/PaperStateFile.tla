--------------------------- MODULE PaperStateFile ---------------------------
(***************************************************************************)
(* data/paper_state.json as the sessions of the process write and read it. *)
(* Every Streamlit session (a browser tab, or the old and the new script   *)
(* of a page that is reloaded) runs in a thread of its own and keeps its   *)
(* own ledger; all of them save to the same path through the same          *)
(* temporary path.  PaperTrading models what one session does to its       *)
(* ledger; here a ledger is only what became of each candidate.            *)
(*                                                                         *)
(* A path names an inode or nothing.  write_text opens the temporary path, *)
(* which creates or empties it, and then writes through its handle, which  *)
(* follows the inode wherever a rename has put it meanwhile.               *)
(***************************************************************************)
EXTENDS Naturals

CONSTANTS
  Sessions,    \* sessions alive at once
  Trades,      \* candidates of one run, each on a symbol of its own
  Inodes,      \* enough of them that a free one is always left
  NoInode,     \* the path does not exist
  NotLoaded,   \* the session's script has not started
  Empty,       \* what a file holds that was just opened for writing
  Torn,        \* what a file holds that is not a JSON document
  NoTrade,     \* the save is a checkpoint: it reports no fill
  MaxCrashes,  \* bound: crashes of the process
  MaxFaults    \* bound: writes that raise

\* What a session or the file knows of each candidate.
Fates == {"none", "open", "closed"}
Ledgers == [Trades -> Fates]
Contents == Ledgers \cup {Empty, Torn}

ASSUME NoInodeAssumption == NoInode \notin Inodes
ASSUME LedgerAssumption == Ledgers \cap {NotLoaded, Empty, Torn} = {}
ASSUME EmptyAssumption == Empty # Torn
ASSUME NoTradeAssumption == NoTrade \notin Trades
ASSUME BoundsAssumption == MaxCrashes \in Nat /\ MaxFaults \in Nat

VARIABLES
  ledger,     \* per session: paper_broker and paper_positions
  save,       \* per session: how far persist_trading_state is
  file,       \* the inode PAPER_STATE_PATH names
  temp,       \* the inode its .tmp names
  disk,       \* what each inode holds
  reported,   \* history: how often each candidate's fill was reported; 2 is twice or more
  alone,      \* history: no session ever started beside another
  overlap,    \* history: two saves were once under way at the same time
  crashes,    \* crashes so far (bound only)
  faults      \* writes that raised so far (bound only)

vars == <<ledger, save, file, temp, disk, reported, alone, overlap, crashes, faults>>

Saves == [step: {"idle", "opened", "written"}, inode: Inodes \cup {NoInode},
          trade: Trades \cup {NoTrade}]

Idle == [step |-> "idle", inode |-> NoInode, trade |-> NoTrade]
Fresh == [k \in Trades |-> "none"]

Init ==
  /\ ledger = [x \in Sessions |-> NotLoaded]
  /\ save = [x \in Sessions |-> Idle]
  /\ file = NoInode
  /\ temp = NoInode
  /\ disk = [i \in Inodes |-> Empty]
  /\ reported = [k \in Trades |-> 0]
  /\ alone = TRUE
  /\ overlap = FALSE
  /\ crashes = 0
  /\ faults = 0

-----------------------------------------------------------------------------
\* Mutants: the parse error is not noticed; nothing is ever restored.
FoundUnchecked == IF file # NoInode THEN disk[file] ELSE Fresh
FoundNothing == Fresh

\* What a session finds: nothing to restore when the file does not exist or
\* does not parse.
Readable == file # NoInode /\ disk[file] \in Ledgers
Found == IF Readable THEN disk[file] ELSE Fresh

Alive == {x \in Sessions : ledger[x] # NotLoaded}
Saving == {x \in Sessions : save[x] # Idle}

\* restore_trading_state_once, the first thing a session's script does.
Restore(x) ==
  /\ ledger[x] = NotLoaded
  /\ ledger' = [ledger EXCEPT ![x] = Found]
  /\ alone' = (alone /\ Alive = {})
  /\ UNCHANGED <<save, file, temp, disk, reported, overlap, crashes, faults>>

\* The browser leaves, or Streamlit stops the script of a page reloaded: not
\* within a save, which reads nothing of st.session_state any more.
Leave(x) ==
  /\ ledger[x] # NotLoaded
  /\ save[x] = Idle
  /\ ledger' = [ledger EXCEPT ![x] = NotLoaded]
  /\ UNCHANGED <<save, file, temp, disk, reported, alone, overlap, crashes, faults>>

-----------------------------------------------------------------------------
(***************************************************************************)
(* persist_trading_state: open, write, rename.                             *)
(***************************************************************************)
Free == Inodes \ ({file, temp} \cup {save[x].inode : x \in Sessions})

\* Mutants: the file is written in place, without a temporary one; the temporary
\* file is opened to append.
OpenInPlace(x, k) ==
  /\ file' \in IF file = NoInode THEN Free ELSE {file}
  /\ temp' = file'
  /\ disk' = [disk EXCEPT ![file'] = Empty]
  /\ save' = [save EXCEPT ![x] = [step |-> "opened", inode |-> file', trade |-> k]]
  /\ overlap' = (overlap \/ Saving # {})

OpenAppending(x, k) ==
  /\ temp' \in IF temp = NoInode THEN Free ELSE {temp}
  /\ disk' = IF temp = NoInode THEN [disk EXCEPT ![temp'] = Empty] ELSE disk
  /\ save' = [save EXCEPT ![x] = [step |-> "opened", inode |-> temp', trade |-> k]]
  /\ overlap' = (overlap \/ Saving # {})
  /\ UNCHANGED file

\* open(temp, "w"): the inode is there and emptied, or created.
Open(x, k) ==
  /\ temp' \in IF temp = NoInode THEN Free ELSE {temp}
  /\ disk' = [disk EXCEPT ![temp'] = Empty]
  /\ save' = [save EXCEPT ![x] = [step |-> "opened", inode |-> temp', trade |-> k]]
  /\ overlap' = (overlap \/ Saving # {})
  /\ UNCHANGED file

\* A fill and its save: the ledger is the session's own, so the fill and the
\* opening of the file are one step.
Fill(x, k) ==
  /\ ledger[x] # NotLoaded
  /\ save[x] = Idle
  /\ ledger[x][k] = "none"
  /\ ledger' = [ledger EXCEPT ![x][k] = "open"]
  /\ Open(x, k)
  /\ UNCHANGED <<reported, alone, crashes, faults>>

\* An exit is not saved before the next checkpoint or fill.
Exit(x, k) ==
  /\ ledger[x] # NotLoaded
  /\ save[x] = Idle
  /\ ledger[x][k] = "open"
  /\ ledger' = [ledger EXCEPT ![x][k] = "closed"]
  /\ UNCHANGED <<save, file, temp, disk, reported, alone, overlap, crashes, faults>>

\* The checkpoint after a pipeline.
Checkpoint(x) ==
  /\ ledger[x] # NotLoaded
  /\ save[x] = Idle
  /\ Open(x, NoTrade)
  /\ UNCHANGED <<ledger, reported, alone, crashes, faults>>

\* What the handle writes is whole, unless another session writes to the same
\* inode or has: the two texts mix.
Mixes(x) ==
  LET at == save[x].inode
  IN \/ disk[at] # Empty
     \/ \E y \in Sessions \ {x} : save[y].step = "opened" /\ save[y].inode = at

Write(x) ==
  /\ save[x].step = "opened"
  /\ \E text \in {ledger[x]} \cup {t \in {Torn} : Mixes(x)} :
       disk' = [disk EXCEPT ![save[x].inode] = text]
  /\ save' = [save EXCEPT ![x].step = "written"]
  /\ UNCHANGED <<ledger, file, temp, reported, alone, overlap, crashes, faults>>

\* Mutant: the exception is swallowed and the fill reported.
WriteFailsQuietly(x) ==
  /\ save[x].step = "opened"
  /\ faults < MaxFaults
  /\ faults' = faults + 1
  /\ disk' = [disk EXCEPT ![save[x].inode] = Torn]
  /\ save' = [save EXCEPT ![x] = Idle]
  /\ reported' = [k \in Trades |-> IF k = save[x].trade THEN 1 ELSE reported[k]]
  /\ UNCHANGED <<ledger, file, temp, alone, overlap, crashes>>

\* Writing raises: persist_trading_state's caller sees the exception.
WriteFails(x) ==
  /\ save[x].step = "opened"
  /\ faults < MaxFaults
  /\ faults' = faults + 1
  /\ disk' = [disk EXCEPT ![save[x].inode] = Torn]
  /\ save' = [save EXCEPT ![x] = Idle]
  /\ UNCHANGED <<ledger, file, temp, reported, alone, overlap, crashes>>

\* temp.replace(PAPER_STATE_PATH): whatever the temporary path names by now
\* becomes the file; a fill is reported.
Replace(x) ==
  /\ save[x].step = "written"
  /\ temp # NoInode
  /\ file' = temp
  /\ temp' = NoInode
  /\ save' = [save EXCEPT ![x] = Idle]
  /\ reported' = IF save[x].trade = NoTrade THEN reported
                 ELSE [reported EXCEPT ![save[x].trade] = IF @ = 2 THEN 2 ELSE @ + 1]
  /\ UNCHANGED <<ledger, disk, alone, overlap, crashes, faults>>

\* Another session renamed it already: FileNotFoundError.
ReplaceFails(x) ==
  /\ save[x].step = "written"
  /\ temp = NoInode
  /\ save' = [save EXCEPT ![x] = Idle]
  /\ UNCHANGED <<ledger, file, temp, disk, reported, alone, overlap, crashes, faults>>

\* The process dies at any point; both paths stay as they are.
Crash ==
  /\ crashes < MaxCrashes
  /\ crashes' = crashes + 1
  /\ ledger' = [x \in Sessions |-> NotLoaded]
  /\ save' = [x \in Sessions |-> Idle]
  /\ UNCHANGED <<file, temp, disk, reported, alone, overlap, faults>>

Next ==
  \/ \E x \in Sessions :
       \/ Restore(x) \/ Leave(x) \/ Checkpoint(x)
       \/ \E k \in Trades : Fill(x, k) \/ Exit(x, k)
       \/ Write(x) \/ WriteFails(x) \/ Replace(x) \/ ReplaceFails(x)
  \/ Crash

Spec == Init /\ [][Next]_vars

-----------------------------------------------------------------------------
(***************************************************************************)
(* Properties.                                                             *)
(***************************************************************************)
TypeOK ==
  /\ ledger \in [Sessions -> Ledgers \cup {NotLoaded}]
  /\ save \in [Sessions -> Saves]
  /\ file \in Inodes \cup {NoInode}
  /\ temp \in Inodes \cup {NoInode}
  /\ disk \in [Inodes -> Contents]
  /\ reported \in [Trades -> 0 .. 2]
  /\ {alone, overlap} \subseteq BOOLEAN
  /\ crashes \in 0 .. MaxCrashes
  /\ faults \in 0 .. MaxFaults

\* As long as no two saves overlapped, the file parses at every moment,
\* whatever save, failed write or crash is under way.
FileReadable == ~overlap => (file # NoInode => disk[file] \in Ledgers)

\* As long as no two saves overlapped, a save that does not raise leaves in the
\* file the ledger of the session that saved, whatever an earlier save left in
\* the temporary file.
SaveInstalls ==
  [][\A x \in Sessions :
       (save[x].step = "written" /\ file' # file /\ save'[x] = Idle /\ ~overlap) =>
         file' # NoInode /\ disk'[file'] = ledger[x]]_vars

\* With one session at a time, a fill that was reported is in the file, so a
\* restart knows of it.
ReportedKept ==
  alone => \A k \in Trades : reported[k] > 0 => Readable /\ disk[file][k] # "none"

\* With one session at a time no candidate's fill is reported twice, over any
\* number of crashes, failed writes and sessions.
ReportedOnce == alone => \A k \in Trades : reported[k] <= 1

\* b is as far as a in the life of a candidate.
AsFar(a, b) == a = "none" \/ a = b \/ b = "closed"

\* With one session at a time the file never goes back: a trade it knows is not
\* forgotten and a trade it has as closed is not open again.
FileNeverGoesBack ==
  [][(alone' /\ Readable) =>
       /\ Readable'
       /\ \A k \in Trades : AsFar(disk[file][k], (disk[file][k])')]_vars

=============================================================================
