------------------------------- MODULE Outbox -------------------------------
(***************************************************************************)
(* store::Outbox (src/src/store/outbox.h): the queue of submissions that   *)
(* have not been acknowledged, its dedupe set, and the append-only file    *)
(* behind it, under any client.  Every public method takes the mutex for   *)
(* its whole body, so a method is one action; the two methods that loop    *)
(* over records (loadFromFile, rewriteFile) hold the mutex across the loop *)
(* and are one action per record, because the process may die between two  *)
(* records and what is already in the file stays there.                    *)
(*                                                                         *)
(* A record is written by three ofs.write calls and read back as a fixed   *)
(* 92-byte frame.  The file is a sequence of cells <<record, part>>, the   *)
(* frame three consecutive cells: a write cut short (process death, full   *)
(* disk) leaves fewer, and shifts the framing of whatever follows.         *)
(***************************************************************************)
EXTENDS Naturals, Sequences

CONSTANTS Hit,      \* PendingSubmit values: records with fields wid, nonce, hdr
          Junk,     \* the PendingSubmit a misframed window decodes to
          Word,     \* 2^32: work_id << 32 keeps the low 32 bits of a work_id
          Epochs,   \* the seconds that can appear in a <path>.<epoch>.bak name
          Faults    \* the I/O faults the environment may inject

ASSUME OutboxAssumption ==
  /\ Hit \subseteq [wid : Nat, nonce : Nat, hdr : Nat]
  /\ Junk \notin Hit
  /\ Word \in Nat \ {0}
  /\ Faults \subseteq {"tear", "rename", "copy"}

VARIABLES q,        \* q_, the FIFO
          seen,     \* seen_, the keys ever enqueued (or loaded) and not dropped
          file,     \* contents of the outbox file
          present,  \* the file exists
          baks,     \* epoch -> contents of <path>.<epoch>.bak
          op,       \* the looping method that holds the mutex, or "none"
          idx       \* that method's loop position

outboxVars == <<q, seen, file, present, baks, op, idx>>

Records == Hit \cup {Junk}
Parts == 1..3
Cell == Records \X Parts

(* (work_id << 32) ^ nonce, 64 bits wide: a nonce fits under the shift, so *)
(* the key is the pair of the low word of work_id and the nonce.           *)
Key(r) == IF r = Junk THEN <<Junk>> ELSE <<r.wid % Word, r.nonce>>

Keys == {Key(r) : r \in Records}

Cells(r) == <<<<r, 1>>, <<r, 2>>, <<r, 3>>>>

Frames(f) == Len(f) \div 3

(* The k-th frame of f holds exactly the three parts of record r. *)
Framed(f, k, r) == \A p \in Parts : f[3 * (k - 1) + p] = <<r, p>>

(* What the three ifs.read calls return for frame k. *)
Decode(f, k) == IF \E r \in Hit : Framed(f, k, r)
                THEN CHOOSE r \in Hit : Framed(f, k, r)
                ELSE Junk

(* Somewhere in f, framed or not, the three parts of r are all there. *)
Intact(f, r) == \E i \in 0..Len(f) : /\ i + 3 <= Len(f)
                                     /\ \A p \in Parts : f[i + p] = <<r, p>>

OutboxInit == /\ q = <<>>
              /\ seen = {}
              /\ file = <<>>
              /\ present = FALSE
              /\ baks = [e \in Epochs |-> <<>>]
              /\ op = "none"
              /\ idx = 0

-----------------------------------------------------------------------------
(* Memory-only methods. *)

EnqueueForgetsKey(r) ==
  /\ op = "none"
  /\ q' = IF Key(r) \in seen THEN q ELSE Append(q, r)
  /\ seen' = seen
  /\ UNCHANGED <<file, present, baks, op, idx>>

EnqueueWideKey(r) ==
  /\ op = "none"
  /\ q' = IF Key(r) \in seen THEN q ELSE Append(q, r)
  /\ seen' = seen \cup {IF r = Junk THEN Key(r) ELSE <<r.wid, r.nonce>>}
  /\ UNCHANGED <<file, present, baks, op, idx>>

enqueue(r) ==
  /\ op = "none"
  /\ q' = IF Key(r) \in seen THEN q ELSE Append(q, r)
  /\ seen' = seen \cup {Key(r)}
  /\ UNCHANGED <<file, present, baks, op, idx>>

DequeueForgetsKey ==
  /\ op = "none"
  /\ q # <<>>
  /\ q' = Tail(q)
  /\ seen' = seen \ {Key(Head(q))}
  /\ UNCHANGED <<file, present, baks, op, idx>>

tryDequeue ==
  /\ op = "none"
  /\ q # <<>>
  /\ q' = Tail(q)
  /\ UNCHANGED <<seen, file, present, baks, op, idx>>

FirstMatch(wid, nonce, i) ==
  /\ q[i] # Junk /\ q[i].wid = wid /\ q[i].nonce = nonce
  /\ \A j \in 1..(i - 1) : ~(q[j] # Junk /\ q[j].wid = wid /\ q[j].nonce = nonce)

WithoutIndex(s, i) == [j \in 1..(Len(s) - 1) |-> IF j < i THEN s[j] ELSE s[j + 1]]

drop(wid, nonce) ==
  /\ op = "none"
  /\ \E i \in DOMAIN q :
       /\ FirstMatch(wid, nonce, i)
       /\ q' = WithoutIndex(q, i)
       /\ seen' = seen \ {Key(q[i])}
  /\ UNCHANGED <<file, present, baks, op, idx>>

-----------------------------------------------------------------------------
(* File methods. *)

AppendTruncates(r, n) ==
  /\ op = "none"
  /\ n = 3 \/ "tear" \in Faults
  /\ file' = SubSeq(Cells(r), 1, n)
  /\ present' = (present \/ n > 0)
  /\ UNCHANGED <<q, seen, baks, op, idx>>

(* n of the three writes reach the disk.  The method returns true whatever *)
(* the writes did; n = 0 is also the open that fails.                      *)
appendToFile(r, n) ==
  /\ op = "none"
  /\ n = 3 \/ "tear" \in Faults
  /\ file' = file \o SubSeq(Cells(r), 1, n)
  /\ present' = (present \/ n > 0)
  /\ UNCHANGED <<q, seen, baks, op, idx>>

clearFile ==
  /\ op = "none"
  /\ file' = <<>>
  /\ present' = TRUE
  /\ UNCHANGED <<q, seen, baks, op, idx>>

RotateRename(e) ==
  /\ present
  /\ baks' = [baks EXCEPT ![e] = file]
  /\ file' = <<>>
  /\ present' = FALSE

(* rename failed, copy_file worked, the original is truncated. *)
RotateCopy(e) ==
  /\ present
  /\ "rename" \in Faults
  /\ baks' = [baks EXCEPT ![e] = file]
  /\ file' = <<>>
  /\ present' = TRUE

(* rename and copy_file both failed (always so when there is no file):     *)
(* the error code of the copy is not looked at and the file is truncated.  *)
RotateTruncate ==
  /\ present => {"rename", "copy"} \subseteq Faults
  /\ file' = <<>>
  /\ present' = TRUE
  /\ UNCHANGED baks

rotateFile(e) ==
  /\ op = "none"
  /\ RotateRename(e) \/ RotateCopy(e) \/ RotateTruncate
  /\ UNCHANGED <<q, seen, op, idx>>

LoadBegin ==
  /\ op = "none"
  /\ present
  /\ q' = <<>>
  /\ seen' = {}
  /\ op' = "load"
  /\ idx' = 1
  /\ UNCHANGED <<file, present, baks>>

LoadKeepsLast ==
  /\ op = "load"
  /\ idx <= Frames(file)
  /\ LET r == Decode(file, idx)
     IN  /\ q' = IF Key(r) \in seen
                 THEN [i \in DOMAIN q |-> IF Key(q[i]) = Key(r) THEN r ELSE q[i]]
                 ELSE Append(q, r)
         /\ seen' = seen \cup {Key(r)}
  /\ idx' = idx + 1
  /\ UNCHANGED <<file, present, baks, op>>

LoadRecord ==
  /\ op = "load"
  /\ idx <= Frames(file)
  /\ LET r == Decode(file, idx)
     IN  /\ q' = IF Key(r) \in seen THEN q ELSE Append(q, r)
         /\ seen' = seen \cup {Key(r)}
  /\ idx' = idx + 1
  /\ UNCHANGED <<file, present, baks, op>>

LoadEnd ==
  /\ op = "load"
  /\ idx > Frames(file)
  /\ op' = "none"
  /\ idx' = 0
  /\ UNCHANGED <<q, seen, file, present, baks>>

RewriteBegin ==
  /\ op = "none"
  /\ file' = <<>>
  /\ present' = TRUE
  /\ op' = "rewrite"
  /\ idx' = 1
  /\ UNCHANGED <<q, seen, baks>>

RewriteDropsHeader(n) ==
  /\ op = "rewrite"
  /\ idx <= Len(q)
  /\ n = 3 \/ "tear" \in Faults
  /\ file' = file \o SubSeq(Cells(q[idx]), 1, 2)
  /\ idx' = idx + 1
  /\ UNCHANGED <<q, seen, present, baks, op>>

RewriteRecord(n) ==
  /\ op = "rewrite"
  /\ idx <= Len(q)
  /\ n = 3 \/ "tear" \in Faults
  /\ file' = file \o SubSeq(Cells(q[idx]), 1, n)
  /\ idx' = idx + 1
  /\ UNCHANGED <<q, seen, present, baks, op>>

RewriteEnd ==
  /\ op = "rewrite"
  /\ idx > Len(q)
  /\ op' = "none"
  /\ idx' = 0
  /\ UNCHANGED <<q, seen, file, present, baks>>

(* The process ends, whatever it was doing: memory is gone, files stay. *)
Die ==
  /\ q' = <<>>
  /\ seen' = {}
  /\ op' = "none"
  /\ idx' = 0
  /\ UNCHANGED <<file, present, baks>>

-----------------------------------------------------------------------------
OutboxNext ==
  \/ \E r \in Records : enqueue(r)
  \/ tryDequeue
  \/ \E r \in Hit : drop(r.wid, r.nonce)
  \/ \E r \in Records, n \in 0..3 : appendToFile(r, n)
  \/ clearFile
  \/ \E e \in Epochs : rotateFile(e)
  \/ LoadBegin
  \/ LoadRecord
  \/ LoadEnd
  \/ RewriteBegin
  \/ \E n \in 0..3 : RewriteRecord(n)
  \/ RewriteEnd
  \/ Die

OutboxSpec == OutboxInit /\ [][OutboxNext]_outboxVars

-----------------------------------------------------------------------------
(* Types of the outbox's memory and files. *)
OutboxTypeOK ==
  /\ q \in Seq(Records)
  /\ seen \subseteq Keys
  /\ file \in Seq(Cell)
  /\ present \in BOOLEAN
  /\ baks \in [Epochs -> Seq(Cell)]
  /\ op \in {"none", "load", "rewrite"}
  /\ idx \in Nat

(* The dedupe of enqueue and loadFromFile works over any sequence of calls, *)
(* including drop (which frees a key) and reload: no two queued records     *)
(* share a key, and a queued record's key is in seen_, so enqueueing it     *)
(* again is a no-op.                                                        *)
QueueDeduped ==
  /\ \A i, j \in DOMAIN q : Key(q[i]) = Key(q[j]) => i = j
  /\ \A i \in DOMAIN q : Key(q[i]) \in seen

(* While rewriteFile runs, and when it returns, the file is exactly the     *)
(* well-framed image of the queue's prefix it has gone through (when no     *)
(* write is cut short): reading it back gives those records, in order,      *)
(* with no frame shifted, whatever was in the file before.                  *)
RewriteFramed ==
  op = "rewrite" /\ "tear" \notin Faults =>
    /\ Len(file) = 3 * (idx - 1)
    /\ \A k \in 1..(idx - 1) : Framed(file, k, q[k])

(* Frame k of f is the first one with its key. *)
FirstOfKey(f, k) == \A j \in 1..(k - 1) : Key(Decode(f, j)) # Key(Decode(f, k))

(* loadFromFile keeps the first record of every key and no other, in the    *)
(* order of the file, whatever the file looks like: at every turn of the    *)
(* loop each frame read that is the first of its key is queued, each queued *)
(* record is such a frame, an earlier frame is queued before a later one,   *)
(* and seen_ has the keys of the frames read.                               *)
LoadComplete ==
  op = "load" =>
    /\ seen = {Key(Decode(file, k)) : k \in 1..(idx - 1)}
    /\ \A k \in 1..(idx - 1) :
         FirstOfKey(file, k) => \E i \in DOMAIN q : q[i] = Decode(file, k)
    /\ \A i \in DOMAIN q :
         \E k \in 1..(idx - 1) : q[i] = Decode(file, k) /\ FirstOfKey(file, k)
    /\ \A i, j \in DOMAIN q, k, l \in 1..(idx - 1) :
         /\ q[i] = Decode(file, k) /\ FirstOfKey(file, k)
         /\ q[j] = Decode(file, l) /\ FirstOfKey(file, l)
         /\ k < l
         => i < j
=============================================================================
