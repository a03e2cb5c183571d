------------------------------ MODULE TraceDump ------------------------------
(***************************************************************************)
(* Package trace and `ipod view': a tracer logs the HID reports that are   *)
(* read ("in") and written ("out"), each direction in its order; dumpTrace *)
(* puts them all in a Queue and takes frames out of it, each from the      *)
(* direction of the message at the head, with a new Decoder.               *)
(*                                                                         *)
(* Part i of frame n of direction d is [dir |-> d, frame |-> n, part |-> i].*)
(* Its link control follows from the number of parts: the last one ends    *)
(* the frame.                                                              *)
(***************************************************************************)
EXTENDS Naturals, Sequences, SequencesExt

CONSTANTS
    Sizes,         \* numbers of reports a frame may take
    MaxFrames,     \* bound on the frames in each direction
    Cut            \* TRUE: the trace may end within a frame

ASSUME TraceAssumption ==
    /\ Sizes \subseteq Nat \ {0}
    /\ MaxFrames \in Nat
    /\ Cut \in BOOLEAN

Dirs == {"in", "out"}

VARIABLES
    pc,          \* "recording", "dumping" or "done"
    sizes,       \* the sizes of the frames recorded in each direction
    parts,       \* parts logged of the last of them
    trace,       \* the messages of the trace file
    queue,       \* trace.Queue: its list all; in and out are parts of it
    dir,         \* the direction that ReadFrame reads, or None
    buf,         \* Decoder.buf
    printed      \* the frames that were logged

None == "none"

vars == <<pc, sizes, parts, trace, queue, dir, buf, printed>>

Init ==
    /\ pc = "recording"
    /\ sizes = [d \in Dirs |-> <<>>] /\ parts = [d \in Dirs |-> 0]
    /\ trace = <<>> /\ queue = <<>>
    /\ dir = None /\ buf = <<>>
    /\ printed = <<>>

-----------------------------------------------------------------------------
(* Recording. *)

Whole(d) == parts[d] = IF sizes[d] = <<>> THEN 0 ELSE Last(sizes[d])

\* tracer.Read and tracer.Write log a report after it went through.
Log(d, n, i) == trace' = Append(trace, [dir |-> d, frame |-> n, part |-> i])

FirstReport(d, size) ==
    /\ pc = "recording"
    /\ Whole(d) /\ Len(sizes[d]) < MaxFrames
    /\ sizes' = [sizes EXCEPT ![d] = Append(@, size)]
    /\ parts' = [parts EXCEPT ![d] = 1]
    /\ Log(d, Len(sizes[d]) + 1, 1)
    /\ UNCHANGED <<pc, queue, dir, buf, printed>>

NextReport(d) ==
    /\ pc = "recording"
    /\ ~Whole(d)
    /\ parts' = [parts EXCEPT ![d] = @ + 1]
    /\ Log(d, Len(sizes[d]), parts[d] + 1)
    /\ UNCHANGED <<pc, sizes, queue, dir, buf, printed>>

\* ReadMsg and Enqueue, until io.EOF.
Load ==
    /\ pc = "recording"
    /\ Cut \/ \A d \in Dirs : Whole(d)
    /\ queue' = trace
    /\ pc' = "dumping"
    /\ UNCHANGED <<sizes, parts, trace, dir, buf, printed>>

-----------------------------------------------------------------------------
(* dumpTrace. *)

StartFrame(d) ==
    /\ dir' = d
    /\ buf' = <<>>
    /\ UNCHANGED <<pc, sizes, parts, trace, queue, printed>>

\* Mutation of TakeHead: what came in is shown first.
TakeHeadInFirst ==
    /\ pc = "dumping" /\ dir = None /\ queue # <<>>
    /\ StartFrame(IF \E i \in DOMAIN queue : queue[i].dir = "in" THEN "in" ELSE "out")

\* Queue.Head; a QueueDirReader and a Decoder for its direction.
TakeHead ==
    /\ pc = "dumping" /\ dir = None /\ queue # <<>>
    /\ StartFrame(Head(queue).dir)

\* What a report leaves in the decoder's buffer.
Accumulate(m) == IF m.part = 1 THEN <<m>> ELSE Append(buf, m)
EndsFrame(m) == m.part = sizes[m.dir][m.frame]

\* Mutation of FirstOf: Dequeue instead of DequeueDir.
FirstOfAny(d) == IF queue = <<>> THEN 0 ELSE 1

\* Where the first message of a direction is, 0 if there is none.
FirstOf(d) == SelectInSeq(queue, LAMBDA m : m.dir = d)

\* DequeueDir, the decoder's switch, and the frame is logged when it is whole.
ReadReport ==
    /\ dir # None
    /\ FirstOf(dir) # 0
    /\ LET m == queue[FirstOf(dir)] IN
          /\ queue' = RemoveAt(queue, FirstOf(dir))
          /\ buf' = Accumulate(m)
          /\ IF EndsFrame(m)
             THEN printed' = Append(printed, buf') /\ dir' = None
             ELSE UNCHANGED <<printed, dir>>
    /\ UNCHANGED <<pc, sizes, parts, trace>>

\* Mutation of ReadEOF: the reader is not given up.
ReadEOFKeeps ==
    /\ dir # None
    /\ FirstOf(dir) = 0
    /\ pc' = "done"
    /\ UNCHANGED <<sizes, parts, trace, queue, dir, buf, printed>>

\* The direction is exhausted within a frame: the loop is left.
ReadEOF ==
    /\ dir # None
    /\ FirstOf(dir) = 0
    /\ pc' = "done" /\ dir' = None
    /\ UNCHANGED <<sizes, parts, trace, queue, buf, printed>>

NoHead ==
    /\ pc = "dumping" /\ dir = None /\ queue = <<>>
    /\ pc' = "done"
    /\ UNCHANGED <<sizes, parts, trace, queue, dir, buf, printed>>

-----------------------------------------------------------------------------
Next ==
    \/ \E d \in Dirs : NextReport(d) \/ \E size \in Sizes : FirstReport(d, size)
    \/ Load \/ TakeHead \/ ReadReport \/ ReadEOF \/ NoHead

Spec == Init /\ [][Next]_vars

-----------------------------------------------------------------------------
(* Correctness. *)

Msg == [dir : Dirs, frame : Nat \ {0}, part : Nat \ {0}]

\* Every variable has its type; a frame is read only while dumping.
TypeOK ==
    /\ pc \in {"recording", "dumping", "done"}
    /\ sizes \in [Dirs -> Seq(Sizes)] /\ parts \in [Dirs -> Nat]
    /\ trace \in Seq(Msg) /\ queue \in Seq(Msg)
    /\ dir \in Dirs \cup {None} /\ (dir # None => pc = "dumping")
    /\ buf \in Seq(Msg) /\ printed \in Seq(Seq(Msg))

Complete(d, n) == n < Len(sizes[d]) \/ Whole(d)
FrameOf(d, n) == [i \in 1..sizes[d][n] |-> [dir |-> d, frame |-> n, part |-> i]]
Begins(d, n) == SelectInSeq(trace, LAMBDA m : m = [dir |-> d, frame |-> n, part |-> 1])
CutAt == {Begins(d, Len(sizes[d])) : d \in {e \in Dirs : ~Whole(e)}}

\* What is printed are frames of the trace, whole and unmixed although the
\* reports of the two directions interleave, in the order in which they begin.
PrintedInOrder ==
    /\ \A k \in DOMAIN printed :
          printed[k] = FrameOf(printed[k][1].dir, printed[k][1].frame)
    /\ \A k, l \in DOMAIN printed :
          k < l => Begins(printed[k][1].dir, printed[k][1].frame)
                       < Begins(printed[l][1].dir, printed[l][1].frame)

\* In the end every frame is printed; if the trace is cut within a frame, every
\* one that begins before that.
AllPrinted ==
    pc = "done" =>
        \A d \in Dirs : \A n \in DOMAIN sizes[d] :
            /\ Complete(d, n)
            /\ \A at \in CutAt : Begins(d, n) < at
            => FrameOf(d, n) \in Range(printed)
=============================================================================
