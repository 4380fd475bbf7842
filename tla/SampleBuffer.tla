---------------------------- MODULE SampleBuffer ----------------------------
(***************************************************************************)
(* The double buffer between the thread that samples a device and the      *)
(* kernel's thread, which shows the application what is in it.  Its        *)
(* operations hold its mutex, so each is one step of who calls it.         *)
(***************************************************************************)
EXTENDS Naturals, Sequences

CONSTANT MAX_BUFFER_SIZE

ASSUME BufferAssumption == MAX_BUFFER_SIZE \in Nat \ {0}

EmptyBuffer == [ready |-> <<>>, stable |-> <<>>]

\* What is left of a ready buffer that has grown too long: its newest samples.
\* Mutant: its oldest.
KeptFirst(q) == IF Len(q) > MAX_BUFFER_SIZE THEN SubSeq(q, 1, MAX_BUFFER_SIZE) ELSE q
Kept(q) == IF Len(q) > MAX_BUFFER_SIZE
           THEN SubSeq(q, Len(q) - MAX_BUFFER_SIZE + 1, Len(q)) ELSE q

addSample(b, s) == [b EXCEPT !.ready = Kept(Append(@, s))]

\* An empty ready buffer leaves the stable one alone.  Mutant: the ready buffer is
\* cleared before it is copied.
swapClearedBuffer(b) == IF b.ready # <<>> THEN EmptyBuffer ELSE b
swapBuffers(b) == IF b.ready # <<>> THEN [ready |-> <<>>, stable |-> b.ready] ELSE b

\* getDigitalData(): the last stable sample, or the default value, which is sample 0.
getData(b) == IF b.stable # <<>> THEN b.stable[Len(b.stable)] ELSE 0

\* readObject(): the samples of another node's stable buffer, added and swapped in.
readObject(b, data) == swapBuffers([b EXCEPT !.ready = Kept(@ \o data)])
=============================================================================
