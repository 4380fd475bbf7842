---------------------------- MODULE InputDevices ----------------------------
(***************************************************************************)
(* The device drivers: objects that sample a device into one buffer for    *)
(* each type of data it has.  Most start a thread that samples until it is *)
(* told to exit; a polled one samples when the kernel updates it.          *)
(*                                                                         *)
(* A driver object is made when an element is configured and is never      *)
(* started twice.  Samples are numbered in the order the device has them.  *)
(***************************************************************************)
EXTENDS SampleBuffer

CONSTANTS
    Devices,        \* the driver objects
    NoDevice,
    Types,          \* the types of input data
    Channels,       \* the types each object has, in the order sample() adds to them
    SwapOrder,      \* in the order updateData() swaps them
    Polled,         \* the objects without a thread
    MaxSamples      \* bounds the samples of each object

HasType(o, t) == \E k \in DOMAIN Channels[o] : Channels[o][k] = t

ASSUME DevicesAssumption ==
    /\ NoDevice \notin Devices /\ Polled \subseteq Devices
    /\ Channels \in [Devices -> Seq(Types)] /\ SwapOrder \in [Devices -> Seq(Types)]
    /\ MaxSamples \in [Devices -> Nat]
    /\ \A o \in Devices : Len(Channels[o]) > 0

\* updateData() swaps each type that sample() adds to, and has one buffer for each.
ASSUME SwapOrderAssumption == \A o \in Devices :
    /\ \A j, k \in 1 .. Len(Channels[o]) : Channels[o][j] = Channels[o][k] => j = k
    /\ \A j, k \in 1 .. Len(SwapOrder[o]) : SwapOrder[o][j] = SwapOrder[o][k] => j = k
    /\ \A k \in 1 .. Len(Channels[o]) :
          \E j \in 1 .. Len(SwapOrder[o]) : SwapOrder[o][j] = Channels[o][k]
    /\ \A j \in 1 .. Len(SwapOrder[o]) : HasType(o, SwapOrder[o][j])

VARIABLES
    created,    \* the objects that have been made
    thread,     \* where each object's thread is in controlLoop(); "none": mThread is NULL
    mExitFlag,
    taken,      \* how many samples the device has given
    adding,     \* the channel sample() adds to next
    samples     \* the buffers

driverVars == <<created, thread, mExitFlag, taken, adding, samples>>

DriversInit ==
    /\ created = {}
    /\ thread = [o \in Devices |-> "none"]
    /\ mExitFlag = [o \in Devices |-> FALSE]
    /\ taken = [o \in Devices |-> 0]
    /\ adding = [o \in Devices |-> 1]
    /\ samples = [o \in Devices |-> [t \in Types |-> EmptyBuffer]]

-----------------------------------------------------------------------------
(* The sampling threads. *)

\* controlLoop() tests the flag, and sample() waits for what the device has next.
controlLoopExits(o) ==
    /\ thread[o] = "test" /\ mExitFlag[o]
    /\ thread' = [thread EXCEPT ![o] = "none"]
    /\ UNCHANGED <<created, mExitFlag, taken, adding, samples>>

sample(o) ==
    /\ thread[o] = "test" /\ ~mExitFlag[o] /\ taken[o] < MaxSamples[o]
    /\ thread' = [thread EXCEPT ![o] = "sample"]
    /\ taken' = [taken EXCEPT ![o] = @ + 1]
    /\ UNCHANGED <<created, mExitFlag, adding, samples>>

\* sample() locks one buffer after the other.  Mutants: it swaps them as well; it does
\* not begin with the first one again.
addSampleAndSwap(o) ==
    LET t == Channels[o][adding[o]]
        last == adding[o] = Len(Channels[o])
    IN  /\ thread[o] = "sample"
        /\ samples' = [samples EXCEPT ![o][t] = swapBuffers(addSample(@, taken[o]))]
        /\ adding' = [adding EXCEPT ![o] = IF last THEN 1 ELSE @ + 1]
        /\ thread' = [thread EXCEPT ![o] = IF last THEN "test" ELSE @]
        /\ UNCHANGED <<created, mExitFlag, taken>>
addSampleOnwards(o) ==
    LET t == Channels[o][adding[o]]
        last == adding[o] = Len(Channels[o])
    IN  /\ thread[o] = "sample"
        /\ samples' = [samples EXCEPT ![o][t] = addSample(@, taken[o])]
        /\ adding' = [adding EXCEPT ![o] = @ + 1]
        /\ thread' = [thread EXCEPT ![o] = IF last THEN "test" ELSE @]
        /\ UNCHANGED <<created, mExitFlag, taken>>
addDeviceSample(o) ==
    LET t == Channels[o][adding[o]]
        last == adding[o] = Len(Channels[o])
    IN  /\ thread[o] = "sample"
        /\ samples' = [samples EXCEPT ![o][t] = addSample(@, taken[o])]
        /\ adding' = [adding EXCEPT ![o] = IF last THEN 1 ELSE @ + 1]
        /\ thread' = [thread EXCEPT ![o] = IF last THEN "test" ELSE @]
        /\ UNCHANGED <<created, mExitFlag, taken>>

Sampling(o) == controlLoopExits(o) \/ sample(o) \/ addDeviceSample(o)

-----------------------------------------------------------------------------
(* What the kernel's thread does to an object. *)

\* A start that fails leaves nothing behind, and the element stays pending.
startSampling(o) ==
    /\ o \notin created /\ created' = created \cup {o}
    /\ thread' = [thread EXCEPT ![o] = IF o \in Polled THEN @ ELSE "test"]
    /\ mExitFlag' = [mExitFlag EXCEPT ![o] = FALSE]
    /\ UNCHANGED <<taken, adding, samples>>

\* stopSampling() raises the flag, and joins the thread: it returns when Joined(o).
\* Mutants: it is not raised; it does not wait.
raiseNoExitFlag(o) == UNCHANGED driverVars
raiseExitFlag(o) ==
    /\ mExitFlag' = [mExitFlag EXCEPT ![o] = TRUE]
    /\ UNCHANGED <<created, thread, taken, adding, samples>>
JoinedEarly(o) == mExitFlag[o] \/ thread[o] = "none"
Joined(o) == thread[o] = "none"

\* updateData() of a driver with a thread: the buffer of the k-th channel.
\* Mutant: the other way round.
swapChannelBackwards(o, k) ==
    LET t == SwapOrder[o][Len(SwapOrder[o]) + 1 - k]
    IN  /\ samples' = [samples EXCEPT ![o][t] = swapBuffers(@)]
        /\ UNCHANGED <<created, thread, mExitFlag, taken, adding>>
swapChannel(o, k) ==
    LET t == SwapOrder[o][k]
    IN  /\ samples' = [samples EXCEPT ![o][t] = swapBuffers(@)]
        /\ UNCHANGED <<created, thread, mExitFlag, taken, adding>>

\* updateData() of a polled driver: what has happened since, or nothing new, is the
\* sample of this update on every channel.  (If it cannot be read, no sample is added,
\* which shows the same.)
pollData(o) ==
    \E n \in {taken[o], taken[o] + 1} \cap (0 .. MaxSamples[o]) :
        /\ taken' = [taken EXCEPT ![o] = n]
        /\ samples' = [samples EXCEPT ![o] = [t \in Types |->
              IF HasType(o, t) THEN swapBuffers(addSample(@[t], n)) ELSE @[t]]]
        /\ UNCHANGED <<created, thread, mExitFlag, adding>>
=============================================================================
