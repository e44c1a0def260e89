------------------------------ MODULE SerialDma ------------------------------
(***************************************************************************)
(* The serial driver of bsp/stm32f40x/drivers/serial.c in DMA mode, on a   *)
(* memory pool of data nodes: rt_serial_write takes a node from the pool   *)
(* and links it, the interrupt at the end of a transfer frees the node and *)
(* starts the next transfer.                                               *)
(*                                                                         *)
(*   dma       the data nodes from list_head to list_tail                  *)
(*   sending   the node whose data the DMA channel transmits, or NoBlock   *)
(*                                                                         *)
(* The driver itself waits for ever for a node and frees it only in the    *)
(* interrupt.  The other calls of src/mempool.c are those of further users *)
(* of the pool.                                                            *)
(***************************************************************************)
EXTENDS MemPool

CONSTANT NoBlock

VARIABLES dma, sending

dmaVars == <<dma, sending>>
vars == <<k, irq, pc, free, count, waiting, held, alive, dma, sending>>

ASSUME SerialDmaAssumption == NoBlock \notin Block

Init ==
    /\ SystemInit /\ PoolInit
    /\ dma = <<>> /\ sending = NoBlock

\* mutation: the transfer is started when the node before it is the last
WriteLinkStalls(t, b) ==
    /\ Running(t) /\ pc[t] = "run" /\ b \in held[t]
    /\ held' = [held EXCEPT ![t] = @ \ {b}]
    /\ dma' = Append(dma, b)
    /\ sending' = IF Len(dma) = 1 THEN b ELSE sending
    /\ UNCHANGED <<k, irq, pc, free, count, waiting, alive>>

\* rt_serial_write with its node: link it, and start the transfer if the link
\* was empty
WriteLink(t, b) ==
    /\ Running(t) /\ pc[t] = "run" /\ b \in held[t]
    /\ held' = [held EXCEPT ![t] = @ \ {b}]
    /\ dma' = Append(dma, b)
    /\ sending' = IF dma = <<>> THEN b ELSE sending
    /\ UNCHANGED <<k, irq, pc, free, count, waiting, alive>>

\* mutation: the node is freed and stays linked while the next is sent
DmaTxIsrKeepsNode ==
    /\ Interrupt /\ sending # NoBlock /\ ~ Stray
    /\ GiveBlock(Head(dma))
    /\ k' = (IF waiting > 0 THEN Schedule(WakeFirst(k)) ELSE k) /\ CountWake
    /\ sending' = NoBlock
    /\ UNCHANGED <<irq, pc, held, alive, dma>>

\* rt_hw_serial_dma_tx_isr
DmaTxIsr ==
    /\ Interrupt /\ sending # NoBlock /\ ~ Stray
    /\ dma' = Tail(dma)
    /\ GiveBlock(Head(dma))
    /\ k' = (IF waiting > 0 THEN Schedule(WakeFirst(k)) ELSE k) /\ CountWake
    /\ sending' = IF Tail(dma) = <<>> THEN NoBlock ELSE Head(Tail(dma))
    /\ UNCHANGED <<irq, pc, held, alive>>

DmaTxIsrLost ==
    /\ Interrupt /\ sending # NoBlock /\ Stray
    /\ pc' = [pc EXCEPT ![k.current] = "lost"]
    /\ irq' = k.current
    /\ UNCHANGED <<k, poolVars, dmaVars>>

-----------------------------------------------------------------------------
Boot == (StartStep \/ \E t \in Thread : BootStep(t)) /\ UNCHANGED <<poolVars, dmaVars>>

Compute(t) == (OwnCode(t) \/ LostStep(t)) /\ UNCHANGED <<poolVars, dmaVars>>

Tick == (YieldStep \/ \E u \in Thread : TimeoutStep(u)) /\ UNCHANGED <<poolVars, dmaVars>>

ThreadStep(t) ==
    \/ Compute(t)
    \/ PoolStep(t) /\ UNCHANGED dmaVars
    \/ \E b \in Block : WriteLink(t, b)

Next == Boot \/ Tick \/ DmaTxIsr \/ DmaTxIsrLost \/ \E t \in Thread : ThreadStep(t)

Spec == Init /\ [][Next]_vars

\* the hardware: a transfer that was started comes to its end, and its
\* interrupt is taken as soon as interrupts are enabled
FairSpec == Spec /\ WF_vars(DmaTxIsr \/ DmaTxIsrLost)

-----------------------------------------------------------------------------
(***************************************************************************)
(* Correctness.                                                            *)
(***************************************************************************)

\* Every variable has its type, and rt_schedule always finds a thread.
TypeOK ==
    /\ k \in KernelState /\ k.current # Wild
    /\ irq \in Thread \cup {NoThread}
    /\ pc \in [Thread -> PoolPc]
    /\ free \in Seq(Block) /\ count \in 0 .. Len(Blocks) /\ waiting \in Nat
    /\ held \in [Thread -> SUBSET Block] /\ alive \in BOOLEAN
    /\ dma \in Seq(Block) /\ sending \in Block \cup {NoBlock}

\* The DMA channel transmits the data of the first node of the link, whenever
\* there is one: nothing that was written is forgotten or sent out of turn.
SendsFirst == sending = IF dma = <<>> THEN NoBlock ELSE Head(dma)

\* Every block is free, or one thread's, or linked for the DMA, and in one of
\* these places only; block_free_count counts the free ones; and the DMA is
\* never idle while a block is linked.
BlocksAccounted ==
    /\ TypeOK /\ SendsFirst
    /\ count = Len(free)
    /\ IsInjective(free) /\ IsInjective(dma)
    /\ ToSet(free) \cap ToSet(dma) = {}
    /\ \A t \in Thread : held[t] \cap (ToSet(free) \cup ToSet(dma)) = {}
    /\ \A t, u \in Thread : t # u => held[t] \cap held[u] = {}
    /\ ToSet(free) \cup ToSet(dma) \cup UNION {held[t] : t \in Thread} = Block

\* Whatever was linked is transmitted: every node leaves the link some time.
\* (Nothing is promised once a thread has followed a stray pointer.)
Transmitted ==
    \A b \in Block : b \in ToSet(dma) ~> (b \notin ToSet(dma) \/ irq # NoThread)
=============================================================================
