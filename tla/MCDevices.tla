------------------------------- MODULE MCDevices -------------------------------
(* Devices with two serial devices and up to two others. *)
EXTENDS Devices

Ser(irq) == [irq |-> irq, kind |-> "ser", offers |-> {}]
Blk(irq, offers) == [irq |-> irq, kind |-> "blk", offers |-> offers]
Other(irq) == [irq |-> irq, kind |-> "other", offers |-> {}]
All == {"RING_RESET", "INDIRECT_DESC", "BLK_SIZE"}

\* The console, a serial line, and disks in the first, second or both of two
\* places, one of which may lack a feature.
MCBuses ==
    {<<Ser(10), Ser(11)>> \o rest : rest \in
        {<<Other(1), Blk(2, All)>>, <<Blk(1, All), Blk(2, All)>>,
         <<Blk(1, All \ {"RING_RESET"}), Blk(2, All)>>}}

==============================================================================
