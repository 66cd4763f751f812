------------------------------ MODULE FlashLog ------------------------------
(***************************************************************************)
(* One measurement region of flash_store.c: records are appended to erased *)
(* slots of an external NOR flash, whose bits a write can only clear, and  *)
(* counted again by a scan at each boot.  Writes and erases can fail, and  *)
(* power can be lost, half-way.  The firmware does not call flash_store    *)
(* yet (main.c leaves flash_store_init out); the model is of its API.      *)
(*                                                                         *)
(* A slot is Empty, holds all or a part of the bits of one measurement's   *)
(* record, or is Garbled.  A record's sequence number is that of its slot, *)
(* and its checksum fails unless the record is whole.                      *)
(***************************************************************************)
EXTENDS Integers

CONSTANTS
    Measurements,   \* those flash_store_measurement_validate accepts
    Capacity,       \* records in the region
    SectorSlots,    \* records in a sector, the unit of erasing
    Empty, Garbled, None

ASSUME FlashAssumption ==
    /\ Capacity \in Nat \ {0} /\ SectorSlots \in Nat \ {0}
    /\ None \notin Measurements
    /\ Empty # Garbled
    /\ \A s \in [value : Measurements, whole : BOOLEAN] : s # Empty /\ s # Garbled

VARIABLES
    flash,         \* the slots
    initialized,   \* s_flash_initialized
    mounted,       \* s_flash_partition is not NULL
    count,         \* region->count
    writable,      \* region->writable
    scanned,       \* history: count is from a scan that reached its end, or a clear
    acked,         \* history: the append last acknowledged for a slot since a clear
    doubt,         \* history: the first slot RAM may be wrong about since a scan
    limit          \* history: the first slot that may have been written over

ramVars == <<initialized, mounted, count, writable>>
flashVars == <<flash, ramVars, scanned, acked, doubt, limit>>

Slots == 0..(Capacity - 1)
Records == [value : Measurements, whole : BOOLEAN]
Whole(m) == [value |-> m, whole |-> TRUE]
IsValid(slot) == slot \in Records /\ slot.whole
Smaller(a, b) == IF a < b THEN a ELSE b

FlashTypeOK ==
    /\ flash \in [Slots -> Records \cup {Empty, Garbled}]
    /\ initialized \in BOOLEAN /\ mounted \in BOOLEAN
    /\ count \in 0..Capacity /\ writable \in BOOLEAN
    /\ scanned \in BOOLEAN
    /\ acked \in [Slots -> Measurements \cup {None}]
    /\ doubt \in 0..Capacity /\ limit \in 0..Capacity

FlashInit ==
    /\ flash = [s \in Slots |-> Empty]
    /\ initialized = FALSE /\ mounted = FALSE
    /\ count = 0 /\ writable = TRUE
    /\ scanned = FALSE
    /\ acked = [s \in Slots |-> None]
    /\ doubt = Capacity /\ limit = Capacity

\* What a slot holds once bits of m's record have been programmed over it.
Programmed(slot, m, whole) ==
    IF slot = Empty \/ slot = [value |-> m, whole |-> FALSE] THEN [value |-> m, whole |-> whole]
    ELSE IF slot = Whole(m) THEN slot
    ELSE Garbled

\* flash_store_scan_region counts the records before the first slot without one.
IsScanEnd(e) ==
    /\ \A s \in Slots : s < e => IsValid(flash[s])
    /\ e < Capacity => ~IsValid(flash[e])

\* Mutant: a region with a damaged record is left writable.
ScanKeepsWritable ==
    /\ ~initialized
    /\ initialized' = TRUE /\ mounted' = TRUE /\ scanned' = TRUE
    /\ \E e \in 0..Capacity :
           IsScanEnd(e) /\ count' = e /\ writable' = (e < Capacity)
    /\ doubt' = Capacity
    /\ UNCHANGED <<flash, acked, limit>>

\* flash_store_init to its end.
Scan ==
    /\ ~initialized
    /\ initialized' = TRUE /\ mounted' = TRUE /\ scanned' = TRUE
    /\ \E e \in 0..Capacity :
           /\ IsScanEnd(e)
           /\ count' = e
           /\ writable' = (e < Capacity /\ flash[e] = Empty)
    /\ doubt' = Capacity
    /\ UNCHANGED <<flash, acked, limit>>

\* A read of the scan fails, at any record or, as seen from the second region, in the
\* first region.  The region stays writable, and a second flash_store_init returns
\* ESP_OK without a scan.
ScanFails ==
    /\ ~initialized
    /\ initialized' = TRUE /\ mounted' = TRUE
    /\ \E e \in 0..Capacity, i \in Slots :
           IsScanEnd(e) /\ i <= e /\ count' = i /\ doubt' = i
    /\ writable' = TRUE
    /\ UNCHANGED <<flash, scanned, acked, limit>>

\* The layout does not fit the chip or the partition is not registered.
MountFails ==
    /\ ~initialized
    /\ initialized' = TRUE
    /\ UNCHANGED <<flash, mounted, count, writable, scanned, acked, doubt, limit>>

\* flash_store_region_read; None stands for its errors.
Read(i) == IF mounted /\ i < count /\ IsValid(flash[i]) THEN flash[i].value ELSE None

\* An append passes its checks: on a full region it clears writable instead.
MayAppend == mounted /\ writable /\ count < Capacity

AppendRecord(m) ==
    /\ MayAppend
    /\ flash' = [flash EXCEPT ![count] = Programmed(@, m, TRUE)]
    /\ count' = count + 1
    /\ acked' = [acked EXCEPT ![count] = m]
    /\ limit' = IF doubt <= count THEN Smaller(limit, count) ELSE limit
    /\ UNCHANGED <<initialized, mounted, writable, scanned, doubt>>

\* The write fails with none, some or all of the record's bits programmed.
AppendFails(m) ==
    /\ MayAppend
    /\ \/ \E whole \in BOOLEAN : flash' = [flash EXCEPT ![count] = Programmed(@, m, whole)]
       \/ UNCHANGED flash
    /\ doubt' = Smaller(doubt, count)
    /\ limit' = IF scanned THEN limit ELSE Smaller(limit, count)
    /\ UNCHANGED <<ramVars, scanned, acked>>

AppendFull ==
    /\ mounted /\ writable /\ count = Capacity
    /\ writable' = FALSE
    /\ UNCHANGED <<flash, initialized, mounted, count, scanned, acked, doubt, limit>>

Clear ==
    /\ mounted
    /\ flash' = [s \in Slots |-> Empty]
    /\ count' = 0 /\ writable' = TRUE
    /\ acked' = [s \in Slots |-> None]
    /\ doubt' = Capacity /\ limit' = Capacity /\ scanned' = TRUE
    /\ UNCHANGED <<initialized, mounted>>

\* Sectors are erased one after the other; what the erase stops in is anything.
HalfErased(f) ==
    \E n \in 0..Capacity, left \in {Empty, Garbled} :
        /\ n % SectorSlots = 0
        /\ f = [s \in Slots |->
                  IF s < n THEN Empty ELSE IF s < n + SectorSlots THEN left ELSE flash[s]]

\* RAM still counts the records of before.
ClearFails ==
    /\ mounted
    /\ flash' = flash \/ HalfErased(flash')
    /\ limit' = 0
    /\ UNCHANGED <<ramVars, scanned, acked, doubt>>

\* Power is lost, perhaps in an append or in a clear.
PowerLoss ==
    /\ \/ UNCHANGED <<flash, limit>>
       \/ /\ MayAppend
          /\ \E m \in Measurements, whole \in BOOLEAN :
                 flash' = [flash EXCEPT ![count] = Programmed(@, m, whole)]
          /\ limit' = IF scanned THEN limit ELSE Smaller(limit, count)
       \/ mounted /\ HalfErased(flash') /\ limit' = 0
    /\ initialized' = FALSE /\ mounted' = FALSE
    /\ count' = 0 /\ writable' = TRUE
    /\ scanned' = FALSE
    /\ UNCHANGED <<acked, doubt>>

FlashNext ==
    \/ Scan
    \/ ScanFails
    \/ MountFails
    \/ \E m \in Measurements : AppendRecord(m) \/ AppendFails(m)
    \/ AppendFull
    \/ Clear
    \/ ClearFails
    \/ PowerLoss

FlashSpec == FlashInit /\ [][FlashNext]_flashVars
-----------------------------------------------------------------------------
(* Properties *)

\* flash_store.h: an append that returned ESP_OK is in the log.  Whatever power losses
\* follow, every acknowledged record is counted and read back, up to the first slot
\* that an append after an unreported failure (of an append, a scan or a clear) can have
\* written over.  A power loss alone never costs more than the append it interrupts.
AcknowledgedIsKept ==
    mounted /\ scanned =>
        \A s \in Slots : s < limit /\ acked[s] # None =>
            Read(s) = acked[s]

\* A region that a complete scan left writable, and no call has failed on since, has
\* nothing but erased slots to append to.
FreeSlotsAreErased ==
    mounted /\ scanned /\ writable /\ doubt = Capacity /\ limit = Capacity =>
        \A s \in Slots : s >= count => flash[s] = Empty

\* What was acknowledged is read back, and what is appended next harms nothing.
LogIsDurable == AcknowledgedIsKept /\ FreeSlotsAreErased
=============================================================================
