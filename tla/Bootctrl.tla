------------------------------- MODULE Bootctrl -------------------------------
(***************************************************************************)
(* platform/mediatek/common/bootctrl/3/bootctrl_api.c: which of the two    *)
(* slots is booted.  That is recorded in two places, the priorities in the *)
(* misc partition and the boot region of the storage device, which are     *)
(* written one after the other.                                            *)
(***************************************************************************)
EXTENDS Integers

CONSTANT MaxPri   \* BOOT_CONTROL_MAX_PRI; the field itself can hold more

ASSUME MaxPriAssumption == MaxPri \in Nat \ {0}

VARIABLES
    misc,     \* struct bootloader_control in misc: [magic, priority]; the priorities
              \* count only with the right magic
    region    \* the boot region the device starts from, as a slot

Slots == {"a", "b"}
Other(s) == CHOOSE t \in Slots : t # s
Priorities == [Slots -> 0..MaxPri + 1]
Valid == [magic : {"BOOTCTRL_MAGIC"}, priority : Priorities]
Metadata == Valid \cup {[magic |-> m, priority |-> [s \in Slots |-> 0]] : m \in {"zero", "other"}}

initDefaultBootControl ==
    [magic |-> "BOOTCTRL_MAGIC", priority |-> [s \in Slots |-> MaxPri]]

\* What read_write_partition_info(READ_PARTITION) finds in misc: the metadata a
\* caller may get, and what misc holds afterwards.  With magic 0 the metadata of
\* the caller stay uninitialised; writing the default may fail unnoticed.
ReadPartition(metadata, after) ==
    CASE misc.magic = "zero" -> metadata \in Valid /\ after = misc
      [] misc.magic = "other" -> /\ metadata = initDefaultBootControl
                                 /\ after \in {misc, initDefaultBootControl}
      [] OTHER -> metadata = misc /\ after = misc

\* A mutant that leaves the other slot its priority.
Activated_Tie(metadata, slot) ==
    [magic |-> "BOOTCTRL_MAGIC", priority |-> [metadata.priority EXCEPT ![slot] = MaxPri]]

\* The metadata that make `slot` the active one.
Activated(metadata, slot) ==
    [magic |-> "BOOTCTRL_MAGIC",
     priority |-> [s \in Slots |->
        IF s = slot THEN MaxPri
        ELSE IF metadata.priority[s] >= MaxPri THEN MaxPri - 1
        ELSE metadata.priority[s]]]

get_suffix(metadata) ==
    IF metadata.magic # "BOOTCTRL_MAGIC" THEN ""
    ELSE IF metadata.priority["a"] >= metadata.priority["b"] THEN "a"
    ELSE "b"
=============================================================================
