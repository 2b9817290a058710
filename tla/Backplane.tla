----------------------------- MODULE Backplane -----------------------------
(***************************************************************************)
(* The window onto the chip's backplane (src/device.go:73-104).  An access *)
(* reaches 32 KiB of the address space; three byte registers of the chip   *)
(* say which.  The driver remembers the window it set last, writes only    *)
(* the bytes that differ, and when a write fails remembers none.           *)
(* A window is the record of its three bytes.                              *)
(***************************************************************************)
CONSTANTS
    Byte,       \* the bytes that occur in addresses the driver uses
    NoByte      \* 0xaa, which does not

ASSUME ByteAssumption == NoByte \notin Byte

VARIABLES
    window,     \* d.backplaneWindow
    regs        \* the chip's three registers

backplane == <<window, regs>>

Reg == {"hi", "mid", "lo"}
Window == [Reg -> Byte]

\* The marker 0xaaaa_aaaa: no window, and no byte of one.
NoWindow == [r \in Reg |-> NoByte]

\* The order in which the registers are written.
Before(q, r) == \/ q = "hi" /\ r # "hi"
                \/ q = "mid" /\ r = "lo"

BackplaneTypeOK ==
    /\ window \in Window \cup {NoWindow}
    /\ regs \in Window

BackplaneInit ==
    /\ window = NoWindow
    /\ regs \in Window

\* A slip the runs must catch.
HiOrLo(w) == {r \in {"hi", "lo"} : w[r] # window[r]}

\* The registers that have to be written to move the window to w.
Differing(w) == {r \in Reg : w[r] # window[r]}

\* backplane_setwindow, when every write succeeds.
WindowSet(w) ==
    /\ regs' = [r \in Reg |-> IF r \in Differing(w) THEN w[r] ELSE regs[r]]
    /\ window' = w

\* backplane_setwindow, when the write of register r fails.  A write that
\* failed may have reached the chip.
WindowFails(w, r) ==
    \E done \in BOOLEAN :
        /\ regs' = [q \in Reg |->
                      IF \/ q \in Differing(w) /\ Before(q, r)
                         \/ q = r /\ done
                      THEN w[q] ELSE regs[q]]
        /\ window' = NoWindow

SetWindow(w, ok) ==
    IF ok THEN WindowSet(w) ELSE \E r \in Differing(w) : WindowFails(w, r)

\* An access to an address of window w goes where it should.
Reaches(w) == regs' = w

\* While the driver remembers a window, the chip has it: skipping the write of
\* a byte that has not changed is safe, whatever failed before
\* (device.go:79-102).
WindowIsCached == window # NoWindow => regs = window
=============================================================================
