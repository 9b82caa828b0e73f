-------------------------------- MODULE Pci ---------------------------------
(***************************************************************************)
(* The PCI bus (drivers/pci/pci.c): the memory behind the base address     *)
(* registers (BARs) of devices is placed in the ranges of the bridge while *)
(* the bus is scanned.  Addresses and sizes are in pages.                  *)
(***************************************************************************)
EXTENDS Bitmap, Sequences

CONSTANTS
  Ranges,          \* sequence of [paddr, pages, mem64]
  PCI_WINDOW_MAX,  \* what is used of a range, at most
  Devices          \* devices with a driver, in the order of the scan: sequences of
                   \* BARs [type, pages], of type "none", "io", "mem32" or "mem64"

VARIABLES
  used,       \* range -> bitmap
  bars,       \* device -> sequence of [paddr, type, pages], those that have a size
  dev, bar,   \* the device and the BAR that the scan is at
  pc          \* "scan", "map", "probe", "done", or "bug"

vars == <<used, bars, dev, bar, pc>>

RangeIds == DOMAIN Ranges

(* Mutant: 32-bit BARs go anywhere. *)
SuitsAny(r, b) == TRUE

Suits(r, b) == Ranges[r].mem64 => b.type = "mem64"

bit_max(r) ==
  IF Ranges[r].pages > PCI_WINDOW_MAX THEN PCI_WINDOW_MAX ELSE Ranges[r].pages

Place(r, b) == FindPlace(used[r], bit_max(r), b.pages, -1, b.pages)

(* pci_get_free_area(): the ranges that have an area for b *)
FreeRanges(b) == {r \in RangeIds: Suits(r, b) /\ Place(r, b) # ENOMEM}

InRange(r, b) ==
  /\ b.paddr >= Ranges[r].paddr
  /\ b.paddr + b.pages <= Ranges[r].paddr + Ranges[r].pages

(* Mutant: the offset in the range is not taken into account. *)
PutAreaBase(u, b) ==
  LET r == Least({q \in RangeIds: InRange(q, b)})
  IN  [u EXCEPT ![r] = bitmap_clear(@, 0, b.pages)]

(* pci_put_area(), for an area in a range *)
PutArea(u, b) ==
  LET r == Least({q \in RangeIds: InRange(q, b)})
  IN  [u EXCEPT ![r] = bitmap_clear(@, b.paddr - Ranges[r].paddr, b.pages)]

At(b, paddr) == [paddr |-> paddr, type |-> b.type, pages |-> b.pages]

RECURSIVE PutAreas(_, _)
PutAreas(u, list) ==
  IF list = <<>> THEN u ELSE PutAreas(PutArea(u, Head(list)), Tail(list))

NextDevice ==
  /\ dev' = dev + 1
  /\ bar' = 1
  /\ pc' = IF dev = Len(Devices) THEN "done" ELSE "scan"

(* pci_release_device(), with the BARs in list and the bitmaps u: an area    *)
(* that is in no range is a BUG(), which stops the kernel.                   *)
Release(u, list) ==
  IF \E i \in DOMAIN list: \A r \in RangeIds: ~ InRange(r, list[i])
  THEN /\ pc' = "bug"
       /\ UNCHANGED <<used, bars, dev, bar>>
  ELSE /\ used' = PutAreas(u, list)
       /\ bars' = [bars EXCEPT ![dev] = <<>>]
       /\ NextDevice

(* _pci_scan(): the device is allocated; without memory the scan ends. *)
Scan ==
  /\ pc = "scan"
  /\ pc' \in {"map", "done"}
  /\ UNCHANGED <<used, bars, dev, bar>>

AtBar == pc = "map" /\ bar <= Len(Devices[dev])
Bar == Devices[dev][bar]

(* pci_scan_bar(): a BAR that does not exist is skipped, one for I/O ports   *)
(* is an error.                                                              *)
ScanBar ==
  /\ AtBar
  /\ \/ /\ Bar.type = "none"
        /\ bar' = bar + 1
        /\ UNCHANGED <<used, bars, dev, pc>>
     \/ /\ Bar.type = "io"
        /\ Release(used, bars[dev])

(* pci_scan_bar() and pci_map_bar(): an area is taken and mapped.  When      *)
(* ioremap() fails it is given back here, and again with the device; when    *)
(* there is none, the BAR has a size but no address.                         *)
MapBar ==
  /\ AtBar /\ Bar.type \in {"mem32", "mem64"}
  /\ IF FreeRanges(Bar) = {}
     THEN Release(used, Append(bars[dev], At(Bar, 0)))
     ELSE LET r == Least(FreeRanges(Bar))
              b == At(Bar, Ranges[r].paddr + Place(r, Bar))
              taken == [used EXCEPT ![r] = bitmap_set(@, Place(r, Bar), Bar.pages)]
          IN  \/ /\ used' = taken
                 /\ bars' = [bars EXCEPT ![dev] = Append(@, b)]
                 /\ bar' = bar + 1
                 /\ UNCHANGED <<dev, pc>>
              \/ Release(PutArea(taken, b), Append(bars[dev], b))

(* The end of pci_map_bars() *)
MapBarsDone ==
  /\ pc = "map" /\ bar > Len(Devices[dev])
  /\ pc' = "probe"
  /\ UNCHANGED <<used, bars, dev, bar>>

(* The rest of probe(): the device is added, or its driver fails. *)
Probe ==
  /\ pc = "probe"
  /\ \/ NextDevice /\ UNCHANGED <<used, bars>>
     \/ Release(used, bars[dev])

Init ==
  /\ used = [r \in RangeIds |-> [p \in 0 .. BITS_TO_LONGS(bit_max(r)) - 1 |-> {}]]
  /\ bars = [d \in DOMAIN Devices |-> <<>>]
  /\ dev = 1
  /\ bar = 1
  /\ pc = "scan"

Next == Scan \/ ScanBar \/ MapBar \/ MapBarsDone \/ Probe

Spec == Init /\ [][Next]_vars

----------------------------------------------------------------------------
BarIds == UNION {{<<d, i>>: i \in DOMAIN bars[d]}: d \in DOMAIN Devices}
Area(x) == LET b == bars[x[1]][x[2]] IN b.paddr .. b.paddr + b.pages - 1

(* The areas of BARs are disjoint, and each is aligned to its size in a      *)
(* range that it may be in, whichever devices failed and gave theirs back.   *)
BarsApart ==
  /\ \A x, y \in BarIds: x # y => Area(x) \intersect Area(y) = {}
  /\ \A x \in BarIds:
       LET b == bars[x[1]][x[2]]
       IN  \E r \in RangeIds: /\ InRange(r, b)
                              /\ (b.paddr - Ranges[r].paddr) % b.pages = 0
                              /\ Ranges[r].mem64 => b.type = "mem64"

(* The bitmaps have just these areas: devices whose probe failed leave       *)
(* nothing behind.                                                           *)
AreasExact ==
  \A r \in RangeIds:
    {Ranges[r].paddr + n: n \in SetBits(used[r])} =
      UNION {Area(x): x \in {y \in BarIds: InRange(r, bars[y[1]][y[2]])}}
=============================================================================
