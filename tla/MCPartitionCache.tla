-------------------------- MODULE MCPartitionCache --------------------------
(* Two ports for copies of one disk, a partition nested in another, and    *)
(* a second disk partition: more paths than the variable remembers.        *)
EXTENDS PartitionCache

CONSTANTS sata, usb, P, Q, N

SomePaths == {<<sata, P>>, <<usb, P>>, <<sata, P, N>>, <<usb, Q>>}
=============================================================================
