------------------------------- MODULE MCLbp --------------------------------
(***************************************************************************)
(* Two programs: one links with the card and resets it between and beside  *)
(* the calls of the other, which makes every other kind of call.           *)
(***************************************************************************)
EXTENDS Lbp, TLC

CONSTANTS t1, t2

MCThreads == {t1, t2}
MCOps ==
    t1 :> {"set_time", "get_mac_addr", "boot_ramdisk", "boot_blkdisk", "boot_from_usb", "flash",
           "set_bios_param", "get_bios_date", "get_max_freq", "get_rcvy_state"}
    @@ t2 :> {"handshake", "reset"}
=============================================================================
