------------------------------ MODULE MCMonitors -------------------------------
(* Small instances of Monitors for TLC: a file on an NVMe drive, and the node *)
(* of another drive.                                                          *)
EXTENDS Monitors

MCFiles == {[blk |-> FALSE, st_dev |-> "nvme0", st_rdev |-> "none", on |-> "nvme0"],
            [blk |-> TRUE, st_dev |-> "devtmpfs", st_rdev |-> "nvme1", on |-> "nvme1"]}
=============================================================================
