--------------------------- MODULE MCFatVolume ---------------------------
(* Sectors of 8 bytes, records of 4: a volume of every kind.              *)
EXTENDS FatVolume, TLC

Plain ==
    [NoBoot EXCEPT !.oem = "fat", !.jump = TRUE, !.sig = TRUE, !.bytes_per_sector = 8,
                   !.sectors_per_cluster = 1, !.reserved_sectors = 1, !.num_fats = 2,
                   !.media = 248]

\* What lies at 0x24 of a small volume is no size.
Small(total, size, type) ==
    [Plain EXCEPT !.total_sectors_16 = total, !.fat_size_16 = size, !.root_entries = 2,
                  !.fat_size_32 = 41, !.root_cluster = 5, !.fs_type = type]
Large(total, size, fats) ==
    [Plain EXCEPT !.total_sectors_32 = total, !.fat_size_32 = size, !.num_fats = fats,
                  !.reserved_sectors = 3, !.root_cluster = 2, !.fsinfo_sector = 1,
                  !.backup_boot_sector = 2, !.fs_type = "FAT32"]

AllFormats ==
    {Small(6, 1, "FAT12"), Small(10, 2, "FAT16"), Large(16, 4, 2), Large(15, 5, 1)}

\* Nothing, and a chain that goes forth and back.
Links == {<<>>, (2 :> 4 @@ 4 :> 3 @@ 3 :> 268435455)}

Fields ==
    [bytes_per_sector |-> {0, 16}, sectors_per_cluster |-> {0, 2}, reserved_sectors |-> {0, 2},
     num_fats |-> {0, 1, 3}, root_entries |-> {0, 2}, total_sectors_16 |-> {0, 9},
     total_sectors_32 |-> {9, 99}, fat_size_16 |-> {0, 1}, fat_size_32 |-> {0, 3},
     root_cluster |-> {0, 7, 9}, fsinfo_sector |-> {0}, backup_boot_sector |-> {0, 5},
     media |-> {0}, fs_type |-> {"FAT16"}]
==========================================================================
