--------------------------- MODULE MCExfatVolume ---------------------------
(* Two volumes with sectors of one unit that differ in their serial number *)
(* and in where their bitmap lies, and one with sectors of two units, two  *)
(* tables and clusters larger than what is scanned of a directory.         *)
EXTENDS ExfatVolume, TLC

Small(serial) ==
    [NoBoot EXCEPT !.name = TRUE, !.jump = TRUE, !.signature = TRUE, !.bytes_per_sector = 1,
                   !.sectors_per_cluster = 1, !.volume_length = 18, !.fat_offset = 10,
                   !.fat_length = 2, !.number_of_fats = 1, !.cluster_heap_offset = 12,
                   !.cluster_count = 6, !.first_cluster_of_root = 2, !.volume_serial = serial]
Large ==
    [Small(3) EXCEPT !.bytes_per_sector = 2, !.sectors_per_cluster = 2,
                     !.volume_length = 20, !.fat_length = 1, !.number_of_fats = 2,
                     !.cluster_count = 4, !.first_cluster_of_root = 3]

AllFormats ==
    {[boot |-> Small(1), bitmap |-> <<3, 6, 5>>, upcase |-> 4],
     [boot |-> Small(2), bitmap |-> <<3, 4, 5>>, upcase |-> 7],
     [boot |-> Large, bitmap |-> <<2>>, upcase |-> 4]}

Fields ==
    [name |-> {FALSE}, signature |-> {FALSE}, bytes_per_sector |-> {0, 2},
     sectors_per_cluster |-> {0, 2, 5}, partition_offset |-> {1}, volume_length |-> {0, 9, 99},
     fat_offset |-> {9, 11}, fat_length |-> {0, 1, 9}, number_of_fats |-> {0, 2, 3},
     cluster_heap_offset |-> {0, 13}, cluster_count |-> {0, 5, 9}, volume_serial |-> {9},
     first_cluster_of_root |-> {0, 1, 4, 8}, volume_flags |-> {{"ActiveFat"}, {"MediaFailure"}},
     percent_in_use |-> {101}]
==========================================================================
