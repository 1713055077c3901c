----------------------------- MODULE MCFileData ------------------------------
(* Small jobs for TLC. *)
EXTENDS FileData

Plain == [kind |-> "file", items |-> 2, nstride |-> 1, write_bytes |-> 0,
          read_bytes |-> 0, verify_read |-> FALSE, shared_file |-> FALSE,
          sync_file |-> FALSE, call_sync |-> FALSE]

\* Empty files; a byte; a word and more with and without -X; less read than written;
\* one file for all; directories; -y and -Y.
DataJobs ==
  { [Plain EXCEPT !.call_sync = TRUE, !.items = 1],
    [Plain EXCEPT !.write_bytes = 2, !.read_bytes = 2, !.verify_read = TRUE],
    [Plain EXCEPT !.write_bytes = 9, !.read_bytes = 9, !.verify_read = TRUE],
    [Plain EXCEPT !.write_bytes = 10, !.read_bytes = 9, !.sync_file = TRUE],
    [Plain EXCEPT !.write_bytes = 9, !.read_bytes = 3],
    [Plain EXCEPT !.write_bytes = 2, !.read_bytes = 1, !.shared_file = TRUE],
    [Plain EXCEPT !.kind = "dir"] }

\* -X over the files of the neighbour; directories.
VerifiedJobs == { [Plain EXCEPT !.items = 1, !.write_bytes = 8, !.read_bytes = 8,
                               !.verify_read = TRUE] }
DirectoryJobs == { [Plain EXCEPT !.items = 1, !.kind = "dir"] }
=============================================================================
