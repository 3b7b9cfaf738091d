---------------------------- MODULE MgDirectory ----------------------------
(***************************************************************************)
(* The list of a directory (server/mongoose.c): scan_directory gives each  *)
(* entry to dir_scan_callback, which collects them in an array that grows, *)
(* and handle_directory_request sorts and prints it.  Files may go while   *)
(* it scans, and memory may end.                                           *)
(***************************************************************************)
EXTENDS Integers, Sequences, FiniteSets

CONSTANTS
  Names,     \* in the directory; natural numbers, for the order of strcmp
  Dirs,      \* names of directories
  Hidden,    \* names that must_hide_file hides
  Numbers,   \* sizes and times
  Queries,   \* of the URI: the column and the direction
  Room       \* data.arr_size at first: 128

MgDirectoryAssumption ==
  /\ Names \subseteq Nat /\ Dirs \subseteq Names /\ Hidden \subseteq Names
  /\ Numbers \subseteq Nat /\ Room \in Nat \ {0}
  /\ Queries \subseteq {"n", "s", "d", "?"} \X {"a", "d"}

VARIABLES stat,      \* of the names that are shown: what mg_stat finds
          query,
          pc,        \* "scan", "done"
          read,      \* names that readdir has given
          entries,   \* of the array, the first num_entries
          strings,   \* names that are allocated
          arr_size, allocated, \* what the code holds for its size, and its size
          failed,    \* memory has ended at some time
          printed
vars == <<stat, query, pc, read, entries, strings, arr_size, allocated, failed, printed>>

Shown == Names \ Hidden

Init == /\ \E size, mtime \in [Shown -> Numbers] :
             stat = [n \in Shown |-> [is_directory |-> n \in Dirs, size |-> size[n], mtime |-> mtime[n]]]
        /\ query \in Queries
        /\ pc = "scan" /\ read = {} /\ entries = <<>> /\ strings = 0 /\ printed = <<>>
        /\ arr_size = Room /\ allocated = 0 /\ failed = FALSE

Entry(n, file) == [name |-> n, is_directory |-> file.is_directory, size |-> file.size,
                   mtime |-> file.mtime]
Gone == [is_directory |-> FALSE, size |-> 0, mtime |-> 0]

\* strcmp and the like
Order(x, y) == IF x = y THEN 0 ELSE IF x > y THEN 1 ELSE -1

CompareDirEntries(a, b) ==
  LET column == query[1]
      key == CASE column = "n" -> Order(a.name, b.name)
               [] column = "s" -> Order(a.size, b.size)
               [] column = "d" -> Order(a.mtime, b.mtime)
               [] OTHER -> 0 IN
  IF a.is_directory # b.is_directory THEN (IF a.is_directory THEN -1 ELSE 1)
  ELSE IF query[2] = "d" THEN -key ELSE key

\* dsd->entries == NULL, or no room for another
Full == allocated = 0 \/ Len(entries) >= arr_size

\* realloc2 has freed the array, but not the names of its entries, and the next entry
\* gets another.
NoMemory(size) == /\ arr_size' = size /\ allocated' = 0 /\ failed' = TRUE
                  /\ entries' = <<>> /\ UNCHANGED strings

Store(size, e) == /\ arr_size' = size /\ allocated' = size
                  /\ entries' = Append(entries, e) /\ strings' = strings + 1
                  /\ UNCHANGED failed

\* A name that is shown; its file may be gone when it comes to mg_stat.
Scan ==
  /\ pc = "scan"
  /\ \E n \in Names \ read :
       /\ read' = read \union {n}
       /\ IF n \in Hidden THEN UNCHANGED <<entries, strings, arr_size, allocated, failed>>
          ELSE \E file \in {stat[n], Gone} :
            LET e == Entry(n, file) IN
            IF Full THEN Store(2 * arr_size, e) \/ NoMemory(2 * arr_size)
            ELSE Store(arr_size, e)
  /\ UNCHANGED <<stat, query, pc, printed>>

\* what qsort may do to n entries
Orders(n) == {f \in [1 .. n -> 1 .. n] : \A i, j \in 1 .. n : f[i] = f[j] => i = j}

\* qsort, of whose results any may come, and what is printed of them; each name is freed
\* when it is printed.
SortAndPrint ==
  /\ pc = "scan" /\ read = Names /\ pc' = "done"
  /\ \E order \in Orders(Len(entries)) :
       /\ \A i, j \in DOMAIN entries :
            i < j => CompareDirEntries(entries[order[i]], entries[order[j]]) <= 0
       /\ printed' = [i \in DOMAIN entries |-> entries[order[i]]]
  /\ strings' = strings - Len(entries)
  /\ UNCHANGED <<stat, query, read, entries, arr_size, allocated, failed>>

Next == Scan \/ SortAndPrint
Spec == Init /\ [][Next]_vars

-----------------------------------------------------------------------------
(* Properties.                                                             *)

\* Every entry that is stored has its place in the array (mongoose.c:2713-2729).
EntriesFit == Len(entries) <= allocated

\* No name outlives the request, unless memory has ended (mongoose.c:2698-2704,
\* 2718-2725, 2773-2777).
NamesAreFreed == pc = "done" => strings = 0 \/ failed

\* The comparison is one that qsort can work with, whatever the files are: nothing is
\* before itself, two are never both before the other, and it is transitive
\* (mongoose.c:2627-2651).
CompareIsOrder ==
  \A i, j, k \in DOMAIN entries :
    LET c(m, n) == CompareDirEntries(entries[m], entries[n]) IN
    /\ c(i, j) <= 0 \/ c(j, i) <= 0
    /\ c(i, j) < 0 => c(j, i) > 0
    /\ (c(i, j) <= 0 /\ c(j, k) <= 0) => c(i, k) <= 0

\* What is printed are the names that are not hidden, each once, the directories first;
\* when memory has ended it is what was read last (mongoose.c:2660-2778).
ListIsDirectory ==
  pc = "done" =>
    LET names == {printed[i].name : i \in DOMAIN printed} IN
    /\ names \subseteq Shown /\ Cardinality(names) = Len(printed)
    /\ ~ failed => names = Shown
    /\ \A i, j \in DOMAIN printed : i < j => ~ (printed[j].is_directory /\ ~ printed[i].is_directory)

=============================================================================
