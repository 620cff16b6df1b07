------------------------------- MODULE FileKids -------------------------------
(* Kids that write files: print (with lib/fileout.c), metadice, writebuffer. *)
(* A record is written as a whole and flushed; the disk outlives all of it.  *)
EXTENDS KidBase

\* disk: the records of each file, by name: its directory, what its name is made of and a
\* number behind that; written: for each record, what its file is named after.
DiskInit == [disk |-> <<>>, written |-> <<>>, now |-> Hour, ended |-> FALSE]
Unused(disk, dir, base, from) ==
    Min({n \in from..(from + Cardinality(DOMAIN disk)) : <<dir, base, n>> \notin DOMAIN disk})
Create(disk, name) == IF name \in DOMAIN disk THEN disk ELSE (name :> <<>>) @@ disk
Move(disk, from, to) == [n \in (DOMAIN disk \cup {to}) \ {from} |-> IF n = to THEN disk[from] ELSE disk[n]]
\* A record at a place in a file, over what is there.
WriteAt(s, name, at, rec, key) ==
    [s EXCEPT !.disk[name] = SubSeq(@, 1, at) \o <<rec>> \o SubSeq(@, at + 2, Len(@)), !.written = (rec :> key) @@ @]

\* -------- print: one file, or one for each value of a label, each time slice and
\* each recordmax records; the files of labels are in a table, which closes the one it
\* throws out and remembers it in a second table (tab2).
print_cfgs ==
    [mode : {"a", "w"}, labelname : BOOLEAN, timespec : BOOLEAN, recordmax : {0, 2}, safename : BOOLEAN, moveprefix : BOOLEAN, form : {"meta"}]
    \cup [mode : {"w"}, labelname : {FALSE}, timespec : {FALSE}, recordmax : {0}, safename : {FALSE}, moveprefix : BOOLEAN, form : {"binary", "label_only"}]
dynamicfile(c) == c.labelname \/ c.timespec \/ c.recordmax # 0
NewFile == [open |-> FALSE, filename |-> <<>>, ts |-> 0, rollovercount |-> 0, version |-> 0, mode |-> "", recordcount |-> 0, at |-> 0]
FileName(f) == <<"here", f.filename \o <<f.rollovercount>>, f.version>>
\* The value of the label and the time slice; 0 where there is none.
make_basename(c, s, id, basetime) ==
    <<IF c.labelname /\ Has(s, id, "FS") THEN First(s, id, "FS").v ELSE 0, basetime>>
\* x: the state (s) and the file (f) that is worked on.
open_file(c, x) ==
    LET named == IF x.f.mode = "w" /\ c.safename
                 THEN [x.f EXCEPT !.version = Unused(x.s.disk, "here", FileName(x.f)[2], @)] ELSE x.f
        disk == Create(x.s.disk, FileName(named))
    IN  [s |-> [x.s EXCEPT !.disk = disk],
         f |-> [named EXCEPT !.open = TRUE, !.at = IF x.f.mode = "w" THEN 0 ELSE Len(disk[FileName(named)])]]
\* A closed file may be moved, with a number behind its name if that is taken.
\* A plausible error: a file that has the name is overwritten.
MoveAwayOver(c, x) ==
    IF c.moveprefix THEN [x.s EXCEPT !.disk = Move(@, FileName(x.f), <<"moved", FileName(x.f)[2] \o <<x.f.version>>, 0>>)] ELSE x.s

MoveAway(c, x) ==
    LET base == FileName(x.f)[2] \o <<x.f.version>>
        to == <<"moved", base, Unused(x.s.disk, "moved", base, 0)>>
    IN  IF c.moveprefix THEN [x.s EXCEPT !.disk = Move(@, FileName(x.f), to)] ELSE x.s
close_fp(c, x) == [s |-> MoveAway(c, x), f |-> [x.f EXCEPT !.open = FALSE, !.version = 0]]
Remember(s, f) == [s EXCEPT !.tab2 = Put(find_attach(@, f.filename, f).tab, f.filename, f), !.evicted_flag = TRUE]
close_fp_callback(c, s, f) ==
    LET back == [f EXCEPT !.open = FALSE, !.mode = "a", !.rollovercount = IF c.moveprefix THEN @ + 1 ELSE @]
    IN  IF f.open THEN Remember(MoveAway(c, [s |-> s, f |-> f]), back) ELSE s
Reopen(c, x, full, filename, currenttime) ==
    LET rolled == IF full THEN [x EXCEPT !.f.rollovercount = @ + 1] ELSE x
    IN  [open_file(c, [rolled EXCEPT !.f.filename = filename, !.f.mode = c.mode])
            EXCEPT !.f.ts = currenttime, !.f.recordcount = 0]
\* The file for the next record: a new one when its time slice or its records are over.
file_cycle(c, x, id) ==
    LET currenttime == IF c.timespec THEN x.s.now ELSE 0
        full == c.recordmax # 0 /\ x.f.recordcount >= c.recordmax
        forgotten == IF x.f.ts # currenttime /\ x.s.evicted_flag
                     THEN [x EXCEPT !.s.tab2 = <<>>, !.s.evicted_flag = FALSE] ELSE x
    IN  IF x.f.open /\ x.f.ts = currenttime /\ ~full THEN x
        ELSE Reopen(c, IF x.f.open THEN close_fp(c, forgotten) ELSE forgotten, x.f.ts = currenttime /\ x.f.open,
                    make_basename(c, x.s, id, currenttime), currenttime)
\* The file of a label: the one that is open, one that was thrown out, or a new one.
TakeBack(s, outfile, known) ==
    IF ~known /\ Keyed(s.tab2, outfile) THEN [s |-> [s EXCEPT !.tab2 = Drop(@, outfile)], f |-> Rec(s.tab2, outfile)]
    ELSE [s |-> s, f |-> Rec(s.tab, outfile)]
SelectByLabel(c, s, id) ==
    LET outfile == make_basename(c, s, id, 0)
        known == Keyed(s.tab, outfile) /\ Rec(s.tab, outfile).filename = outfile
        a == find_attach(s.tab, outfile, NewFile)
    IN  file_cycle(c, TakeBack(Expire(s, a.tab, a.old, LAMBDA x, f : close_fp_callback(c, x, f)), outfile, known), id)
fileout_select_file(c, s, id) ==
    CASE ~dynamicfile(c) -> [s |-> s, f |-> s.outfpdata]
      [] dynamicfile(c) /\ ~c.labelname -> file_cycle(c, [s |-> s, f |-> s.outfpdata], id)
      [] dynamicfile(c) /\ c.labelname -> SelectByLabel(c, s, id)
StoreFile(c, s, id, f) == IF c.labelname THEN [s EXCEPT !.tab = Put(@, make_basename(c, s, id, 0), f)] ELSE [s EXCEPT !.outfpdata = f]
fileout_filespec_cleanup(c, s) ==
    LET last == close_fp(c, [s |-> s, f |-> s.outfpdata])
    IN  IF c.labelname THEN ScourAndFlush(s, LAMBDA x, f : close_fp_callback(c, x, f))
        ELSE IF s.outfpdata.open THEN [last.s EXCEPT !.outfpdata = last.f] ELSE s
print_init(c) ==
    LET clock == IF c.timespec THEN [coin |-> FALSE] ELSE <<>>
        s == KeyedInit(DiskInit @@ clock @@ [tab2 |-> <<>>, evicted_flag |-> FALSE, outfpdata |-> [NewFile EXCEPT !.mode = c.mode, !.filename = <<0, 0>>]])
        x == open_file(c, [s |-> s, f |-> s.outfpdata])
    IN  IF dynamicfile(c) THEN s ELSE [x.s EXCEPT !.outfpdata = x.f]
PrintTo(c, x, id) ==
    StoreFile(c, WriteAt(x.s, FileName(x.f), x.f.at, id, make_basename(c, x.s, id, 0)[1]), id,
              [x.f EXCEPT !.at = @ + 1, !.recordcount = @ + 1])
print_input_set(c, s, port, id) ==
    LET a == IF c.timespec /\ s.coin THEN [s EXCEPT !.now = @ + 1] ELSE s
    IN  CASE s.ended \/ port = "FLUSH" -> s
          [] ~s.ended /\ port = "TUPLE" -> Pass(PrintTo(c, fileout_select_file(c, a, id), id), id, c.form # "binary")
          [] ~s.ended /\ port = "EXIT" -> [fileout_filespec_cleanup(c, s) EXCEPT !.ended = TRUE]
\* Where the second table is of no use: a file that is opened again is written from its start.
Overwrites(c) == c.mode = "w" /\ c.labelname /\ ~c.safename /\ ~c.moveprefix

\* -------- metadice: files for each last label of a tuple (here a member LABEL), and for
\* each time slice of all of them; a full file is closed like one whose time is over.
\* The name of a file is chosen when it is opened, the name it is moved to as well.
metadice_cfgs == [increment_ts : {4}, max_records : {0, 1}, movefile : BOOLEAN]
metadice_init(c) == KeyedInit(DiskInit @@ [current_boundary |-> 0, coin |-> FALSE])
NewLabel == [fp |-> FALSE, current_boundary |-> 0, records |-> 0, splitfile |-> <<>>, movefile |-> <<>>]
sysutil_name_timedfile(s, dir, label, boundary) ==
    LET base == <<label, boundary>> IN <<dir, base, Unused(s.disk, dir, base, 0)>>
FinishFile(c, s, lw) == IF lw.fp /\ c.movefile THEN [s EXCEPT !.disk = Move(@, lw.splitfile, lw.movefile)] ELSE s
OpenNext(c, s, label, lw) ==
    LET a == FinishFile(c, s, lw)
        name == sysutil_name_timedfile(a, "here", label, s.current_boundary)
        b == [a EXCEPT !.disk = Create(@, name)]
    IN  [s |-> b, lw |-> [NewLabel EXCEPT !.fp = TRUE, !.current_boundary = s.current_boundary, !.splitfile = name,
                                          !.movefile = IF c.movefile THEN sysutil_name_timedfile(b, "moved", label, s.current_boundary) ELSE <<>>]]
metadice_get_fp(c, s, sec, label) ==
    LET past == s.current_boundary = 0 \/ sec >= s.current_boundary + c.increment_ts
        a == IF past THEN [s EXCEPT !.current_boundary = next_time_boundary(c.increment_ts, sec) - c.increment_ts] ELSE s
        lw == IF Keyed(s.tab, label) THEN Rec(s.tab, label) ELSE NewLabel
        full == c.max_records # 0 /\ lw.records >= c.max_records
        x == IF full \/ lw.current_boundary # a.current_boundary THEN OpenNext(c, a, label, lw) ELSE [s |-> a, lw |-> lw]
        used == [k |-> label, r |-> [x.lw EXCEPT !.records = @ + 1]]
    IN  [s |-> [x.s EXCEPT !.tab = Append(Drop(@, label), used)], fp |-> x.lw.splitfile]
metadice_input_set(c, s, port, id) ==
    LET times == SelectSeq(Members(s, id), LAMBDA m : m.d = "ts" /\ m.v # 0)
        a == IF s.coin THEN [s EXCEPT !.now = @ + 4] ELSE s
        label == IF Has(s, id, "LABEL") THEN First(s, id, "LABEL").v ELSE 0
        x == metadice_get_fp(c, a, IF times = <<>> THEN a.now ELSE times[1].v, label)
    IN  CASE s.ended \/ port = "FLUSH" -> s
          [] ~s.ended /\ port = "TUPLE" -> WriteAt(x.s, x.fp, Len(x.s.disk[x.fp]), id, label)
          [] ~s.ended /\ port = "EXIT" -> [ScourAndFlush(s, LAMBDA y, lw : FinishFile(c, y, lw)) EXCEPT !.ended = TRUE]

\* -------- writebuffer: a file of its own for each buffer.  Its name is made of members,
\* and of the labels of the buffers so far; the generation is counted up until it is free.
writebuffer_cfgs == [lset_name : {<<>>, <<"V">>}, add_labels : BOOLEAN, write_stdout : {FALSE}]
                    \cup [lset_name : {<<>>}, add_labels : {FALSE}, write_stdout : {TRUE}]
writebuffer_init(c) == KidInit @@ DiskInit
\* Strings, times and numbers have a text, other members none.
add_to_filename(m) == IF m.d \in {"str", "ts", "uint", "uint64"} THEN m.v ELSE <<>>
open_buffer_file(s, base, generation) == Unused(s.disk, "here", base, generation)
WriteBuffer(c, x, m) ==
    LET base == IF c.add_labels THEN Append(x.base, m.l) ELSE x.base
        generation == open_buffer_file(x.s, base, x.generation)
        name == <<"here", base, generation>>
    IN  IF m.d \notin {"str", "bin"} \/ m.v = <<>> THEN x
        ELSE [s |-> WriteAt([x.s EXCEPT !.disk = Create(@, name)], name, 0, m.o, base[1]), base |-> base, generation |-> generation]
writebuffer_input_set(c, s, port, id) ==
    LET named == tuple_search_labelset(s, id, c.lset_name)
        base == <<[i \in 1..Len(named) |-> add_to_filename(named[i])]>>
        buffers == tuple_search_labelset(s, id, <<"K">>)
        ToStdout(x, m) == IF m.d \notin {"str", "bin"} THEN x
                       ELSE LET a == [x EXCEPT !.disk = Create(@, <<"stdout", <<0>>, 0>>)]
                            IN  WriteAt(a, <<"stdout", <<0>>, 0>>, Len(a.disk[<<"stdout", <<0>>, 0>>]), m.o, 0)
    IN  CASE port = "FLUSH" -> s
          [] port = "TUPLE" /\ c.write_stdout -> Each(ToStdout, s, buffers)
          [] port = "TUPLE" /\ ~c.write_stdout ->
                FoldLeft(LAMBDA x, m : WriteBuffer(c, x, m), [s |-> s, base |-> base, generation |-> 0], buffers).s
=============================================================================
