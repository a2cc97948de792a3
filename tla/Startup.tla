------------------------------ MODULE Startup -------------------------------
(* The kernel command line in threads/init.c: its words, the options among   *)
(* them and the actions that are run.  A word is a record: an option has its *)
(* value, NULL if there is none; any other word has no value.                *)
EXTENDS Integers, Sequences, SequencesExt, FiniteSetsExt

CONSTANTS NULL, LOADER_ARGS_LEN
-----------------------------------------------------------------------------
NUL == "0"

strnlen(buf, p) == Min({i \in p .. LOADER_ARGS_LEN : i = LOADER_ARGS_LEN \/ buf[i] = NUL}) - p

(* Where the words start that are left from p on, or <<-1>> at the end of a  *)
(* line that panics.                                                         *)
RECURSIVE ReadFrom(_, _, _)
ReadFrom(buf, p, argc) ==
  IF argc = 0 THEN <<>>
  ELSE IF p >= LOADER_ARGS_LEN THEN <<-1>>
  ELSE <<p>> \o ReadFrom(buf, p + strnlen(buf, p) + 1, argc - 1)

(* The array argv has room for this many words and the null pointer after    *)
(* them: as many as fit the line, since the loader counts no empty word.     *)
MaxArgc == LOADER_ARGS_LEN \div 2

read_command_line(buf, argc) == ReadFrom(buf, 0, argc)
-----------------------------------------------------------------------------
Boot == [at |-> "ok", shutdown |-> "none", format |-> FALSE, filesys |-> NULL, scratch |-> NULL, swap |-> NULL,
         mlfqs |-> FALSE, ul |-> NULL, seed |-> NULL]

(* What one option changes; atoi asserts that it has a string. *)
Option(s, w) ==
  CASE w.name = "-h" -> [s EXCEPT !.at = "usage"]
    [] w.name = "-q" -> [s EXCEPT !.shutdown = "power off"]
    [] w.name = "-r" -> [s EXCEPT !.shutdown = "reboot"]
    [] w.name = "-f" -> [s EXCEPT !.format = TRUE]
    [] w.name = "-filesys" -> [s EXCEPT !.filesys = w.value]
    [] w.name = "-scratch" -> [s EXCEPT !.scratch = w.value]
    [] w.name = "-swap" -> [s EXCEPT !.swap = w.value]
    [] w.name = "-rs" -> IF w.value = NULL THEN [s EXCEPT !.at = "panic"] ELSE [s EXCEPT !.seed = w.value]
    [] w.name = "-mlfqs" -> [s EXCEPT !.mlfqs = TRUE]
    [] w.name = "-ul" -> IF w.value = NULL THEN [s EXCEPT !.at = "panic"] ELSE [s EXCEPT !.ul = w.value]
    [] OTHER -> [s EXCEPT !.at = "panic"]

RECURSIVE OptionsFrom(_, _)
OptionsFrom(s, argv) ==
  IF s.at # "ok" \/ argv = <<>> \/ ~Head(argv).dash THEN [s |-> s, argv |-> argv]
  ELSE OptionsFrom(Option(s, Head(argv)), Tail(argv))

(* The generator is seeded with the time in the end, whatever -rs said. *)
parse_options(argv, time) ==
  LET r == OptionsFrom(Boot, argv)
  IN  IF r.s.at = "ok" THEN [r EXCEPT !.s.seed = time] ELSE r
-----------------------------------------------------------------------------
ArgcOf == [run |-> 2, ls |-> 1, cat |-> 2, rm |-> 2, extract |-> 1, append |-> 2]

(* The actions run before all words are used or one of them panics. *)
RECURSIVE run_actions(_)
run_actions(argv) ==
  IF argv = <<>> THEN [ok |-> TRUE, done |-> <<>>]
  ELSE IF Head(argv).name \notin DOMAIN ArgcOf THEN [ok |-> FALSE, done |-> <<>>]
  ELSE LET argc == ArgcOf[Head(argv).name]
       IN  IF argc > Len(argv) THEN [ok |-> FALSE, done |-> <<>>]
           ELSE LET r == run_actions(SubSeq(argv, argc + 1, Len(argv)))
                IN  [r EXCEPT !.done = <<SubSeq(argv, 1, argc)>> \o @]

main(argv, time) ==
  LET r == parse_options(argv, time)
  IN  IF r.s.at = "ok" THEN [s |-> r.s, run |-> run_actions(r.argv)]
      ELSE [s |-> r.s, run |-> [ok |-> FALSE, done |-> <<>>]]
-----------------------------------------------------------------------------
(* The words that read_command_line finds are the pieces of the buffer       *)
(* between null bytes, in order, and it panics exactly if there are fewer of *)
(* them than the loader has counted, for counts that fit the array argv.     *)
WordsAreRight(buf, argc) ==
  LET starts == {p \in 0 .. LOADER_ARGS_LEN - 1 : p = 0 \/ buf[p - 1] = NUL}
      inorder == SetToSortSeq(starts, LAMBDA x, y : x < y)
  IN  argc <= MaxArgc => read_command_line(buf, argc) =
        IF argc <= Len(inorder) THEN SubSeq(inorder, 1, argc) ELSE inorder \o <<-1>>

(* Options are the words before the first that does not start with a dash;   *)
(* the last of a kind counts, but for -rs, which never does: the generator   *)
(* is seeded with the time afterwards, where parse_options says that "this   *)
(* has no effect if an -rs option was specified".  Unknown options, or -rs   *)
(* and -ul without value, keep every action from running.  The words after   *)
(* them are divided among the actions run, each with the arguments it needs, *)
(* in the order of the line, no word is skipped or used twice, and whatever  *)
(* precedes a bad action is run.                                             *)
CommandsAreRight(argv) ==
  LET first == Min({i \in 1 .. Len(argv) + 1 : i > Len(argv) \/ ~argv[i].dash})
      opts == SubSeq(argv, 1, first - 1)
      rest == SubSeq(argv, first, Len(argv))
      r == main(argv, "now")
      done == FlattenSeq(r.run.done)
      LastOf(names) == IF \E i \in DOMAIN opts : opts[i].name \in names
                         THEN opts[Max({i \in DOMAIN opts : opts[i].name \in names})] ELSE NULL
      bad == {i \in DOMAIN opts : \/ opts[i].name \notin {"-q", "-r", "-f", "-filesys", "-scratch", "-swap",
                                                          "-rs", "-mlfqs", "-ul"}
                                  \/ opts[i].name \in {"-rs", "-ul"} /\ opts[i].value = NULL}
  IN  IF bad # {} THEN r.s.at # "ok" /\ r.run.done = <<>>
      ELSE /\ r.s.at = "ok"
           /\ r.s.filesys = IF LastOf({"-filesys"}) = NULL THEN NULL ELSE LastOf({"-filesys"}).value
           /\ r.s.ul = IF LastOf({"-ul"}) = NULL THEN NULL ELSE LastOf({"-ul"}).value
           /\ r.s.seed = "now"
           /\ (r.s.shutdown = "none") = (LastOf({"-q", "-r"}) = NULL)
           /\ r.s.shutdown = "reboot" => LastOf({"-q", "-r"}).name = "-r"
           /\ IsPrefix(done, rest) /\ r.run.ok = (done = rest)
           /\ \A i \in DOMAIN r.run.done : Len(r.run.done[i]) = ArgcOf[r.run.done[i][1].name]
           /\ ~r.run.ok => LET next == rest[Len(done) + 1]
                           IN  next.name \notin DOMAIN ArgcOf \/ Len(done) + ArgcOf[next.name] > Len(rest)
=============================================================================
