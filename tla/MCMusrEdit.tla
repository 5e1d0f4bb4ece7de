----------------------------- MODULE MCMusrEdit -----------------------------
EXTENDS MusrEdit

(* x.msr and x.mlog as the command line names them, and another x.msr.     *)
MCFiles == {<<"", "msr">>, <<"", "mlog">>, <<"a", "msr">>}
MCChosen == {<<"a", "msr">>}
MCOpened == << <<"", "msr">>, <<"", "mlog">> >>
=============================================================================
