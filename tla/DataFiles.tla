------------------------------ MODULE DataFiles -----------------------------
(***************************************************************************)
(* Where the data files of services, providers, service types and          *)
(* applications are looked for.  A file is known by its base name; the     *)
(* places it may be in are an environment variable's directory, the        *)
(* user's, and those of the system, each of them after its subdirectory    *)
(* for the desktop that is running.  What a file says is abstracted to the *)
(* place it was read from.                                                 *)
(***************************************************************************)
EXTENDS SequencesExt

CONSTANTS
  EnvPlace,      (* The directory in AG_SERVICES and its like.              *)
  UserPlace,     (* g_get_user_data_dir().                                  *)
  SystemPlaces,  (* The others, a sequence.                                 *)
  NoPlace        (* No such file.                                           *)

ASSUME DataFilesAssumption == SystemPlaces \in Seq(ToSet(SystemPlaces))

Places == {EnvPlace, UserPlace} \cup ToSet(SystemPlaces)

\* _ag_find_libaccounts_file() of a process that has, or has not, the
\* variable in its environment, for a file that is in the places "in".
FindFile(withEnv, in) ==
  LET path == (IF withEnv THEN <<EnvPlace>> ELSE <<>>)
                \o <<UserPlace>> \o SystemPlaces
      i    == SelectInSeq(path, LAMBDA p : p \in in)
  IN  IF i = 0 THEN NoPlace ELSE path[i]

\* list_data_files(): "if the environment variable is set, don't look in
\* other places".
PlacesToList(withEnv) ==
  IF withEnv THEN <<EnvPlace>> ELSE <<UserPlace>> \o SystemPlaces
=============================================================================
