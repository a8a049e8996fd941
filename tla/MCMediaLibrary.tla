-------------------------- MODULE MCMediaLibrary ---------------------------
(* Small libraries for TLC: one film under up to four folder names and     *)
(* one show under two.                                                     *)
EXTENDS LibrarySync, TLC

CONSTANTS film, show, f1, f2, f3, f4, s1, s2

MCOf        == [n \in Names |-> IF n \in {s1, s2} THEN show ELSE film]
MCCanonical == (film :> f1) @@ (show :> s1)
(* f2 is another spelling of f1; f3 is another title, of a 4K release.     *)
MCNorm      == [n \in Names |-> IF n = f2 THEN f1 ELSE n]
MCTier      == [n \in Names |-> CASE n = f3 -> 4 [] n = s2 -> 3 [] OTHER -> 0]
(* f3's folder holds a poster.                                             *)
MCExtras    == [n \in Names |-> IF n = f3 THEN 1 ELSE 0]
MCListing   == f1 :> 1 @@ f2 :> 2 @@ f3 :> 3 @@ s1 :> 4 @@ s2 :> 5 @@ f4 :> 6
(* The name f3 begins with f2; with f1 in its place it reads f4.           *)
MCBegins    == [n \in Names |-> IF n = f2 THEN {f2, f3} ELSE {n}]
MCSpliced   == [x \in Names \X Names \X Names |->
                  IF x[1] = x[3] THEN x[2] ELSE IF x[3] = f3 THEN f4 ELSE x[3]]

File(n, url)    == [folder |-> n, stem |-> n, ep |-> 0, url |-> url]
Episode(n, url) == [folder |-> n, stem |-> n, ep |-> 1, url |-> url]
Row(n, ep)      == [media |-> MCOf[n], named |-> TRUE, folder |-> n, stem |-> n, ep |-> ep]
Nfo(n, title)   == [folder |-> n, stem |-> n, title |-> title]
Runs(S)         == [t \in Started |-> IF t \in S THEN 1 ELSE 0]

(* A request while the generator runs, which also restores a lost film.    *)
Requested == [dirs |-> {}, disk |-> {}, nfo |-> {}, items |-> <<Row(f1, 0)>>,
              wanted |-> {film, show}, left |-> Runs({"generate", "cleanup"})]
(* Files that play nothing and a folder without a file, to be repaired.    *)
Expired == [dirs |-> {f1, f3, s1}, disk |-> {File(f3, Direct), Episode(s1, 2)},
            nfo |-> {Nfo(f1, f1), Nfo(f3, f1), Nfo(s1, s1)},
            items |-> <<Row(f1, 0), Row(s1, 1)>>, wanted |-> {},
            left |-> [Runs({"repair", "generate", "dedup"}) EXCEPT !["repair"] = 2]]
(* The same before the table knew the film.                                *)
Unknown == [Expired EXCEPT !.items = <<Row(s1, 1)>>, !.disk = {File(f3, Direct), Episode(s1, 1)}]
(* A film in three folders.                                                *)
Spelled == [dirs |-> {f2, f3}, disk |-> {File(f2, 1), File(f3, 2), [File(f2, 1) EXCEPT !.stem = f1]},
            nfo |-> {Nfo(f2, f1), Nfo(f3, f1)},
            items |-> <<Row(f2, 0), Row(f3, 0)>>, wanted |-> {},
            left |-> [Runs({"migrate", "dedup", "repair", "generate"}) EXCEPT !["migrate"] = 2,
                        !["generate"] = 2]]
(* A film and a better copy of it, both of which the migration keeps.      *)
Doubled == [dirs |-> {f1, f3}, disk |-> {File(f1, 1), File(f3, 2),
                                     [File(f3, 2) EXCEPT !.stem = f1]},
            nfo |-> {Nfo(f1, f1), Nfo(f3, f1)},
            items |-> <<Row(f1, 0), Row(f3, 0)>>, wanted |-> {},
            left |-> [Runs({"migrate", "dedup"}) EXCEPT !["migrate"] = 2, !["dedup"] = 2]]
(* The same for the cleanup, alone and against the migration.              *)
Messy == [dirs |-> {f2, f3, s1, s2}, disk |-> {File(f2, 1), File(f3, 2), Episode(s2, 3)},
          nfo |-> {Nfo(f2, f1), Nfo(f3, f1), Nfo(s1, s1), Nfo(s2, s2)},
          items |-> <<Row(f2, 0), Row(f3, 0), Row(s2, 1)>>, wanted |-> {},
          left |-> [Runs({"cleanup"}) EXCEPT !["cleanup"] = 2]]
(* A season with enough episodes for a pack.                               *)
Season == [dirs |-> {s1}, disk |-> {Episode(s1, 1)}, nfo |-> {Nfo(s1, s1)},
           items |-> <<Row(s1, 1)>>, wanted |-> {show},
           left |-> Runs({"pack", "generate"})]

(* Folders and rows to be listed by two threads at once.                   *)
Listed == [dirs |-> {f2, f3, s1}, disk |-> {File(f2, 1), File(f3, 1), Episode(s1, 2)},
           nfo |-> {}, items |-> <<Row(f2, 0), Row(s1, 1)>>, wanted |-> {},
           left |-> [Runs({"import", "resolve", "seerr"}) EXCEPT !["import"] = 2]]
Recovered == [Expired EXCEPT !.left = Runs({"recovery", "import"})]

Tidied == [Messy EXCEPT !.left = Runs({"cleanup", "migrate"})]

(* Folders named by IMDb ids, alone and beside the folders of the titles.  *)
Raw  == [dirs |-> {f2, f3, s2}, disk |-> {File(f2, 1), File(f3, 2), Episode(s2, 3)},
         nfo |-> {Nfo(f3, f1), Nfo(s2, s1)},
         items |-> <<Row(f2, 0), Row(f3, 0), Row(s2, 1)>>, wanted |-> {},
         left |-> Runs({"titles", "generate", "migrate"})]
Both == [dirs |-> {f1, f3, s1, s2},
         disk |-> {File(f1, 1), File(f3, 2), Episode(s1, 3), Episode(s2, 4)},
         nfo |-> {Nfo(f1, f1), Nfo(f3, f1), Nfo(s2, s1)},
         items |-> <<Row(f1, 0), Row(f3, 0), Row(s1, 1), Row(s2, 1)>>, wanted |-> {},
         left |-> Runs({"titles", "repair", "generate"})]

MCSetups == {Requested, Expired, Unknown, Spelled, Doubled, Messy, Tidied, Season,
             Listed, Recovered, Raw, Both}
=============================================================================
