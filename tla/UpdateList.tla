------------------------------ MODULE UpdateList ------------------------------
(***************************************************************************)
(* The list of files a release must upload (create_archive.py): the files  *)
(* of content/ in the order os.walk gives them, each as the hash of its    *)
(* name and of its contents, are compared place by place with the list on  *)
(* the server, which is the one of the release before.                     *)
(*                                                                         *)
(* Who makes the mod adds, changes and removes files between releases, and *)
(* uploads list and files by hand.                                         *)
(***************************************************************************)
EXTENDS Integers, Sequences

CONSTANTS
  FileNames,   \* hashes of names
  Contents     \* SHA-1 of the encrypted files

VARIABLES
  list_version_local,
  list_version_server

listVars == <<list_version_local, list_version_server>>

Entries(list) == {list[k] : k \in DOMAIN list}

UpdateTypeOK ==
  \A list \in {list_version_local, list_version_server} :
    /\ Entries(list) \subseteq FileNames \X Contents
    /\ \A j, k \in DOMAIN list : list[j][1] = list[k][1] => j = k

ListInit == list_version_local = <<>> /\ list_version_server = <<>>

\* Mutation: files behind the end of the server's list are not looked at.
DiffOfCommon ==
  {list_version_local[k][1] :
     k \in {j \in DOMAIN list_version_local \cap DOMAIN list_version_server :
              list_version_local[j][2] # list_version_server[j][2]}}

\* diff_list.
Diff ==
  {list_version_local[k][1] :
     k \in {j \in DOMAIN list_version_local :
              j \in DOMAIN list_version_server =>
                list_version_local[j][2] # list_version_server[j][2]}}

\* A file comes at the place os.walk gives it.
AddFile(name, value) ==
  /\ name \notin {e[1] : e \in Entries(list_version_local)}
  /\ \E k \in 0..Len(list_version_local) :
       list_version_local' = SubSeq(list_version_local, 1, k) \o <<<<name, value>>>>
                               \o SubSeq(list_version_local, k + 1, Len(list_version_local))
  /\ UNCHANGED list_version_server

ChangeFile(k, value) ==
  /\ list_version_local' = [list_version_local EXCEPT ![k][2] = value]
  /\ UNCHANGED list_version_server

RemoveFile(k) ==
  /\ list_version_local' = SubSeq(list_version_local, 1, k - 1)
                             \o SubSeq(list_version_local, k + 1, Len(list_version_local))
  /\ UNCHANGED list_version_server

\* ctgp_filelist.ver is uploaded.
Upload ==
  /\ list_version_server' = list_version_local
  /\ UNCHANGED list_version_local

ListNext ==
  \/ \E name \in FileNames, value \in Contents : AddFile(name, value)
  \/ \E k \in DOMAIN list_version_local :
       RemoveFile(k) \/ \E value \in Contents : ChangeFile(k, value)
  \/ Upload

ListSpec == ListInit /\ [][ListNext]_listVars

\* Whatever was added, changed or removed since the last release, a file that the server
\* does not have as it is now is among the updates, unless the server has the same
\* contents at its place under another name (create_archive.py:124-133): a file that was
\* only renamed may be missed, and is missing on the SD card then.
ChangesListed ==
  \A k \in DOMAIN list_version_local :
    LET entry == list_version_local[k]
        renamed == /\ k \in DOMAIN list_version_server
                   /\ list_version_server[k][2] = entry[2] /\ list_version_server[k][1] # entry[1]
    IN entry \in Entries(list_version_server) \/ renamed \/ entry[1] \in Diff
=============================================================================
