----------------------------- MODULE CloudDrive -----------------------------
(***************************************************************************)
(* The cloud drive behind the reactor: HttpHandler, run by any of the      *)
(* pool's workers, stores uploads in the web root, reads files from it and *)
(* lists it, with nothing that keeps two requests apart.                   *)
(***************************************************************************)
EXTENDS Integers, Sequences, FiniteSets

CONSTANTS Workers,
          Names,         \* file names: "404.html", "uploaded_file.dat" and what clients use
          Datas,         \* contents of uploaded files: sequences of characters
          Blocks,        \* what one read of a download returns at most
          MaxRequests,   \* bound: requests
          MaxFailures,   \* bound: failing open and short write calls
          NoFile

CloudDriveAssumption ==
  /\ {"404.html", "uploaded_file.dat"} \subseteq Names
  /\ Names \cap {"unclosed", "blank"} = {} /\ Datas \subseteq Seq(STRING)
  /\ Blocks \in Nat \ {0} /\ MaxRequests \in Nat /\ MaxFailures \in Nat
  /\ NoFile \notin Datas

VARIABLES
  disk,        \* the files of _webroot
  job,         \* the request each worker is handling
  at,          \* where: "idle", "open", "write", "read", "list" or "sent"
  buf,         \* what it has read or listed
  resp,        \* its response: the status and the content
  requests, failures,
  stored,      \* ghost: what each file must hold; {} if anything may be there
  quiet        \* ghost: the workers whose file nobody has written meanwhile

vars == <<disk, job, at, buf, resp, requests, failures, stored, quiet>>

NoJob == [kind |-> "none", name |-> NoFile]

Init ==
  /\ disk = [n \in Names |-> NoFile]
  /\ job = [w \in Workers |-> NoJob]
  /\ at = [w \in Workers |-> "idle"]
  /\ buf = [w \in Workers |-> <<>>]
  /\ resp = [w \in Workers |-> <<>>]
  /\ requests = 0 /\ failures = 0
  /\ stored = [n \in Names |-> {NoFile}]
  /\ quiet = {}

-----------------------------------------------------------------------------
(* The body of an upload's form: the part's header, an empty line, the     *)
(* data, the boundary.  The header has a file name, or one whose quotation *)
(* mark is never closed; without one see UploadNameless.                   *)
Headers == {<<n>> : n \in Names \ {"404.html", "uploaded_file.dat"}} \cup {<<"unclosed">>}
Form(header, data) == header \o <<"blank">> \o data \o <<"crlf--", "B--">>

SaveName(header) == IF header = <<"unclosed">> THEN "uploaded_file.dat" ELSE header[1]

First(body, unit) == CHOOSE i \in DOMAIN body : body[i] = unit /\ \A j \in 1 .. i - 1 : body[j] # unit
Final(body, unit) == CHOOSE i \in DOMAIN body : body[i] = unit /\ \A j \in i + 1 .. Len(body) : body[j] # unit

(* Slip: the last character before the boundary is taken off too. *)
FileDataShort(body) == SubSeq(body, First(body, "blank") + 1, Final(body, "crlf--") - 2)

(* file_data_start and file_data_end: when the boundary follows at once,   *)
(* everything to the end of the body is taken.                             *)
FileData(body) ==
  LET start == First(body, "blank") + 1
      end == Final(body, "crlf--")
  IN  SubSeq(body, start, IF end <= start THEN Len(body) ELSE end - 1)

(* HttpHandler begins a request. *)
Begin(w) ==
  /\ at[w] \in {"idle", "sent"} /\ requests < MaxRequests
  /\ requests' = requests + 1
  /\ \/ \E h \in Headers, d \in Datas :
          /\ job' = [job EXCEPT ![w] =
               [kind |-> "upload", name |-> SaveName(h), data |-> d, body |-> Form(h, d)]]
          /\ at' = [at EXCEPT ![w] = "open"]
     \/ \E n \in Names :
          /\ job' = [job EXCEPT ![w] = [kind |-> "download", name |-> n]]
          /\ at' = [at EXCEPT ![w] = "read"]
     \/ /\ job' = [job EXCEPT ![w] = [kind |-> "home", name |-> NoFile]]
        /\ at' = [at EXCEPT ![w] = "list"]
  /\ buf' = [buf EXCEPT ![w] = <<>>] /\ resp' = [resp EXCEPT ![w] = <<>>]
  /\ quiet' = IF \E v \in Workers \ {w} : at[v] = "write" /\ job[v].name = job'[w].name
              THEN quiet \ {w} ELSE quiet \cup {w}
  /\ UNCHANGED <<disk, failures, stored>>

Finish(w, status, content) ==
  /\ at' = [at EXCEPT ![w] = "sent"]
  /\ resp' = [resp EXCEPT ![w] = <<status, content>>]

(* Without "filename=" the search for the data begins at npos and fails:   *)
(* nothing is stored and the answer is the same redirect.                  *)
UploadNameless(w) ==
  /\ at[w] \in {"idle", "sent"} /\ requests < MaxRequests
  /\ requests' = requests + 1
  /\ job' = [job EXCEPT ![w] = NoJob]
  /\ buf' = [buf EXCEPT ![w] = <<>>]
  /\ Finish(w, 303, <<>>)
  /\ UNCHANGED <<disk, failures, stored, quiet>>

(* Writing to a file disturbs whoever else is at it. *)
Disturbed(w) == {v \in Workers \ {w} : job[v].name = job[w].name}

-----------------------------------------------------------------------------
(* open with O_TRUNC; when it fails the answer is a redirect all the same. *)
UploadOpen(w) ==
  /\ at[w] = "open"
  /\ disk' = [disk EXCEPT ![job[w].name] = <<>>]
  /\ stored' = [stored EXCEPT ![job[w].name] = {}]
  /\ quiet' = (quiet \ Disturbed(w))
                \cup (IF \E v \in Disturbed(w) : at[v] = "write" THEN {} ELSE {w})
  /\ at' = [at EXCEPT ![w] = "write"]
  /\ UNCHANGED <<job, buf, resp, requests, failures>>

UploadOpenFails(w) ==
  /\ at[w] = "open" /\ failures < MaxFailures
  /\ failures' = failures + 1
  /\ Finish(w, 303, <<>>)
  /\ UNCHANGED <<disk, job, buf, requests, stored, quiet>>

(* write, at offset 0 of what is there, of as much as the disk takes; and  *)
(* close.  Nobody looks at what write returned.                            *)
UploadWrite(w) ==
  /\ at[w] = "write"
  /\ LET n == job[w].name
         data == FileData(job[w].body)
     IN  \E k \in IF failures < MaxFailures THEN 0 .. Len(data) ELSE {Len(data)} :
           /\ failures' = IF k < Len(data) THEN failures + 1 ELSE failures
           /\ disk' = [disk EXCEPT ![n] = SubSeq(data, 1, k) \o SubSeq(@, k + 1, Len(@))]
           /\ stored' = [stored EXCEPT ![n] =
                IF w \in quiet /\ k = Len(data) THEN {job[w].data} ELSE {}]
  /\ quiet' = quiet \ Disturbed(w)
  /\ Finish(w, 303, <<>>)
  /\ UNCHANGED <<job, buf, requests>>

-----------------------------------------------------------------------------
(* ReadFile: one read, and the end.  Nothing read means 404.html. *)
DownloadRead(w) ==
  /\ at[w] = "read"
  /\ LET file == disk[job[w].name]
         seen == Len(buf[w])
     IN  IF file # NoFile /\ seen < Len(file)
         THEN /\ buf' = [buf EXCEPT ![w] =
                   @ \o SubSeq(file, seen + 1, IF seen + Blocks < Len(file) THEN seen + Blocks ELSE Len(file))]
              /\ UNCHANGED <<at, resp>>
         ELSE /\ buf' = [buf EXCEPT ![w] = <<>>]
              /\ IF buf[w] # <<>> THEN Finish(w, 200, buf[w])
                 ELSE Finish(w, 404, IF disk["404.html"] = NoFile THEN <<>> ELSE disk["404.html"])
  /\ UNCHANGED <<disk, job, requests, failures, stored, quiet>>

(* BuildDirectoryHtml: one entry and its size, and the end. *)
HomeEntry(w) ==
  /\ at[w] = "list"
  /\ LET left == {n \in Names : disk[n] # NoFile /\ \A i \in DOMAIN buf[w] : buf[w][i][1] # n}
     IN  IF left = {} THEN Finish(w, 200, buf[w]) /\ buf' = [buf EXCEPT ![w] = <<>>]
         ELSE /\ \E n \in left : buf' = [buf EXCEPT ![w] = Append(@, <<n, Len(disk[n])>>)]
              /\ UNCHANGED <<at, resp>>
  /\ UNCHANGED <<disk, job, requests, failures, stored, quiet>>

HomeFails(w) ==
  /\ at[w] = "list" /\ buf[w] = <<>> /\ failures < MaxFailures
  /\ failures' = failures + 1
  /\ Finish(w, 200, <<>>)
  /\ UNCHANGED <<disk, job, buf, requests, stored, quiet>>

Worker(w) ==
  \/ Begin(w) \/ UploadNameless(w) \/ UploadOpen(w) \/ UploadOpenFails(w) \/ UploadWrite(w)
  \/ DownloadRead(w) \/ HomeEntry(w) \/ HomeFails(w)

Next == \E w \in Workers : Worker(w)

Spec == Init /\ [][Next]_vars

-----------------------------------------------------------------------------
(* Unless uploads of one file overlap or the disk fails, the file holds    *)
(* the data of its last upload, empty data apart; and a download in which  *)
(* nobody writes the file sends all of it, or 404 when there is none.      *)
DriveRight ==
  /\ \A n \in Names : <<>> \notin stored[n] => stored[n] \subseteq {disk[n]}
  /\ \A w \in quiet :
       at[w] = "sent" /\ job[w].kind = "download" =>
         \A d \in stored[job[w].name] \ {<<>>} :
           IF d = NoFile THEN resp[w][1] = 404 ELSE resp[w] = <<200, d>>

(* What is between the part's header and the boundary is stored.           *)
UploadExact == \A n \in Names : stored[n] \subseteq {disk[n]}
=============================================================================
