------------------------------- MODULE VideoEgress -------------------------------
(***************************************************************************)
(* The download of a video from a URL: download_video_from_url of          *)
(* app/vision/keyframes.py through the policy of app/vision/safe_egress.py.*)
(*                                                                         *)
(* A host is looked up when its URL is checked and again when a connection *)
(* is made, and its addresses may have changed in between; redirects lead  *)
(* to other hosts.                                                         *)
(***************************************************************************)
EXTENDS Naturals, FiniteSets

CONSTANTS
  Hosts,
  AllowedHosts,   \* settings.video_allowed_hosts, or all but the local names
  Addresses,
  Public,         \* those of is_public_address
  MaxHops,        \* bound: redirects of one request
  NoOrigin

ASSUME EgressAssumption ==
  /\ Hosts # {} /\ AllowedHosts \subseteq Hosts
  /\ Public \subseteq Addresses /\ MaxHops \in Nat

VARIABLES
  dns,        \* the addresses that each host resolves to
  fetch,      \* the request of the download that is under way
  download

egressVars == <<dns, fetch, download>>

\* URLs are told apart by their origin, _url_origin.  One that is not well-formed is
\* refused as that of a host which is not allowed.
Urls == Hosts \X {"http", "https"}
Host(url) == url[1]

\* VideoEgressPolicy.resolve, _resolve_addresses
Resolves(url) ==
  Host(url) \in AllowedHosts /\ dns[Host(url)] # {} /\ dns[Host(url)] \subseteq Public

\* secrets: the origin for which the request got its Authorization and Cookie headers;
\* targets: the validated addresses; address: the one that is connected.
Fetch == [pc : {"none", "asked", "connecting", "connected"}, url : Urls, targets : SUBSET Addresses,
          address : SUBSET Addresses, secrets : Urls \cup {NoOrigin}, hops : 0 .. MaxHops]
NoFetch == [pc |-> "none", url |-> CHOOSE u \in Urls : TRUE, targets |-> {}, address |-> {},
            secrets |-> NoOrigin, hops |-> 0]

\* The steps of a download, and the files with the name of its video: a part of it, or all
\* of it, within the limit or not.
Download == [pc : {"given", "metadata", "info", "streams", "finished", "refused"},
             file : {"none", "part", "video", "oversized"}]

Goes(pc) == download' = [download EXCEPT !.pc = pc]

-----------------------------------------------------------------------------
(* download_video_from_url.                                                *)

\* The URL that the user gives is checked before anything is requested.
CheckUrl ==
  /\ download.pc = "given"
  /\ \E url \in Urls : Goes(IF Resolves(url) THEN "metadata" ELSE "refused")
  /\ UNCHANGED <<dns, fetch>>

\* fetch_video_metadata has all it needs, transcripts too; a video that is known to be too
\* large is refused.
EndMetadata ==
  /\ download.pc = "metadata" /\ fetch.pc = "none"
  /\ \E pc \in {"info", "refused"} : Goes(pc)
  /\ UNCHANGED <<dns, fetch>>

\* _validate_download_info_egress: all streams, manifests and fragments are checked before
\* the first of them is requested.
CheckStreams ==
  /\ download.pc = "info" /\ fetch.pc = "none"
  /\ \E streams \in SUBSET Urls :
       Goes(IF streams # {} /\ \A url \in streams : Resolves(url) THEN "streams" ELSE "refused")
  /\ UNCHANGED <<dns, fetch>>

\* process_info writes the file.
Save ==
  /\ download.pc = "streams" /\ fetch.pc = "connected"
  /\ \E file \in {"part", "video", "oversized"} : download' = [download EXCEPT !.file = file]
  /\ UNCHANGED <<dns, fetch>>

\* The file is looked for and measured.
Finish ==
  /\ download.pc = "streams" /\ fetch.pc = "none"
  /\ download' = IF download.file = "video" THEN [pc |-> "finished", file |-> "video"]
                 ELSE [pc |-> "refused", file |-> "none"]
  /\ UNCHANGED <<dns, fetch>>

\* A request fails or is refused.  yt_dlp tries again, does without what it asked for, or
\* gives up: then what the download has written goes (_remove_download_candidates).
Fail ==
  /\ fetch' = NoFetch
  /\ UNCHANGED download \/ download' = [pc |-> "refused", file |-> "none"]

-----------------------------------------------------------------------------
(* A request: SafeYoutubeDL.urlopen and the handlers of build_opener.      *)

\* yt_dlp asks for a URL, with or without headers that are meant for its origin only.
Ask(url, secrets) ==
  /\ download.pc \in {"metadata", "info", "streams"} /\ fetch.pc = "none"
  /\ fetch' = [NoFetch EXCEPT !.pc = "asked", !.url = url,
                              !.secrets = IF secrets THEN url ELSE NoOrigin]
  /\ UNCHANGED <<dns, download>>

\* http_open, https_open: the connection gets the addresses that were found good.
Pin ==
  /\ fetch.pc = "asked"
  /\ IF Resolves(fetch.url)
     THEN /\ fetch' = [fetch EXCEPT !.pc = "connecting", !.targets = dns[Host(fetch.url)]]
          /\ UNCHANGED download
     ELSE Fail
  /\ UNCHANGED dns

\* Fault: the host is looked up again for the connection.
ConnectByName ==
  /\ fetch.pc = "connecting"
  /\ \E a \in dns[Host(fetch.url)] : fetch' = [fetch EXCEPT !.pc = "connected", !.address = {a}]
  /\ UNCHANGED <<dns, download>>

\* _connect_to_resolved_target: one of them that answers.
Connect ==
  /\ fetch.pc = "connecting"
  /\ \E a \in fetch.targets : fetch' = [fetch EXCEPT !.pc = "connected", !.address = {a}]
  /\ UNCHANGED <<dns, download>>

\* The answer is read.
Answered ==
  /\ fetch.pc = "connected"
  /\ fetch' = NoFetch
  /\ UNCHANGED <<dns, download>>

\* No address answers, a timeout, or an error status.
FetchFails ==
  /\ fetch.pc \in {"connecting", "connected"}
  /\ Fail
  /\ UNCHANGED dns

\* redirect_request: the new URL is checked, and another origin does not get the headers.
Redirect(url) ==
  /\ fetch.pc = "connected" /\ fetch.hops < MaxHops
  /\ IF Resolves(url)
     THEN /\ fetch' = [fetch EXCEPT !.pc = "asked", !.url = url, !.hops = @ + 1,
                                    !.targets = {}, !.address = {},
                                    !.secrets = IF url = fetch.url THEN @ ELSE NoOrigin]
          /\ UNCHANGED download
     ELSE Fail
  /\ UNCHANGED dns

\* Somebody else changes what a host resolves to.
DnsChanges(host, addresses) ==
  /\ dns' = [dns EXCEPT ![host] = addresses]
  /\ UNCHANGED <<fetch, download>>

EgressInit ==
  /\ dns \in [Hosts -> SUBSET Addresses]
  /\ fetch = NoFetch
  /\ download = [pc |-> "given", file |-> "none"]

EgressNext ==
  \/ CheckUrl \/ EndMetadata \/ CheckStreams \/ Save \/ Finish
  \/ \E url \in Urls : Redirect(url) \/ \E secrets \in BOOLEAN : Ask(url, secrets)
  \/ Pin \/ Connect \/ Answered \/ FetchFails
  \/ \E host \in Hosts, addresses \in SUBSET Addresses : DnsChanges(host, addresses)

EgressSpec == EgressInit /\ [][EgressNext]_egressVars

-----------------------------------------------------------------------------
(* Properties.                                                             *)

EgressTypeOK ==
  /\ dns \in [Hosts -> SUBSET Addresses]
  /\ fetch \in Fetch
  /\ download \in Download

\* Whatever a host resolves to by then, and wherever redirects lead: a connection is made
\* to a public address of an allowed host, and its request carries no headers that were
\* meant for another origin.
ConnectsWhereChecked ==
  fetch.pc = "connected" =>
    /\ fetch.address \subseteq Public /\ Host(fetch.url) \in AllowedHosts
    /\ fetch.secrets \in {NoOrigin, fetch.url}

\* A download that was refused at any step leaves no file, and one that was finished
\* leaves a video within the limit.
DownloadIsWhole ==
  /\ download.pc = "refused" => download.file = "none"
  /\ download.pc = "finished" => download.file = "video"
=============================================================================
