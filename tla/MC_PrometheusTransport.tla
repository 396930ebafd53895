------------------------ MODULE MC_PrometheusTransport ------------------------
(***************************************************************************)
(* A small instance of PrometheusTransport: the Prometheus host and one    *)
(* other host a redirect may point to, the default idle pool of two        *)
(* connections per host, three API calls (enough for a call to find a     *)
(* pooled connection the server has since closed) and one redirect.       *)
(***************************************************************************)
EXTENDS PrometheusTransport

MCHosts == {"prometheus", "elsewhere"}
=============================================================================
