------------------------------ MODULE MC_ESScrape ------------------------------
(* The three scrape tasks of scrapeElasticsearch, as model values.         *)
EXTENDS ESScrape, TLC

CONSTANTS nodeStats, clusterHealth, clusterStats

MCTaskOrder == <<nodeStats, clusterHealth, clusterStats>>
====
