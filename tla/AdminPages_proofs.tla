--------------------------- MODULE AdminPages_proofs ---------------------------
(***************************************************************************)
(* Proofs about the pages: the invariant IndInv of AdminPages is           *)
(* inductive, and with it what the pages promise holds for every number of *)
(* selections, of requests on their way and of changes.  The proofs do not *)
(* speak of single pages: the tables of AdminPages enter them through      *)
(* PagesSound, which says of every page what its descriptions have in      *)
(* common with those of its kind, and only there page by page.             *)
(***************************************************************************)
EXTENDS AdminPages, FiniteSetTheorems, TLAPS

-----------------------------------------------------------------------------
(***************************************************************************)
(* The tables of pages and handlers, entry by entry.                       *)
(***************************************************************************)

\* Each handler saves as its description says.
LEMMA SaveTable ==
    /\ SaveOf["trigger"] = Save_trigger
    /\ SaveOf["create_webhook"] = Save_create_webhook
    /\ SaveOf["toggle_webhook"] = Save_toggle_webhook
    /\ SaveOf["delete_webhook"] = Save_delete_webhook
    /\ SaveOf["test_webhook"] = Save_test_webhook
    /\ SaveOf["create_key"] = Save_create_key
    /\ SaveOf["revoke_key"] = Save_revoke_key
    /\ SaveOf["restore"] = Save_restore
    /\ SaveOf["dismiss"] = Save_dismiss
    /\ SaveOf["dismiss_all"] = Save_dismiss_all
    /\ SaveOf["dismiss_unread"] = Save_dismiss_unread
    /\ SaveOf["demo_alerts"] = Save_demo_alerts
    /\ SaveOf["remove_user"] = Save_remove_user
    /\ SaveOf["archive"] = Save_archive
    /\ SaveOf["bulk_sync"] = Save_bulk_sync
    /\ SaveOf["add_to_customer"] = Save_add_to_customer
    /\ SaveOf["sync_now"] = Save_sync_now
    /\ SaveOf["ops_filename"] = Save_ops_filename
    /\ SaveOf["branding"] = Save_branding
    /\ SaveOf["no_branding"] = Save_no_branding
    /\ SaveOf["go_push"] = Save_go_push
    /\ SaveOf["option_card"] = Save_option_card
    /\ SaveOf["option_delete"] = Save_option_delete
    /\ SaveOf["sync_options"] = Save_sync_options
    /\ SaveOf["save_all"] = Save_save_all
    /\ SaveOf["setup_card"] = Save_setup_card
    /\ SaveOf["setup_delete"] = Save_setup_delete
    /\ SaveOf["customer"] = Save_customer
    /\ SaveOf["secret"] = Save_secret
    /\ SaveOf["delete_customer"] = Save_delete_customer
    /\ SaveOf["pull_options"] = Save_pull_options
    /\ SaveOf["push_item"] = Save_push_item
    /\ SaveOf["remove_item"] = Save_remove_item
    /\ SaveOf["toggle_rule"] = Save_toggle_rule
    /\ SaveOf["delete_rule"] = Save_delete_rule
    /\ SaveOf["rule"] = Save_rule
    /\ SaveOf["connection"] = Save_connection
    /\ SaveOf["signup"] = Save_signup
    /\ SaveOf["active"] = Save_active
    /\ SaveOf["supplier"] = Save_supplier
    /\ SaveOf["credentials"] = Save_credentials
    /\ SaveOf["delete_supplier"] = Save_delete_supplier
    /\ SaveOf["import"] = Save_import
    /\ SaveOf["sanmar_fields"] = Save_sanmar_fields
    /\ SaveOf["sanmar_import"] = Save_sanmar_import
    /\ SaveOf["fourover_fields"] = Save_fourover_fields
    /\ SaveOf["fourover_import"] = Save_fourover_import
    /\ SaveOf["portal_secret"] = Save_portal_secret
    /\ SaveOf["decoration"] = Save_decoration
BY DEF SaveOf

\* Each page is the three records that describe it,
LEMMA ListPages ==
    /\ PageOf["push_log"] = Page(Load_push_log, View_push_log, NoWatch)
    /\ PageOf["audit_log"] = Page(Load_audit_log, View_audit_log, NoWatch)
    /\ PageOf["sync"] = Page(Load_sync, View_sync, NoWatch)
    /\ PageOf["sync_health"] = Page(Load_sync_health, View_sync_health, NoWatch)
    /\ PageOf["suppliers"] = Page(Load_suppliers, View_suppliers, NoWatch)
    /\ PageOf["customers"] = Page(Load_customers, View_customers, NoWatch)
    /\ PageOf["mappings"] = Page(Load_mappings, View_mappings, NoWatch)
    /\ PageOf["webhooks"] = Page(Load_webhooks, View_webhooks, NoWatch)
    /\ PageOf["integrations"] = Page(Load_integrations, View_integrations, NoWatch)
    /\ PageOf["archived"] = Page(Load_archived, View_archived, NoWatch)
    /\ PageOf["notifications"] = Page(Load_notifications, View_notifications, NoWatch)
    /\ PageOf["users"] = Page(Load_users, View_users, NoWatch)
    /\ PageOf["dashboard"] = Page(Load_dashboard, View_dashboard, NoWatch)
    /\ PageOf["analytics"] = Page(Load_analytics, View_analytics, NoWatch)
    /\ PageOf["monitoring"] = Page(Load_monitoring, View_monitoring, NoWatch)
BY DEF PageOf

LEMMA CatalogPages ==
    /\ PageOf["products"] = Page(Load_products, View_products, NoWatch)
    /\ PageOf["print"] = Page(Load_print, View_print, NoWatch)
    /\ PageOf["product"] = Page(Load_product, View_product, NoWatch)
    /\ PageOf["product_customer"] = Page(Load_product_customer, View_product_customer, NoWatch)
    /\ PageOf["branding"] = Page(Load_branding, View_branding, NoWatch)
    /\ PageOf["push_history"] = Page(Load_push_history, View_push_history, NoWatch)
    /\ PageOf["preview"] = Page(Load_preview, View_preview, NoWatch)
    /\ PageOf["options"] = Page(Load_options, View_options, NoWatch)
    /\ PageOf["configure"] = Page(Load_configure, View_configure, NoWatch)
    /\ PageOf["setup_products"] = Page(Load_setup_products, View_setup_products, NoWatch)
    /\ PageOf["setup"] = Page(Load_setup, View_setup, NoWatch)
BY DEF PageOf

LEMMA SettingPages ==
    /\ PageOf["customer"] = Page(Load_customer, View_customer, NoWatch)
    /\ PageOf["catalog"] = Page(Load_catalog, View_catalog, NoWatch)
    /\ PageOf["markup"] = Page(Load_markup, View_markup, NoWatch)
    /\ PageOf["connection"] = Page(Load_connection, View_connection, NoWatch)
    /\ PageOf["signup"] = Page(Load_signup, View_signup, NoWatch)
    /\ PageOf["supplier"] = Page(Load_supplier, View_supplier, NoWatch)
    /\ PageOf["imports"] = Page(Load_imports, View_imports, Watch_imports)
    /\ PageOf["sanmar"] = Page(Load_mapping, View_sanmar, Watch_sanmar)
    /\ PageOf["fourover"] = Page(Load_mapping, View_fourover, Watch_fourover)
BY DEF PageOf

LEMMA PortalPages ==
    /\ PageOf["portal_dashboard"] = Page(Load_portal_dashboard, View_portal_dashboard, NoWatch)
    /\ PageOf["portal_account"] = Page(Load_portal_account, View_portal_account, NoWatch)
    /\ PageOf["portal_catalog"] = Page(Load_portal_catalog, View_portal_catalog, NoWatch)
    /\ PageOf["portal_history"] = Page(Load_portal_history, View_portal_history, NoWatch)
    /\ PageOf["portal_pricing"] = Page(Load_portal_pricing, View_portal_pricing, NoWatch)
    /\ PageOf["shop"] = Page(Load_shop, View_shop, NoWatch)
    /\ PageOf["shop_product"] = Page(Load_shop_product, View_shop_product, NoWatch)
    /\ PageOf["decoration"] = Page(Load_decoration, View_decoration, NoWatch)
    /\ PageOf["quote"] = Page(Load_quote, View_quote, NoWatch)
BY DEF PageOf

\* and these are all the pages.
LEMMA PageNames ==
    Pages =
            {"push_log", "audit_log", "sync", "sync_health", "suppliers", "customers",
             "mappings", "webhooks", "integrations", "archived", "notifications", "users",
             "dashboard", "analytics", "monitoring", "products", "print", "product",
             "product_customer", "branding", "push_history", "preview", "options",
             "configure", "setup_products", "setup", "customer", "catalog", "markup",
             "connection", "signup", "supplier", "imports", "sanmar", "fourover",
             "portal_dashboard", "portal_account", "portal_catalog", "portal_history",
             "portal_pricing", "shop", "shop_product", "decoration", "quote"}
BY Zenon DEF Pages, PageOf

-----------------------------------------------------------------------------
(***************************************************************************)
(* What the proofs need to know of the pages.                              *)
(***************************************************************************)

\* Of how page p loads: a guarded page makes earlier questions void; a candid
\* one asks at once, has an error to show, spins when a question clears the
\* screen, clears the error or is for something else, and voids the earlier
\* ones if it has a selection; a lone one asks once.
LoadSound(p, l) ==
    /\ l.waits \in BOOLEAN /\ l.unset \in BOOLEAN
    /\ l.unset => l.keyed
    /\ l.more => p = "products"
    /\ p \in Guarded => l.drops
    /\ p \in Candid =>
           /\ l.fails = {"panel"} /\ l.spins \in {"first", "asking"}
           /\ l.clears \/ l.heals \/ l.keyed => l.spins = "asking"
           /\ l.keyed => p \in Guarded
           /\ ~l.waits /\ ~l.unset /\ ~l.more
    /\ p \in Lone =>
           /\ ~l.keyed /\ ~l.waits /\ l.again = "never"
           /\ l.spins \in {"first", "never"}
    /\ p \in Entire => "empties" \notin l.fails

\* Of how it watches a job: to give up is an end.
WatchSound(w) == w.gives => "failed" \in w.ends

\* Of handler n of page p: a page with a selection that reloads after its
\* await is belated; a change is in the last load, in the screen before it is
\* saved, or put there, as is the page's kind; one handler sends all.
SaveSound(p, l, n, s) ==
    /\ p \notin Belated /\ l.keyed => s.after # "reload"
    /\ s.undo => p = "supplier" /\ ~l.keyed
    /\ p \in Candid => s.after # "leave"
    /\ p \in Lone =>
           /\ s.after \notin {"reload", "later"}
           /\ s.shows => s.ahead \/ s.after = "patch"
    /\ p \notin Patched \cup Lone /\ s.shows => s.after = "reload"
    /\ s.whole => s.ahead /\ p \in Sweeping \cup Entire
    /\ p \in Entire /\ s.shows => s.whole
    /\ p \in Entire /\ s.whole =>
           s.busy /\ n = (IF p = "customer" THEN "customer" ELSE "fourover_fields")

\* Of its panels: "nothing" waits for the answer; so do the panels of a lone
\* page that offer something.
PanelSound(p, l, x, panel) ==
    /\ p \in Candid /\ x = "nothing" => {"loaded", "fine"} \subseteq panel.when
    /\ p \in Lone /\ panel.offers # {} =>
           "set" \in panel.when \/ ("loaded" \in panel.when /\ l.spins # "never")
    /\ p \in Entire /\ panel.offers # {} => "set" \in panel.when

Sound(p, l, v, w) ==
    /\ LoadSound(p, l) /\ WatchSound(w)
    /\ \A x \in DOMAIN v : PanelSound(p, l, x, v[x])
    /\ \A n \in UNION {v[x].offers : x \in DOMAIN v} : SaveSound(p, l, n, SaveOf[n])

\* Every page is sound.
LEMMA PagesSound ==
    ASSUME NEW p \in Pages
    PROVE  Sound(p, PageOf[p].load, PageOf[p].view, PageOf[p].watch)
PROOF
<1>1. CASE p = "push_log"
  <2>1. Sound("push_log", Load_push_log, View_push_log, NoWatch)
    BY DEF Sound, LoadSound, WatchSound, PanelSound, Load_push_log, Load, View_push_log, Panel,
       NoWatch, Guarded, Candid, Lone, Entire
  <2> QED BY <1>1, <2>1, ListPages DEF Page
<1>2. CASE p = "audit_log"
  <2>1. Sound("audit_log", Load_audit_log, View_audit_log, NoWatch)
    BY DEF Sound, LoadSound, WatchSound, PanelSound, Load_audit_log, Load, View_audit_log,
       Panel, NoWatch, Guarded, Candid, Lone, Entire
  <2> QED BY <1>2, <2>1, ListPages DEF Page
<1>3. CASE p = "sync"
  <2>1. Sound("sync", Load_sync, View_sync, NoWatch)
    BY DEF Sound, LoadSound, WatchSound, PanelSound, Load_sync, Load, View_sync, Panel, NoWatch,
       Guarded, Candid, Lone, Entire
  <2> QED BY <1>3, <2>1, ListPages DEF Page
<1>4. CASE p = "sync_health"
  <2>1. LoadSound("sync_health", Load_sync_health) /\ WatchSound(NoWatch)
    BY DEF LoadSound, WatchSound, Load_sync_health, Load, NoWatch, Guarded, Candid, Lone, Entire
  <2>2. \A x \in DOMAIN View_sync_health :
            PanelSound("sync_health", Load_sync_health, x, View_sync_health[x])
    BY DEF PanelSound, Load_sync_health, Load, View_sync_health, Panel, Candid, Lone, Entire
  <2>3. UNION {View_sync_health[x].offers : x \in DOMAIN View_sync_health} \subseteq
           {"trigger"}
    BY DEF View_sync_health, Panel
  <2>4. /\ SaveSound("sync_health", Load_sync_health, "trigger", Save_trigger)
    BY DEF SaveSound, Load_sync_health, Load, Save_trigger, Save, Candid, Lone, Entire, Belated,
       Patched, Sweeping
  <2> QED BY <1>4, <2>1, <2>2, <2>3, <2>4, ListPages, SaveTable DEF Sound, Page
<1>5. CASE p = "suppliers"
  <2>1. Sound("suppliers", Load_suppliers, View_suppliers, NoWatch)
    BY DEF Sound, LoadSound, WatchSound, PanelSound, Load_suppliers, Load, View_suppliers,
       Panel, NoWatch, Guarded, Candid, Lone, Entire
  <2> QED BY <1>5, <2>1, ListPages DEF Page
<1>6. CASE p = "customers"
  <2>1. Sound("customers", Load_customers, View_customers, NoWatch)
    BY DEF Sound, LoadSound, WatchSound, PanelSound, Load_customers, Load, View_customers,
       Panel, NoWatch, Guarded, Candid, Lone, Entire
  <2> QED BY <1>6, <2>1, ListPages DEF Page
<1>7. CASE p = "mappings"
  <2>1. Sound("mappings", Load_mappings, View_mappings, NoWatch)
    BY DEF Sound, LoadSound, WatchSound, PanelSound, Load_mappings, Load, View_mappings, Panel,
       NoWatch, Guarded, Candid, Lone, Entire
  <2> QED BY <1>7, <2>1, ListPages DEF Page
<1>8. CASE p = "webhooks"
  <2>1. LoadSound("webhooks", Load_webhooks) /\ WatchSound(NoWatch)
    BY DEF LoadSound, WatchSound, Load_webhooks, Load, NoWatch, Guarded, Candid, Lone, Entire
  <2>2. \A x \in DOMAIN View_webhooks : PanelSound("webhooks", Load_webhooks, x, View_webhooks[x])
    BY DEF PanelSound, Load_webhooks, Load, View_webhooks, Panel, Candid, Lone, Entire
  <2>3. UNION {View_webhooks[x].offers : x \in DOMAIN View_webhooks} \subseteq
           {"create_webhook", "toggle_webhook", "delete_webhook", "test_webhook"}
    BY DEF View_webhooks, Panel, View_endpoint
  <2>4. /\ SaveSound("webhooks", Load_webhooks, "create_webhook", Save_create_webhook)
        /\ SaveSound("webhooks", Load_webhooks, "toggle_webhook", Save_toggle_webhook)
        /\ SaveSound("webhooks", Load_webhooks, "delete_webhook", Save_delete_webhook)
        /\ SaveSound("webhooks", Load_webhooks, "test_webhook", Save_test_webhook)
    BY DEF SaveSound, Load_webhooks, Load, Save_create_webhook, Save_toggle_webhook,
       Save_delete_webhook, Save_test_webhook, Save, Candid, Lone, Entire, Belated, Patched,
       Sweeping
  <2> QED BY <1>8, <2>1, <2>2, <2>3, <2>4, ListPages, SaveTable DEF Sound, Page
<1>9. CASE p = "integrations"
  <2>1. LoadSound("integrations", Load_integrations) /\ WatchSound(NoWatch)
    BY DEF LoadSound, WatchSound, Load_integrations, Load, NoWatch, Guarded, Candid, Lone,
       Entire
  <2>2. \A x \in DOMAIN View_integrations :
            PanelSound("integrations", Load_integrations, x, View_integrations[x])
    BY DEF PanelSound, Load_integrations, Load, View_integrations, Panel, Candid, Lone, Entire
  <2>3. UNION {View_integrations[x].offers : x \in DOMAIN View_integrations} \subseteq
           {"create_key", "revoke_key"}
    BY DEF View_integrations, Panel
  <2>4. /\ SaveSound("integrations", Load_integrations, "create_key", Save_create_key)
        /\ SaveSound("integrations", Load_integrations, "revoke_key", Save_revoke_key)
    BY DEF SaveSound, Load_integrations, Load, Save_create_key, Save_revoke_key, Save, Candid,
       Lone, Entire, Belated, Patched, Sweeping
  <2> QED BY <1>9, <2>1, <2>2, <2>3, <2>4, ListPages, SaveTable DEF Sound, Page
<1>10. CASE p = "archived"
  <2>1. LoadSound("archived", Load_archived) /\ WatchSound(NoWatch)
    BY DEF LoadSound, WatchSound, Load_archived, Load, NoWatch, Guarded, Candid, Lone, Entire
  <2>2. \A x \in DOMAIN View_archived : PanelSound("archived", Load_archived, x, View_archived[x])
    BY DEF PanelSound, Load_archived, Load, View_archived, Panel, Candid, Lone, Entire
  <2>3. UNION {View_archived[x].offers : x \in DOMAIN View_archived} \subseteq
           {"restore"}
    BY DEF View_archived, Panel
  <2>4. /\ SaveSound("archived", Load_archived, "restore", Save_restore)
    BY DEF SaveSound, Load_archived, Load, Save_restore, Save, Candid, Lone, Entire, Belated,
       Patched, Sweeping
  <2> QED BY <1>10, <2>1, <2>2, <2>3, <2>4, ListPages, SaveTable DEF Sound, Page
<1>11. CASE p = "notifications"
  <2>1. LoadSound("notifications", Load_notifications) /\ WatchSound(NoWatch)
    BY DEF LoadSound, WatchSound, Load_notifications, Load, NoWatch, Guarded, Candid, Lone,
       Entire
  <2>2. \A x \in DOMAIN View_notifications :
            PanelSound("notifications", Load_notifications, x, View_notifications[x])
    BY DEF PanelSound, Load_notifications, Load, View_notifications, Panel, Candid, Lone, Entire
  <2>3. UNION {View_notifications[x].offers : x \in DOMAIN View_notifications} \subseteq
           {"demo_alerts", "dismiss", "dismiss_all", "dismiss_unread"}
    BY DEF View_notifications, Panel
  <2>4. /\ SaveSound("notifications", Load_notifications, "demo_alerts", Save_demo_alerts)
        /\ SaveSound("notifications", Load_notifications, "dismiss", Save_dismiss)
        /\ SaveSound("notifications", Load_notifications, "dismiss_all", Save_dismiss_all)
        /\ SaveSound("notifications", Load_notifications, "dismiss_unread", Save_dismiss_unread)
    BY DEF SaveSound, Load_notifications, Load, Save_demo_alerts, Save_dismiss,
       Save_dismiss_all, Save_dismiss_unread, Save, Candid, Lone, Entire, Belated, Patched,
       Sweeping
  <2> QED BY <1>11, <2>1, <2>2, <2>3, <2>4, ListPages, SaveTable DEF Sound, Page
<1>12. CASE p = "users"
  <2>1. LoadSound("users", Load_users) /\ WatchSound(NoWatch)
    BY DEF LoadSound, WatchSound, Load_users, Load, NoWatch, Guarded, Candid, Lone, Entire
  <2>2. \A x \in DOMAIN View_users : PanelSound("users", Load_users, x, View_users[x])
    BY DEF PanelSound, Load_users, Load, View_users, Panel, Candid, Lone, Entire
  <2>3. UNION {View_users[x].offers : x \in DOMAIN View_users} \subseteq
           {"remove_user"}
    BY DEF View_users, Panel
  <2>4. /\ SaveSound("users", Load_users, "remove_user", Save_remove_user)
    BY DEF SaveSound, Load_users, Load, Save_remove_user, Save, Candid, Lone, Entire, Belated,
       Patched, Sweeping
  <2> QED BY <1>12, <2>1, <2>2, <2>3, <2>4, ListPages, SaveTable DEF Sound, Page
<1>13. CASE p = "dashboard"
  <2>1. Sound("dashboard", Load_dashboard, View_dashboard, NoWatch)
    BY DEF Sound, LoadSound, WatchSound, PanelSound, Load_dashboard, Load, View_dashboard,
       Panel, NoWatch, Guarded, Candid, Lone, Entire
  <2> QED BY <1>13, <2>1, ListPages DEF Page
<1>14. CASE p = "analytics"
  <2>1. Sound("analytics", Load_analytics, View_analytics, NoWatch)
    BY DEF Sound, LoadSound, WatchSound, PanelSound, Load_analytics, Load, View_analytics,
       Panel, NoWatch, Guarded, Candid, Lone, Entire
  <2> QED BY <1>14, <2>1, ListPages DEF Page
<1>15. CASE p = "monitoring"
  <2>1. Sound("monitoring", Load_monitoring, View_monitoring, NoWatch)
    BY DEF Sound, LoadSound, WatchSound, PanelSound, Load_monitoring, Load, View_monitoring,
       Panel, NoWatch, Guarded, Candid, Lone, Entire
  <2> QED BY <1>15, <2>1, ListPages DEF Page
<1>16. CASE p = "products"
  <2>1. LoadSound("products", Load_products) /\ WatchSound(NoWatch)
    BY DEF LoadSound, WatchSound, Load_products, Load, NoWatch, Guarded, Candid, Lone, Entire
  <2>2. \A x \in DOMAIN View_products : PanelSound("products", Load_products, x, View_products[x])
    BY DEF PanelSound, Load_products, Load, View_products, Panel, Candid, Lone, Entire
  <2>3. UNION {View_products[x].offers : x \in DOMAIN View_products} \subseteq
           {"archive", "bulk_sync"}
    BY DEF View_products, Panel
  <2>4. /\ SaveSound("products", Load_products, "archive", Save_archive)
        /\ SaveSound("products", Load_products, "bulk_sync", Save_bulk_sync)
    BY DEF SaveSound, Load_products, Load, Save_archive, Save_bulk_sync, Save, Candid, Lone,
       Entire, Belated, Patched, Sweeping
  <2> QED BY <1>16, <2>1, <2>2, <2>3, <2>4, CatalogPages, SaveTable DEF Sound, Page
<1>17. CASE p = "print"
  <2>1. Sound("print", Load_print, View_print, NoWatch)
    BY DEF Sound, LoadSound, WatchSound, PanelSound, Load_print, Load, View_print, Panel,
       NoWatch, Guarded, Candid, Lone, Entire
  <2> QED BY <1>17, <2>1, CatalogPages DEF Page
<1>18. CASE p = "product"
  <2>1. LoadSound("product", Load_product) /\ WatchSound(NoWatch)
    BY DEF LoadSound, WatchSound, Load_product, Load, NoWatch, Guarded, Candid, Lone, Entire
  <2>2. \A x \in DOMAIN View_product : PanelSound("product", Load_product, x, View_product[x])
    BY DEF PanelSound, Load_product, Load, View_product, Panel, Candid, Lone, Entire
  <2>3. UNION {View_product[x].offers : x \in DOMAIN View_product} \subseteq
           {"add_to_customer", "sync_now", "ops_filename"}
    BY DEF View_product, Panel
  <2>4. /\ SaveSound("product", Load_product, "add_to_customer", Save_add_to_customer)
        /\ SaveSound("product", Load_product, "sync_now", Save_sync_now)
        /\ SaveSound("product", Load_product, "ops_filename", Save_ops_filename)
    BY DEF SaveSound, Load_product, Load, Save_add_to_customer, Save_sync_now,
       Save_ops_filename, Save, Candid, Lone, Entire, Belated, Patched, Sweeping
  <2> QED BY <1>18, <2>1, <2>2, <2>3, <2>4, CatalogPages, SaveTable DEF Sound, Page
<1>19. CASE p = "product_customer"
  <2>1. Sound("product_customer", Load_product_customer, View_product_customer, NoWatch)
    BY DEF Sound, LoadSound, WatchSound, PanelSound, Load_product_customer, Load,
       View_product_customer, Panel, NoWatch, Guarded, Candid, Lone, Entire
  <2> QED BY <1>19, <2>1, CatalogPages DEF Page
<1>20. CASE p = "branding"
  <2>1. LoadSound("branding", Load_branding) /\ WatchSound(NoWatch)
    BY DEF LoadSound, WatchSound, Load_branding, Load, NoWatch, Guarded, Candid, Lone, Entire
  <2>2. \A x \in DOMAIN View_branding : PanelSound("branding", Load_branding, x, View_branding[x])
    BY DEF PanelSound, Load_branding, Load, View_branding, Panel, Candid, Lone, Entire
  <2>3. UNION {View_branding[x].offers : x \in DOMAIN View_branding} \subseteq
           {"branding", "no_branding"}
    BY DEF View_branding, Panel
  <2>4. /\ SaveSound("branding", Load_branding, "branding", Save_branding)
        /\ SaveSound("branding", Load_branding, "no_branding", Save_no_branding)
    BY DEF SaveSound, Load_branding, Load, Save_branding, Save_no_branding, Save, Candid, Lone,
       Entire, Belated, Patched, Sweeping
  <2> QED BY <1>20, <2>1, <2>2, <2>3, <2>4, CatalogPages, SaveTable DEF Sound, Page
<1>21. CASE p = "push_history"
  <2>1. Sound("push_history", Load_push_history, View_push_history, NoWatch)
    BY DEF Sound, LoadSound, WatchSound, PanelSound, Load_push_history, Load, View_push_history,
       Panel, NoWatch, Guarded, Candid, Lone, Entire
  <2> QED BY <1>21, <2>1, CatalogPages DEF Page
<1>22. CASE p = "preview"
  <2>1. LoadSound("preview", Load_preview) /\ WatchSound(NoWatch)
    BY DEF LoadSound, WatchSound, Load_preview, Load, NoWatch, Guarded, Candid, Lone, Entire
  <2>2. \A x \in DOMAIN View_preview : PanelSound("preview", Load_preview, x, View_preview[x])
    BY DEF PanelSound, Load_preview, Load, View_preview, Panel, Candid, Lone, Entire
  <2>3. UNION {View_preview[x].offers : x \in DOMAIN View_preview} \subseteq
           {"go_push"}
    BY DEF View_preview, Panel
  <2>4. /\ SaveSound("preview", Load_preview, "go_push", Save_go_push)
    BY DEF SaveSound, Load_preview, Load, Save_go_push, Save, Candid, Lone, Entire, Belated,
       Patched, Sweeping
  <2> QED BY <1>22, <2>1, <2>2, <2>3, <2>4, CatalogPages, SaveTable DEF Sound, Page
<1>23. CASE p = "options"
  <2>1. LoadSound("options", Load_options) /\ WatchSound(NoWatch)
    BY DEF LoadSound, WatchSound, Load_options, Load, NoWatch, Guarded, Candid, Lone, Entire
  <2>2. \A x \in DOMAIN View_options : PanelSound("options", Load_options, x, View_options[x])
    BY DEF PanelSound, Load_options, Load, View_options, Panel, Candid, Lone, Entire
  <2>3. UNION {View_options[x].offers : x \in DOMAIN View_options} \subseteq
           {"option_card", "option_delete"}
    BY DEF View_options, Panel
  <2>4. /\ SaveSound("options", Load_options, "option_card", Save_option_card)
        /\ SaveSound("options", Load_options, "option_delete", Save_option_delete)
    BY DEF SaveSound, Load_options, Load, Save_option_card, Save_option_delete, Save, Candid,
       Lone, Entire, Belated, Patched, Sweeping
  <2> QED BY <1>23, <2>1, <2>2, <2>3, <2>4, CatalogPages, SaveTable DEF Sound, Page
<1>24. CASE p = "configure"
  <2>1. LoadSound("configure", Load_configure) /\ WatchSound(NoWatch)
    BY DEF LoadSound, WatchSound, Load_configure, Load, NoWatch, Guarded, Candid, Lone, Entire
  <2>2. \A x \in DOMAIN View_configure :
            PanelSound("configure", Load_configure, x, View_configure[x])
    BY DEF PanelSound, Load_configure, Load, View_configure, Panel, Candid, Lone, Entire
  <2>3. UNION {View_configure[x].offers : x \in DOMAIN View_configure} \subseteq
           {"sync_options"}
    BY DEF View_configure, Panel
  <2>4. /\ SaveSound("configure", Load_configure, "sync_options", Save_sync_options)
    BY DEF SaveSound, Load_configure, Load, Save_sync_options, Save, Candid, Lone, Entire,
       Belated, Patched, Sweeping
  <2> QED BY <1>24, <2>1, <2>2, <2>3, <2>4, CatalogPages, SaveTable DEF Sound, Page
<1>25. CASE p = "setup_products"
  <2>1. Sound("setup_products", Load_setup_products, View_setup_products, NoWatch)
    BY DEF Sound, LoadSound, WatchSound, PanelSound, Load_setup_products, Load,
       View_setup_products, Panel, NoWatch, Guarded, Candid, Lone, Entire
  <2> QED BY <1>25, <2>1, CatalogPages DEF Page
<1>26. CASE p = "setup"
  <2>1. LoadSound("setup", Load_setup) /\ WatchSound(NoWatch)
    BY DEF LoadSound, WatchSound, Load_setup, Load, NoWatch, Guarded, Candid, Lone, Entire
  <2>2. \A x \in DOMAIN View_setup : PanelSound("setup", Load_setup, x, View_setup[x])
    BY DEF PanelSound, Load_setup, Load, View_setup, Panel, Candid, Lone, Entire
  <2>3. UNION {View_setup[x].offers : x \in DOMAIN View_setup} \subseteq
           {"save_all", "setup_card", "setup_delete"}
    BY DEF View_setup, Panel
  <2>4. /\ SaveSound("setup", Load_setup, "save_all", Save_save_all)
        /\ SaveSound("setup", Load_setup, "setup_card", Save_setup_card)
        /\ SaveSound("setup", Load_setup, "setup_delete", Save_setup_delete)
    BY DEF SaveSound, Load_setup, Load, Save_save_all, Save_setup_card, Save_setup_delete, Save,
       Candid, Lone, Entire, Belated, Patched, Sweeping
  <2> QED BY <1>26, <2>1, <2>2, <2>3, <2>4, CatalogPages, SaveTable DEF Sound, Page
<1>27. CASE p = "customer"
  <2>1. LoadSound("customer", Load_customer) /\ WatchSound(NoWatch)
    BY DEF LoadSound, WatchSound, Load_customer, Load, NoWatch, Guarded, Candid, Lone, Entire
  <2>2. \A x \in DOMAIN View_customer : PanelSound("customer", Load_customer, x, View_customer[x])
    BY DEF PanelSound, Load_customer, Load, View_customer, Panel, Candid, Lone, Entire
  <2>3. UNION {View_customer[x].offers : x \in DOMAIN View_customer} \subseteq
           {"customer", "secret", "delete_customer", "pull_options"}
    BY DEF View_customer, Panel
  <2>4. /\ SaveSound("customer", Load_customer, "customer", Save_customer)
        /\ SaveSound("customer", Load_customer, "secret", Save_secret)
        /\ SaveSound("customer", Load_customer, "delete_customer", Save_delete_customer)
        /\ SaveSound("customer", Load_customer, "pull_options", Save_pull_options)
    BY DEF SaveSound, Load_customer, Load, Save_customer, Save_secret, Save_delete_customer,
       Save_pull_options, Save, Candid, Lone, Entire, Belated, Patched, Sweeping
  <2> QED BY <1>27, <2>1, <2>2, <2>3, <2>4, SettingPages, SaveTable DEF Sound, Page
<1>28. CASE p = "catalog"
  <2>1. LoadSound("catalog", Load_catalog) /\ WatchSound(NoWatch)
    BY DEF LoadSound, WatchSound, Load_catalog, Load, NoWatch, Guarded, Candid, Lone, Entire
  <2>2. \A x \in DOMAIN View_catalog : PanelSound("catalog", Load_catalog, x, View_catalog[x])
    BY DEF PanelSound, Load_catalog, Load, View_catalog, Panel, Candid, Lone, Entire
  <2>3. UNION {View_catalog[x].offers : x \in DOMAIN View_catalog} \subseteq
           {"push_item", "remove_item"}
    BY DEF View_catalog, Panel
  <2>4. /\ SaveSound("catalog", Load_catalog, "push_item", Save_push_item)
        /\ SaveSound("catalog", Load_catalog, "remove_item", Save_remove_item)
    BY DEF SaveSound, Load_catalog, Load, Save_push_item, Save_remove_item, Save, Candid, Lone,
       Entire, Belated, Patched, Sweeping
  <2> QED BY <1>28, <2>1, <2>2, <2>3, <2>4, SettingPages, SaveTable DEF Sound, Page
<1>29. CASE p = "markup"
  <2>1. LoadSound("markup", Load_markup) /\ WatchSound(NoWatch)
    BY DEF LoadSound, WatchSound, Load_markup, Load, NoWatch, Guarded, Candid, Lone, Entire
  <2>2. \A x \in DOMAIN View_markup : PanelSound("markup", Load_markup, x, View_markup[x])
    BY DEF PanelSound, Load_markup, Load, View_markup, Panel, Candid, Lone, Entire
  <2>3. UNION {View_markup[x].offers : x \in DOMAIN View_markup} \subseteq
           {"rule", "toggle_rule", "delete_rule"}
    BY DEF View_markup, Panel
  <2>4. /\ SaveSound("markup", Load_markup, "rule", Save_rule)
        /\ SaveSound("markup", Load_markup, "toggle_rule", Save_toggle_rule)
        /\ SaveSound("markup", Load_markup, "delete_rule", Save_delete_rule)
    BY DEF SaveSound, Load_markup, Load, Save_rule, Save_toggle_rule, Save_delete_rule, Save,
       Candid, Lone, Entire, Belated, Patched, Sweeping
  <2> QED BY <1>29, <2>1, <2>2, <2>3, <2>4, SettingPages, SaveTable DEF Sound, Page
<1>30. CASE p = "connection"
  <2>1. LoadSound("connection", Load_connection) /\ WatchSound(NoWatch)
    BY DEF LoadSound, WatchSound, Load_connection, Load, NoWatch, Guarded, Candid, Lone, Entire
  <2>2. \A x \in DOMAIN View_connection :
            PanelSound("connection", Load_connection, x, View_connection[x])
    BY DEF PanelSound, Load_connection, Load, View_connection, Panel, Candid, Lone, Entire
  <2>3. UNION {View_connection[x].offers : x \in DOMAIN View_connection} \subseteq
           {"connection"}
    BY DEF View_connection, Panel
  <2>4. /\ SaveSound("connection", Load_connection, "connection", Save_connection)
    BY DEF SaveSound, Load_connection, Load, Save_connection, Save, Candid, Lone, Entire,
       Belated, Patched, Sweeping
  <2> QED BY <1>30, <2>1, <2>2, <2>3, <2>4, SettingPages, SaveTable DEF Sound, Page
<1>31. CASE p = "signup"
  <2>1. LoadSound("signup", Load_signup) /\ WatchSound(NoWatch)
    BY DEF LoadSound, WatchSound, Load_signup, Load, NoWatch, Guarded, Candid, Lone, Entire
  <2>2. \A x \in DOMAIN View_signup : PanelSound("signup", Load_signup, x, View_signup[x])
    BY DEF PanelSound, Load_signup, Load, View_signup, Panel, Candid, Lone, Entire
  <2>3. UNION {View_signup[x].offers : x \in DOMAIN View_signup} \subseteq
           {"signup"}
    BY DEF View_signup, Panel
  <2>4. /\ SaveSound("signup", Load_signup, "signup", Save_signup)
    BY DEF SaveSound, Load_signup, Load, Save_signup, Save, Candid, Lone, Entire, Belated,
       Patched, Sweeping
  <2> QED BY <1>31, <2>1, <2>2, <2>3, <2>4, SettingPages, SaveTable DEF Sound, Page
<1>32. CASE p = "supplier"
  <2>1. LoadSound("supplier", Load_supplier) /\ WatchSound(NoWatch)
    BY DEF LoadSound, WatchSound, Load_supplier, Load, NoWatch, Guarded, Candid, Lone, Entire
  <2>2. \A x \in DOMAIN View_supplier : PanelSound("supplier", Load_supplier, x, View_supplier[x])
    BY DEF PanelSound, Load_supplier, Load, View_supplier, Panel, Candid, Lone, Entire
  <2>3. UNION {View_supplier[x].offers : x \in DOMAIN View_supplier} \subseteq
           {"active", "supplier", "credentials", "delete_supplier"}
    BY DEF View_supplier, Panel
  <2>4. /\ SaveSound("supplier", Load_supplier, "active", Save_active)
        /\ SaveSound("supplier", Load_supplier, "supplier", Save_supplier)
        /\ SaveSound("supplier", Load_supplier, "credentials", Save_credentials)
        /\ SaveSound("supplier", Load_supplier, "delete_supplier", Save_delete_supplier)
    BY DEF SaveSound, Load_supplier, Load, Save_active, Save_supplier, Save_credentials,
       Save_delete_supplier, Save, Candid, Lone, Entire, Belated, Patched, Sweeping
  <2> QED BY <1>32, <2>1, <2>2, <2>3, <2>4, SettingPages, SaveTable DEF Sound, Page
<1>33. CASE p = "imports"
  <2>1. LoadSound("imports", Load_imports) /\ WatchSound(Watch_imports)
    BY DEF LoadSound, WatchSound, Load_imports, Load, Watch_imports, Guarded, Candid, Lone,
       Entire
  <2>2. \A x \in DOMAIN View_imports : PanelSound("imports", Load_imports, x, View_imports[x])
    BY DEF PanelSound, Load_imports, Load, View_imports, Panel, Candid, Lone, Entire
  <2>3. UNION {View_imports[x].offers : x \in DOMAIN View_imports} \subseteq
           {"import"}
    BY DEF View_imports, Panel
  <2>4. /\ SaveSound("imports", Load_imports, "import", Save_import)
    BY DEF SaveSound, Load_imports, Load, Save_import, Save, Candid, Lone, Entire, Belated,
       Patched, Sweeping
  <2> QED BY <1>33, <2>1, <2>2, <2>3, <2>4, SettingPages, SaveTable DEF Sound, Page
<1>34. CASE p = "sanmar"
  <2>1. LoadSound("sanmar", Load_mapping) /\ WatchSound(Watch_sanmar)
    BY DEF LoadSound, WatchSound, Load_mapping, Load, Watch_sanmar, Guarded, Candid, Lone,
       Entire
  <2>2. \A x \in DOMAIN View_sanmar : PanelSound("sanmar", Load_mapping, x, View_sanmar[x])
    BY DEF PanelSound, Load_mapping, Load, View_sanmar, Panel, Candid, Lone, Entire
  <2>3. UNION {View_sanmar[x].offers : x \in DOMAIN View_sanmar} \subseteq
           {"sanmar_fields", "sanmar_import"}
    BY DEF View_sanmar, Panel
  <2>4. /\ SaveSound("sanmar", Load_mapping, "sanmar_fields", Save_sanmar_fields)
        /\ SaveSound("sanmar", Load_mapping, "sanmar_import", Save_sanmar_import)
    BY DEF SaveSound, Load_mapping, Load, Save_sanmar_fields, Save_sanmar_import, Save, Candid,
       Lone, Entire, Belated, Patched, Sweeping
  <2> QED BY <1>34, <2>1, <2>2, <2>3, <2>4, SettingPages, SaveTable DEF Sound, Page
<1>35. CASE p = "fourover"
  <2>1. LoadSound("fourover", Load_mapping) /\ WatchSound(Watch_fourover)
    BY DEF LoadSound, WatchSound, Load_mapping, Load, Watch_fourover, Guarded, Candid, Lone,
       Entire
  <2>2. \A x \in DOMAIN View_fourover : PanelSound("fourover", Load_mapping, x, View_fourover[x])
    BY DEF PanelSound, Load_mapping, Load, View_fourover, Panel, Candid, Lone, Entire
  <2>3. UNION {View_fourover[x].offers : x \in DOMAIN View_fourover} \subseteq
           {"fourover_fields", "fourover_import"}
    BY DEF View_fourover, Panel
  <2>4. /\ SaveSound("fourover", Load_mapping, "fourover_fields", Save_fourover_fields)
        /\ SaveSound("fourover", Load_mapping, "fourover_import", Save_fourover_import)
    BY DEF SaveSound, Load_mapping, Load, Save_fourover_fields, Save_fourover_import, Save,
       Candid, Lone, Entire, Belated, Patched, Sweeping
  <2> QED BY <1>35, <2>1, <2>2, <2>3, <2>4, SettingPages, SaveTable DEF Sound, Page
<1>36. CASE p = "portal_dashboard"
  <2>1. Sound("portal_dashboard", Load_portal_dashboard, View_portal_dashboard, NoWatch)
    BY DEF Sound, LoadSound, WatchSound, PanelSound, Load_portal_dashboard, Load,
       View_portal_dashboard, Panel, NoWatch, Guarded, Candid, Lone, Entire
  <2> QED BY <1>36, <2>1, PortalPages DEF Page
<1>37. CASE p = "portal_account"
  <2>1. LoadSound("portal_account", Load_portal_account) /\ WatchSound(NoWatch)
    BY DEF LoadSound, WatchSound, Load_portal_account, Load, NoWatch, Guarded, Candid, Lone,
       Entire
  <2>2. \A x \in DOMAIN View_portal_account :
            PanelSound("portal_account", Load_portal_account, x, View_portal_account[x])
    BY DEF PanelSound, Load_portal_account, Load, View_portal_account, Panel, Candid, Lone,
       Entire
  <2>3. UNION {View_portal_account[x].offers : x \in DOMAIN View_portal_account} \subseteq
           {"portal_secret"}
    BY DEF View_portal_account, Panel
  <2>4. /\ SaveSound("portal_account", Load_portal_account, "portal_secret", Save_portal_secret)
    BY DEF SaveSound, Load_portal_account, Load, Save_portal_secret, Save, Candid, Lone, Entire,
       Belated, Patched, Sweeping
  <2> QED BY <1>37, <2>1, <2>2, <2>3, <2>4, PortalPages, SaveTable DEF Sound, Page
<1>38. CASE p = "portal_catalog"
  <2>1. Sound("portal_catalog", Load_portal_catalog, View_portal_catalog, NoWatch)
    BY DEF Sound, LoadSound, WatchSound, PanelSound, Load_portal_catalog, Load,
       View_portal_catalog, Panel, NoWatch, Guarded, Candid, Lone, Entire
  <2> QED BY <1>38, <2>1, PortalPages DEF Page
<1>39. CASE p = "portal_history"
  <2>1. Sound("portal_history", Load_portal_history, View_portal_history, NoWatch)
    BY DEF Sound, LoadSound, WatchSound, PanelSound, Load_portal_history, Load,
       View_portal_history, Panel, NoWatch, Guarded, Candid, Lone, Entire
  <2> QED BY <1>39, <2>1, PortalPages DEF Page
<1>40. CASE p = "portal_pricing"
  <2>1. Sound("portal_pricing", Load_portal_pricing, View_portal_pricing, NoWatch)
    BY DEF Sound, LoadSound, WatchSound, PanelSound, Load_portal_pricing, Load,
       View_portal_pricing, Panel, NoWatch, Guarded, Candid, Lone, Entire
  <2> QED BY <1>40, <2>1, PortalPages DEF Page
<1>41. CASE p = "shop"
  <2>1. Sound("shop", Load_shop, View_shop, NoWatch)
    BY DEF Sound, LoadSound, WatchSound, PanelSound, Load_shop, Load, View_shop, Panel, NoWatch,
       Guarded, Candid, Lone, Entire
  <2> QED BY <1>41, <2>1, PortalPages DEF Page
<1>42. CASE p = "shop_product"
  <2>1. Sound("shop_product", Load_shop_product, View_shop_product, NoWatch)
    BY DEF Sound, LoadSound, WatchSound, PanelSound, Load_shop_product, Load, View_shop_product,
       Panel, NoWatch, Guarded, Candid, Lone, Entire
  <2> QED BY <1>42, <2>1, PortalPages DEF Page
<1>43. CASE p = "decoration"
  <2>1. LoadSound("decoration", Load_decoration) /\ WatchSound(NoWatch)
    BY DEF LoadSound, WatchSound, Load_decoration, Load, NoWatch, Guarded, Candid, Lone, Entire
  <2>2. \A x \in DOMAIN View_decoration :
            PanelSound("decoration", Load_decoration, x, View_decoration[x])
    BY DEF PanelSound, Load_decoration, Load, View_decoration, Panel, Candid, Lone, Entire
  <2>3. UNION {View_decoration[x].offers : x \in DOMAIN View_decoration} \subseteq
           {"decoration"}
    BY DEF View_decoration, Panel
  <2>4. /\ SaveSound("decoration", Load_decoration, "decoration", Save_decoration)
    BY DEF SaveSound, Load_decoration, Load, Save_decoration, Save, Candid, Lone, Entire,
       Belated, Patched, Sweeping
  <2> QED BY <1>43, <2>1, <2>2, <2>3, <2>4, PortalPages, SaveTable DEF Sound, Page
<1>44. CASE p = "quote"
  <2>1. Sound("quote", Load_quote, View_quote, NoWatch)
    BY DEF Sound, LoadSound, WatchSound, PanelSound, Load_quote, Load, View_quote, Panel,
       NoWatch, Guarded, Candid, Lone, Entire
  <2> QED BY <1>44, <2>1, PortalPages DEF Page
<1> QED BY PageNames, <1>1, <1>2, <1>3, <1>4, <1>5, <1>6, <1>7, <1>8, <1>9, <1>10, <1>11, <1>12,
       <1>13, <1>14, <1>15, <1>16, <1>17, <1>18, <1>19, <1>20, <1>21, <1>22, <1>23, <1>24,
       <1>25, <1>26, <1>27, <1>28, <1>29, <1>30, <1>31, <1>32, <1>33, <1>34, <1>35, <1>36,
       <1>37, <1>38, <1>39, <1>40, <1>41, <1>42, <1>43, <1>44

-----------------------------------------------------------------------------
(***************************************************************************)
(* Loads on their way.                                                     *)
(***************************************************************************)

\* The page stays what it is, and so does its description.
LEMMA SamePage ==
    ASSUME [Next]_vars
    PROVE  page' = page /\ L' = L /\ View' = View /\ Watch' = Watch
PROOF
<1>1. page' = page
  BY DEF Next, vars, ListFails, Select, Timer, Again, More, Serve, Lose, Reply, Arrive, Press,
         ServeSave, RefuseSave, LoseSave, Answers, Saved, NotSaved, JobEnds, Poll, PollFails
<1> QED BY <1>1 DEF L, View, Watch

\* What is known of it.
LEMMA PageSound ==
    ASSUME page \in Pages
    PROVE  Sound(page, L, View, Watch)
BY PagesSound DEF L, View, Watch

\* An answer is one of three kinds.
LEMMA AnswerKinds ==
    /\ Open \in Answer /\ Lost \in Answer /\ Open # Lost
    /\ \A h \in SUBSET Changes : Content(h) \in Answer /\ Content(h).is = "content"
                                 /\ Content(h).has = h /\ Content(h) # Lost
    /\ \A r \in Answer : /\ r.has \subseteq Changes
                         /\ r # Open /\ r # Lost <=> r.is = "content"
PROOF
<1>1. /\ Open.is = "open" /\ Lost.is = "lost" /\ Open.has = {} /\ Lost.has = {}
      /\ \A h : Content(h).is = "content" /\ Content(h).has = h
  BY DEF Open, Lost, Content
<1>2. \A r \in Answer : r = Open \/ r = Lost \/ \E h \in SUBSET Changes : r = Content(h)
  BY DEF Answer
<1>3. Open \in Answer /\ Lost \in Answer /\ \A h \in SUBSET Changes : Content(h) \in Answer
  BY DEF Answer
<1> QED BY <1>1, <1>2, <1>3

\* What stays of a load when it is answered or overtaken.
LEMMA AskKept ==
    ASSUME NEW a \in Asked
    PROVE  /\ a.key \in Keys /\ a.more \in BOOLEAN /\ a.late \in BOOLEAN /\ a.reply \in Answer
           /\ \A r \in Answer :
                  LET b == [a EXCEPT !.reply = r]
                  IN  b \in Asked /\ b.key = a.key /\ b.more = a.more /\ b.late = a.late
                      /\ b.reply = r
           /\ LET b == [a EXCEPT !.late = TRUE]
              IN  b \in Asked /\ b.key = a.key /\ b.more = a.more /\ b.late = TRUE
                  /\ b.reply = a.reply
BY DEF Asked

\* Sending a load.
LEMMA Sending ==
    ASSUME NEW s \in Seq(Asked), NEW k \in Keys, NEW more \in BOOLEAN,
           NEW t, t = Append(s, Ask(k, more))
    PROVE  /\ t \in Seq(Asked) /\ Len(t) = Len(s) + 1
           /\ \A j \in 1..Len(s) : t[j] = s[j]
           /\ t[Len(t)].key = k /\ t[Len(t)].more = more /\ ~t[Len(t)].late
           /\ t[Len(t)].reply = Open
PROOF
<1>1. Ask(k, more) \in Asked /\ Ask(k, more).key = k /\ Ask(k, more).more = more
      /\ Ask(k, more).late = FALSE /\ Ask(k, more).reply = Open
  BY AnswerKinds DEF Ask, Asked
<1>2. t \in Seq(Asked) /\ Len(t) = Len(s) + 1 /\ t[Len(s) + 1] = Ask(k, more)
      /\ \A j \in 1..Len(s) : t[j] = s[j]
  BY <1>1
<1> QED BY <1>1, <1>2

\* Answering load i.
Replied(s, i, r) == [s EXCEPT ![i].reply = r]
LEMMA Replying ==
    ASSUME NEW s \in Seq(Asked), NEW i \in 1..Len(s), NEW r \in Answer,
           NEW t, t = Replied(s, i, r)
    PROVE  /\ t \in Seq(Asked) /\ Len(t) = Len(s)
           /\ \A j \in 1..Len(s) : /\ t[j].key = s[j].key /\ t[j].more = s[j].more
                                   /\ t[j].late = s[j].late
                                   /\ j # i => t[j] = s[j]
           /\ t[i].reply = r
PROOF
<1>1. s[i] \in Asked
  OBVIOUS
<1> DEFINE b == [s[i] EXCEPT !.reply = r]
<1>2. b \in Asked /\ b.key = s[i].key /\ b.more = s[i].more /\ b.late = s[i].late /\ b.reply = r
  BY <1>1 DEF Asked
<1>3. t = [s EXCEPT ![i] = b]
  BY DEF Replied
<1> HIDE DEF b
<1>4. t \in Seq(Asked) /\ Len(t) = Len(s) /\ t[i] = b
      /\ \A j \in 1..Len(s) : j # i => t[j] = s[j]
  BY <1>2, <1>3
<1> QED BY <1>2, <1>4

\* Load i ends: those sent before it are overtaken.
Ended(s, i) ==
    [j \in 1..(Len(s) - 1) |->
        IF j >= i THEN s[j + 1] ELSE [s[j] EXCEPT !.late = TRUE]]
LEMMA Ending ==
    ASSUME NEW s \in Seq(Asked), NEW i \in 1..Len(s),
           NEW t, t = Ended(s, i)
    PROVE  /\ t \in Seq(Asked) /\ Len(t) = Len(s) - 1
           /\ \A j \in 1..Len(t) : IF j >= i THEN t[j] = s[j + 1]
                                   ELSE /\ t[j].key = s[j].key /\ t[j].more = s[j].more
                                        /\ t[j].reply = s[j].reply /\ t[j].late
PROOF
<1>1. Len(s) \in Nat /\ Len(s) - 1 \in Nat
  OBVIOUS
<1>2. ASSUME NEW j \in 1..(Len(s) - 1)
      PROVE  /\ t[j] \in Asked
             /\ j >= i => t[j] = s[j + 1]
             /\ ~(j >= i) => /\ t[j].key = s[j].key /\ t[j].more = s[j].more
                             /\ t[j].reply = s[j].reply /\ t[j].late
  <2>1. s[j] \in Asked /\ s[j + 1] \in Asked
    BY <1>1
  <2>2. t[j] = IF j >= i THEN s[j + 1] ELSE [s[j] EXCEPT !.late = TRUE]
    BY <1>1 DEF Ended
  <2> QED BY <2>1, <2>2, AskKept
<1>3. t \in Seq(Asked) /\ Len(t) = Len(s) - 1
  BY <1>1, <1>2 DEF Ended
<1> QED BY <1>2, <1>3

-----------------------------------------------------------------------------
(***************************************************************************)
(* Types.                                                                  *)
(***************************************************************************)

\* How many saves are on their way when one is sent, ends or is answered.
LEMMA SavesCounted ==
    ASSUME IsFiniteSet(saves)
    PROVE  /\ Cardinality(saves) \in Nat
           /\ \A w : IsFiniteSet(saves \cup {w}) /\ Cardinality(saves \cup {w}) \in Nat
                     /\ Cardinality(saves \cup {w}) <= Cardinality(saves) + 1
           /\ \A w \in saves : /\ IsFiniteSet(saves \ {w})
                               /\ Cardinality(saves \ {w}) \in Nat
                               /\ Cardinality(saves \ {w}) = Cardinality(saves) - 1
           /\ \A w \in saves : \A v :
                  /\ IsFiniteSet((saves \ {w}) \cup {v})
                  /\ Cardinality((saves \ {w}) \cup {v}) \in Nat
                  /\ Cardinality((saves \ {w}) \cup {v}) <= Cardinality(saves)
PROOF
<1>1. Cardinality(saves) \in Nat
  BY FS_CardinalityType
<1>2. ASSUME NEW T, IsFiniteSet(T), NEW w
      PROVE  IsFiniteSet(T \cup {w}) /\ Cardinality(T \cup {w}) \in Nat
             /\ Cardinality(T \cup {w}) <= Cardinality(T) + 1
  <2>1. Cardinality(T) \in Nat
    BY <1>2, FS_CardinalityType
  <2>2. IsFiniteSet(T \cup {w})
        /\ Cardinality(T \cup {w}) = IF w \in T THEN Cardinality(T) ELSE Cardinality(T) + 1
    BY <1>2, FS_AddElement
  <2> QED BY <2>1, <2>2
<1>3. ASSUME NEW w \in saves
      PROVE  IsFiniteSet(saves \ {w}) /\ Cardinality(saves \ {w}) \in Nat
             /\ Cardinality(saves \ {w}) = Cardinality(saves) - 1
  <2>1. IsFiniteSet(saves \ {w})
        /\ Cardinality(saves \ {w}) = IF w \in saves THEN Cardinality(saves) - 1
                                      ELSE Cardinality(saves)
    BY FS_RemoveElement
  <2>2. Cardinality(saves \ {w}) \in Nat
    BY <2>1, FS_CardinalityType
  <2> QED BY <2>1, <2>2
<1>4. ASSUME NEW w \in saves, NEW v
      PROVE  IsFiniteSet((saves \ {w}) \cup {v}) /\ Cardinality((saves \ {w}) \cup {v}) \in Nat
             /\ Cardinality((saves \ {w}) \cup {v}) <= Cardinality(saves)
  <2> DEFINE T == saves \ {w}
  <2>1. IsFiniteSet(T) /\ Cardinality(T) \in Nat /\ Cardinality(T) = Cardinality(saves) - 1
    BY <1>3
  <2> HIDE DEF T
  <2>2. IsFiniteSet(T \cup {v}) /\ Cardinality(T \cup {v}) \in Nat
        /\ Cardinality(T \cup {v}) <= Cardinality(T) + 1
    BY <1>2, <2>1
  <2>3. IsFiniteSet(T \cup {v}) /\ Cardinality(T \cup {v}) \in Nat
        /\ Cardinality(T \cup {v}) <= Cardinality(saves)
    BY <1>1, <2>1, <2>2
  <2> QED BY <2>3 DEF T
<1>5. \A w : IsFiniteSet(saves \cup {w}) /\ Cardinality(saves \cup {w}) \in Nat
             /\ Cardinality(saves \cup {w}) <= Cardinality(saves) + 1
  BY <1>2
<1> QED BY <1>1, <1>3, <1>4, <1>5

LEMMA TypeInit ==
    ASSUME Init
    PROVE  TypeOK
PROOF
<1>0. /\ page \in Pages /\ key \in {First, NoKey} /\ saves = {} /\ shown = Blank /\ count = 0
      /\ job = NoJob /\ failed = FALSE /\ missed = FALSE /\ left = FALSE
      /\ due = (L.waits /\ ~L.unset)
      /\ loading = (L.spins \in {"first", "asking", "selecting"})
      /\ asks = <<>> \/ asks = <<Ask(First, FALSE)>>
  BY DEF Init
<1>1. page \in Pages /\ key \in Keys \cup {NoKey} /\ saves = {} /\ Blank \in Shown
  BY <1>0, PagesAssumption DEF Blank, Shown
<1>2. L.waits \in BOOLEAN /\ L.unset \in BOOLEAN
  BY <1>1, PageSound DEF Sound, LoadSound
<1>3. asks \in Seq(Asked) /\ Len(asks) \in {0, 1}
  <2>1. CASE asks = <<>>
    BY <2>1
  <2>2. CASE asks = <<Ask(First, FALSE)>>
    <3>1. First \in Keys /\ Open \in Answer
      BY PagesAssumption, AnswerKinds
    <3>2. Ask(First, FALSE) \in Asked
      BY <3>1 DEF Ask, Asked
    <3>3. \A a \in Asked : <<a>> \in Seq(Asked) /\ Len(<<a>>) = 1
      OBVIOUS
    <3> QED BY <2>2, <3>2, <3>3
  <2> QED BY <1>0, <2>1, <2>2
<1>4. IsFiniteSet(saves) /\ Cardinality(saves) = 0
  BY <1>0, FS_EmptySet
<1>5. Len(asks) + Cardinality(saves) <= MaxOnWay
  <2>1. 1 <= MaxOnWay /\ MaxOnWay \in Nat
    BY PagesAssumption
  <2>2. Len(asks) + Cardinality(saves) \in {0, 1}
    <3>1. CASE Len(asks) = 0
      BY <1>4, <3>1
    <3>2. CASE Len(asks) = 1
      BY <1>4, <3>2
    <3> QED BY <1>3, <3>1, <3>2
  <2> QED BY <2>1, <2>2
<1>6. 0 \in Changes /\ 0 \in 0..(MaxMisses - 1)
  BY PagesAssumption DEF Changes
<1>7. server \in [Keys -> SUBSET Changes] /\ own \in [Keys -> SUBSET Changes]
  BY <1>6 DEF Init
<1>8. job \in [at : Stages, seen : Stages, misses : 0..(MaxMisses - 1)]
  BY <1>0, <1>6 DEF NoJob, Stages
<1>9. loading \in BOOLEAN /\ due \in BOOLEAN
  BY <1>0, <1>2
<1> QED BY <1>0, <1>1, <1>2, <1>3, <1>4, <1>5, <1>6, <1>7, <1>8, <1>9 DEF TypeOK

\* A load that is sent, and what it makes of the screen.
LEMMA AsksTyped ==
    ASSUME TypeOK, NEW k \in Keys, Asks(k)
    PROVE  /\ asks' \in Seq(Asked) /\ Len(asks') = Len(asks) + 1
           /\ shown' \in Shown /\ {loading', failed'} \subseteq BOOLEAN
PROOF
<1>1. asks \in Seq(Asked) /\ shown \in Shown /\ failed \in BOOLEAN /\ loading \in BOOLEAN
      /\ Blank \in Shown
  BY DEF TypeOK, Blank, Shown
<1>2. asks' = Append(asks, Ask(k, FALSE)) /\ shown' \in {Blank, shown}
      /\ {loading', failed'} \subseteq BOOLEAN
  BY <1>1 DEF Asks
<1> QED BY <1>1, <1>2, Sending

\* What an answer makes of the screen, and what it brings.
LEMMA Shows ==
    ASSUME NEW a \in Asked, shown \in Shown, NEW sh, sh = Showing(a), a.reply # Open
    PROVE  /\ sh \in Shown
           /\ a.reply = Lost => sh = shown \/ ("empties" \in L.fails /\ sh = Blank)
           /\ a.reply # Lost => /\ a.reply.is = "content"
                                /\ a.key \in sh.of /\ a.reply.has \subseteq sh.has
                                /\ a.late => sh.old
                                /\ ~a.more => sh.of = {a.key}
PROOF
<1>1. /\ a.key \in Keys /\ a.more \in BOOLEAN /\ a.late \in BOOLEAN
      /\ a.reply.has \subseteq Changes
      /\ a.reply # Lost => a.reply.is = "content"
  BY AskKept, AnswerKinds
<1>2. shown.of \subseteq Keys /\ shown.has \subseteq Changes /\ shown.old \in BOOLEAN
      /\ Blank \in Shown
  BY DEF Shown, Blank
<1>3. CASE a.reply = Lost
  BY <1>2, <1>3 DEF Showing
<1>4. CASE a.reply # Lost
  <2> DEFINE of == {a.key} \cup IF a.more THEN shown.of ELSE {}
             has == a.reply.has \cup IF a.more THEN shown.has ELSE {}
             old == a.late \/ (a.more /\ shown.old)
  <2>1. sh = [of |-> of, has |-> has, old |-> old]
    BY <1>4 DEF Showing
  <2>2. of \subseteq Keys /\ has \subseteq Changes /\ old \in BOOLEAN
    BY <1>1, <1>2
  <2>3. a.key \in of /\ a.reply.has \subseteq has /\ (a.late => old)
        /\ (~a.more => of = {a.key})
    OBVIOUS
  <2> HIDE DEF of, has, old
  <2>4. sh \in Shown /\ sh.of = of /\ sh.has = has /\ sh.old = old
    BY <2>1, <2>2 DEF Shown
  <2> QED BY <1>1, <1>4, <2>3, <2>4
<1> QED BY <1>3, <1>4

\* A save when it is answered.
LEMMA SaveKept ==
    ASSUME NEW w \in Saving
    PROVE  /\ w.what \in DOMAIN SaveOf /\ w.change \in Changes /\ w.to \in Keys /\ w.at \in Keys
           /\ w.body \subseteq Changes /\ w.was \in Shown
           /\ \A r \in {"open", "done", "lost"} :
                  LET v == [w EXCEPT !.reply = r]
                  IN  v \in Saving /\ v.what = w.what /\ v.change = w.change /\ v.to = w.to
                      /\ v.at = w.at /\ v.body = w.body /\ v.was = w.was /\ v.reply = r
BY DEF Saving

\* What the backend has when it has applied a save.
LEMMA AppliedTyped ==
    ASSUME server \in [Keys -> SUBSET Changes], NEW w \in Saving
    PROVE  Applied(w) \in [Keys -> SUBSET Changes]
BY SaveKept DEF Applied

LEMMA TypeStep ==
    ASSUME TypeOK, [Next]_vars
    PROVE  TypeOK'
PROOF
<1>0. /\ page \in Pages /\ key \in Keys \cup {NoKey} /\ shown \in Shown
      /\ {loading, failed, missed, due, left} \subseteq BOOLEAN
      /\ asks \in Seq(Asked) /\ saves \subseteq Saving
      /\ IsFiniteSet(saves) /\ Len(asks) + Cardinality(saves) <= MaxOnWay
      /\ server \in [Keys -> SUBSET Changes] /\ own \in [Keys -> SUBSET Changes]
      /\ count \in Changes
      /\ job \in [at : Stages, seen : Stages, misses : 0..(MaxMisses - 1)]
      /\ Blank \in Shown /\ MaxOnWay \in Nat /\ Len(asks) \in Nat
  BY PagesAssumption DEF TypeOK, Blank, Shown
<1>1. page' = page /\ L' = L /\ Stages' = Stages
  BY SamePage DEF Stages
<1>2. ASSUME NEW k \in Keys, Select(k) PROVE TypeOK'
  <2> DEFINE kept == IF L.drops THEN <<>> ELSE asks
  <2>1. kept \in Seq(Asked) /\ Len(kept) <= Len(asks) /\ Len(kept) \in Nat
    BY <1>0
  <2>2. /\ key' = k
        /\ \/ /\ asks' = kept /\ due' = TRUE
              /\ {loading', failed'} \subseteq BOOLEAN /\ shown' = shown
           \/ /\ Room(kept) /\ asks' = Append(kept, Ask(k, FALSE)) /\ due' = due
              /\ {loading', failed'} \subseteq BOOLEAN /\ shown' \in {Blank, shown}
        /\ UNCHANGED <<missed, saves, server, own, count, job, left>>
    BY <1>0, <1>2 DEF Select
  <2> HIDE DEF kept
  <2>3. asks' \in Seq(Asked) /\ Len(asks') + Cardinality(saves) <= MaxOnWay
    <3>1. CASE asks' = kept
      BY <1>0, <2>1, <3>1, SavesCounted
    <3>2. CASE Room(kept) /\ asks' = Append(kept, Ask(k, FALSE))
      <4>1. asks' \in Seq(Asked) /\ Len(asks') = Len(kept) + 1
        BY <1>0, <2>1, <3>2, Sending
      <4>2. Len(kept) + Cardinality(saves) < MaxOnWay /\ Cardinality(saves) \in Nat
        BY <1>0, <3>2, SavesCounted DEF Room
      <4> QED BY <1>0, <2>1, <4>1, <4>2
    <3> QED BY <2>2, <3>1, <3>2
  <2> QED BY <1>0, <1>1, <2>2, <2>3 DEF TypeOK
<1>3. ASSUME Timer \/ Again PROVE TypeOK'
  <2>0. key \in Keys
    BY <1>0, <1>3 DEF Timer, Again, Usable
  <2>1. Room(asks) /\ Asks(key) /\ due' \in {due, FALSE}
        /\ UNCHANGED <<key, missed, saves, server, own, count, job, left>>
    BY <1>3 DEF Timer, Again
  <2>2. asks' \in Seq(Asked) /\ Len(asks') = Len(asks) + 1 /\ shown' \in Shown
        /\ {loading', failed'} \subseteq BOOLEAN
    BY <1>0, <2>0, <2>1, AsksTyped
  <2>3. Len(asks') + Cardinality(saves) <= MaxOnWay
    BY <1>0, <2>1, <2>2, SavesCounted DEF Room
  <2> QED BY <1>0, <1>1, <2>1, <2>2, <2>3 DEF TypeOK
<1>4. ASSUME More PROVE TypeOK'
  <2>0. key \in Keys
    BY <1>0, <1>4 DEF More, Usable
  <2>1. Room(asks) /\ asks' = Append(asks, Ask(key, TRUE))
        /\ UNCHANGED <<key, shown, loading, failed, missed, due, saves, server, own, count,
                       job, left>>
    BY <1>4 DEF More
  <2>2. asks' \in Seq(Asked) /\ Len(asks') = Len(asks) + 1
    BY <1>0, <2>0, <2>1, Sending
  <2>3. Len(asks') + Cardinality(saves) <= MaxOnWay
    BY <1>0, <2>1, <2>2, SavesCounted DEF Room
  <2> QED BY <1>0, <1>1, <2>1, <2>2, <2>3 DEF TypeOK
<1>5. ASSUME Serve \/ Lose PROVE TypeOK'
  <2>1. PICK i \in 1..Len(asks), r \in Answer : Reply(i, r)
    <3>1. ASSUME NEW i \in 1..Len(asks) PROVE Content(server[asks[i].key]) \in Answer
      <4>1. asks[i] \in Asked
        BY <1>0
      <4>2. server[asks[i].key] \in SUBSET Changes
        BY <1>0, <4>1, AskKept
      <4> QED BY <4>2, AnswerKinds
    <3> QED BY <1>5, <3>1, AnswerKinds DEF Serve, Lose
  <2>2. asks' = Replied(asks, i, r)
        /\ UNCHANGED <<key, shown, loading, failed, missed, due, saves, server, own, count,
                       job, left>>
    BY <2>1 DEF Reply, Replied
  <2>3. asks' \in Seq(Asked) /\ Len(asks') = Len(asks)
    BY <1>0, <2>2, Replying
  <2> QED BY <1>0, <1>1, <2>2, <2>3 DEF TypeOK
<1>6. ASSUME Arrive PROVE TypeOK'
  <2>1. PICK i \in 1..Len(asks) :
            /\ asks[i].reply # Open /\ shown' = Showing(asks[i])
            /\ asks' = Ended(asks, i)
            /\ loading' = (loading /\ asks[i].more)
            /\ failed' = (failed \/ (asks[i].reply = Lost /\ "panel" \in L.fails))
            /\ missed' = IF asks[i].late THEN missed ELSE asks[i].reply = Lost
            /\ UNCHANGED <<key, due, saves, server, own, count, job, left>>
    BY <1>6 DEF Arrive, Ended
  <2>2. asks' \in Seq(Asked) /\ Len(asks') = Len(asks) - 1
    BY <1>0, <2>1, Ending
  <2>3. asks[i] \in Asked
    BY <1>0
  <2>4. shown' \in Shown
    BY <1>0, <2>1, <2>3, Shows
  <2>5. {loading', failed', missed'} \subseteq BOOLEAN
    BY <1>0, <2>1
  <2>6. Len(asks') + Cardinality(saves) <= MaxOnWay
    BY <1>0, <2>2, SavesCounted
  <2> QED BY <1>0, <1>1, <2>1, <2>2, <2>4, <2>5, <2>6 DEF TypeOK
<1>7. ASSUME NEW n \in DOMAIN SaveOf, Press(n) PROVE TypeOK'
  <2> DEFINE s == SaveOf[n]
             grown == [shown EXCEPT !.has = @ \cup {count'}]
  <2>1. /\ Room(asks) /\ count < (IF L.keyed THEN MaxKeyed ELSE MaxChanges)
        /\ count' = count + 1
        /\ shown' = IF s.ahead THEN grown ELSE shown
        /\ UNCHANGED <<key, loading, failed, missed, due, asks, server, own, job, left>>
    BY <1>7 DEF Press
  <2>2. count' \in Changes
    BY <1>0, <2>1, PagesAssumption DEF Changes
  <2>3. grown \in Shown /\ grown.of = shown.of
    BY <1>0, <2>2 DEF Shown
  <2>4. shown' \in Shown /\ shown'.of = shown.of
    BY <1>0, <2>1, <2>3
  <2>5. PICK k \in IF s.aims = "item" /\ s.shows THEN shown.of ELSE {key} :
            saves' = saves \cup
                {[what |-> n, change |-> count', to |-> k, at |-> key,
                  body |-> IF s.whole THEN shown'.has ELSE {},
                  was |-> IF s.undo THEN shown ELSE Blank, reply |-> "open"]}
    BY <1>7 DEF Press
  <2>6. k \in Keys /\ key \in Keys /\ shown'.has \subseteq Changes
    <3>1. key \in Keys
      BY <1>0, <1>7 DEF Press, Offered, Usable
    <3> QED BY <1>0, <2>4, <3>1 DEF Shown
  <2> DEFINE w == [what |-> n, change |-> count', to |-> k, at |-> key,
                   body |-> IF s.whole THEN shown'.has ELSE {},
                   was |-> IF s.undo THEN shown ELSE Blank, reply |-> "open"]
  <2>7. w \in Saving
    BY <1>0, <2>2, <2>6 DEF Saving
  <2>8. saves' = saves \cup {w}
    BY <2>5
  <2> HIDE DEF w
  <2>9. saves' \subseteq Saving /\ IsFiniteSet(saves')
        /\ Cardinality(saves') <= Cardinality(saves) + 1 /\ Cardinality(saves') \in Nat
    BY <1>0, <2>7, <2>8, SavesCounted
  <2>10. Len(asks) + Cardinality(saves') <= MaxOnWay
    BY <1>0, <2>1, <2>9, SavesCounted DEF Room
  <2> QED BY <1>0, <1>1, <2>1, <2>2, <2>4, <2>9, <2>10 DEF TypeOK
<1>8. ASSUME ServeSave \/ RefuseSave \/ LoseSave PROVE TypeOK'
  <2>1. PICK w \in saves, r \in {"done", "lost"} :
            /\ Answers(w, r) /\ server' \in {server, Applied(w)}
            /\ job' \in {job, [job EXCEPT !.at = "running"]}
    BY <1>8 DEF ServeSave, RefuseSave, LoseSave
  <2>2. w \in Saving /\ "running" \in Stages
    BY <1>0 DEF Stages
  <2>3. server' \in [Keys -> SUBSET Changes]
    BY <1>0, <2>1, <2>2, AppliedTyped
  <2>4. job' \in [at : Stages, seen : Stages, misses : 0..(MaxMisses - 1)]
    BY <1>0, <2>1, <2>2
  <2> DEFINE v == [w EXCEPT !.reply = r]
  <2>5. v \in Saving
    BY <2>2, SaveKept
  <2>6. saves' = (saves \ {w}) \cup {v}
        /\ UNCHANGED <<key, shown, loading, failed, missed, due, asks, own, count, left>>
    BY <2>1 DEF Answers
  <2> HIDE DEF v
  <2>7. saves' \subseteq Saving /\ IsFiniteSet(saves')
        /\ Cardinality(saves') <= Cardinality(saves) /\ Cardinality(saves') \in Nat
    BY <1>0, <2>5, <2>6, SavesCounted
  <2>8. Len(asks) + Cardinality(saves') <= MaxOnWay
    BY <1>0, <2>7, SavesCounted
  <2> QED BY <1>0, <1>1, <2>3, <2>4, <2>6, <2>7, <2>8 DEF TypeOK
<1>9. ASSUME Saved PROVE TypeOK'
  <2>1. PICK w \in saves :
            LET s == SaveOf[w.what] IN
            /\ saves' = IF s.after = "leave" THEN {} ELSE saves \ {w}
            /\ own' = IF s.shows THEN [own EXCEPT ![w.to] = @ \cup {w.change}] ELSE own
            /\ job' = IF s.starts THEN [job EXCEPT !.seen = "running", !.misses = 0] ELSE job
            /\ \/ s.after = "reload" /\ Asks(w.at) /\ UNCHANGED <<due, left>>
               \/ /\ shown' = IF w.to \in shown.of
                              THEN [shown EXCEPT !.has = @ \cup {w.change}] ELSE shown
                  /\ UNCHANGED <<loading, failed, asks, due, left>>
               \/ /\ s.after = "leave" /\ asks' = <<>>
                  /\ left' = TRUE /\ loading' = FALSE /\ due' = FALSE
                  /\ UNCHANGED <<shown, failed>>
               \/ due' \in {TRUE, due} /\ UNCHANGED <<shown, loading, failed, asks, left>>
            /\ UNCHANGED <<key, missed, server, count>>
    BY <1>9 DEF Saved
  <2>2. w \in Saving
    BY <1>0
  <2>3. w.at \in Keys /\ w.to \in Keys /\ w.change \in Changes
    BY <2>2, SaveKept
  <2>4. own' \in [Keys -> SUBSET Changes]
    BY <1>0, <2>1, <2>3
  <2>5. job' \in [at : Stages, seen : Stages, misses : 0..(MaxMisses - 1)]
    <3>1. "running" \in Stages /\ 0 \in 0..(MaxMisses - 1)
      BY PagesAssumption DEF Stages
    <3> QED BY <1>0, <2>1, <3>1
  <2>6. /\ Cardinality(saves) \in Nat /\ IsFiniteSet(saves')
        /\ saves' \subseteq Saving /\ Cardinality(saves') \in Nat
        /\ SaveOf[w.what].after # "leave" => Cardinality(saves') = Cardinality(saves) - 1
        /\ SaveOf[w.what].after = "leave" => Cardinality(saves') = 0
    <3>1. CASE SaveOf[w.what].after = "leave"
      <4>1. saves' = {}
        BY <2>1, <3>1
      <4>2. IsFiniteSet(saves') /\ Cardinality(saves') = 0
        BY <4>1, FS_EmptySet, Zenon
      <4> QED BY <1>0, <3>1, <4>1, <4>2, SavesCounted
    <3>2. CASE SaveOf[w.what].after # "leave"
      <4>1. saves' = saves \ {w}
        BY <2>1, <3>2
      <4>2. Cardinality(saves') = Cardinality(saves \ {w}) /\ IsFiniteSet(saves')
        BY <1>0, <4>1, SavesCounted, Zenon
      <4> QED BY <1>0, <3>2, <4>1, <4>2, SavesCounted
    <3> QED BY <3>1, <3>2
  <2>7. CASE SaveOf[w.what].after = "reload" /\ Asks(w.at) /\ UNCHANGED <<due, left>>
    <3>1. asks' \in Seq(Asked) /\ Len(asks') = Len(asks) + 1 /\ shown' \in Shown
          /\ {loading', failed'} \subseteq BOOLEAN
      BY <2>3, <2>7, AsksTyped
    <3>2. Len(asks') + Cardinality(saves') <= MaxOnWay
      BY <1>0, <2>6, <2>7, <3>1
    <3> QED BY <1>0, <1>1, <2>1, <2>4, <2>5, <2>6, <2>7, <3>1, <3>2 DEF TypeOK
  <2>8. CASE /\ shown' = IF w.to \in shown.of
                         THEN [shown EXCEPT !.has = @ \cup {w.change}] ELSE shown
             /\ UNCHANGED <<loading, failed, asks, due, left>>
    <3>1. shown' \in Shown
      BY <1>0, <2>3, <2>8 DEF Shown
    <3>2. Len(asks') + Cardinality(saves') <= MaxOnWay
      BY <1>0, <2>6, <2>8
    <3> QED BY <1>0, <1>1, <2>1, <2>4, <2>5, <2>6, <2>8, <3>1, <3>2 DEF TypeOK
  <2>9. CASE /\ SaveOf[w.what].after = "leave" /\ asks' = <<>>
             /\ left' = TRUE /\ loading' = FALSE /\ due' = FALSE
             /\ UNCHANGED <<shown, failed>>
    <3>1. asks' \in Seq(Asked) /\ Len(asks') = 0
      BY <2>9
    <3>2. Len(asks') + Cardinality(saves') <= MaxOnWay
      BY <1>0, <2>6, <2>9, <3>1
    <3> QED BY <1>0, <1>1, <2>1, <2>4, <2>5, <2>6, <2>9, <3>1, <3>2 DEF TypeOK
  <2>10. CASE due' \in {TRUE, due} /\ UNCHANGED <<shown, loading, failed, asks, left>>
    <3>1. Len(asks') + Cardinality(saves') <= MaxOnWay
      BY <1>0, <2>6, <2>10
    <3> QED BY <1>0, <1>1, <2>1, <2>4, <2>5, <2>6, <2>10, <3>1 DEF TypeOK
  <2> QED BY <2>1, <2>7, <2>8, <2>9, <2>10
<1>10. ASSUME NotSaved PROVE TypeOK'
  <2>1. PICK w \in saves : /\ saves' = saves \ {w} /\ shown' \in {w.was, shown}
                           /\ UNCHANGED <<key, loading, failed, missed, due, asks, server,
                                          own, count, job, left>>
    BY <1>10 DEF NotSaved
  <2>2. shown' \in Shown
    <3>1. w \in Saving
      BY <1>0
    <3> QED BY <1>0, <2>1, <3>1, SaveKept
  <2>3. Cardinality(saves') = Cardinality(saves \ {w}) /\ IsFiniteSet(saves')
    BY <1>0, <2>1, SavesCounted, Zenon
  <2>4. Len(asks) + Cardinality(saves') <= MaxOnWay
    BY <1>0, <2>1, <2>3, SavesCounted
  <2> QED BY <1>0, <1>1, <2>1, <2>2, <2>3, <2>4 DEF TypeOK
<1>11. ASSUME JobEnds \/ Poll \/ PollFails PROVE TypeOK'
  <2>1. UNCHANGED <<key, shown, loading, failed, missed, due, asks, saves, server, own, count,
                    left>>
    BY <1>11 DEF JobEnds, Poll, PollFails
  <2>2. Watch.results \subseteq Stages
    BY DEF Stages
  <2>3. Watch.gives => "failed" \in Stages
    BY <1>0, PageSound DEF Sound, WatchSound, Stages
  <2>4. 0 \in 0..(MaxMisses - 1)
        /\ \A m \in 0..(MaxMisses - 1) : m + 1 # MaxMisses => m + 1 \in 0..(MaxMisses - 1)
    BY PagesAssumption
  <2>5. job' \in [at : Stages, seen : Stages, misses : 0..(MaxMisses - 1)]
    <3>1. CASE JobEnds
      BY <1>0, <2>2, <3>1 DEF JobEnds
    <3>2. CASE Poll
      BY <1>0, <2>4, <3>2 DEF Poll
    <3>3. CASE PollFails
      BY <1>0, <2>3, <2>4, <3>3 DEF PollFails
    <3> QED BY <1>11, <3>1, <3>2, <3>3
  <2> QED BY <1>0, <1>1, <2>1, <2>5 DEF TypeOK
<1>12. CASE UNCHANGED vars
  BY <1>0, <1>1, <1>12 DEF vars, TypeOK
<1>13. CASE ListFails
  BY <1>0, <1>1, <1>13 DEF ListFails, TypeOK
<1> QED BY <1>2, <1>3, <1>4, <1>5, <1>6, <1>7, <1>8, <1>9, <1>10, <1>11, <1>12, <1>13 DEF Next

-----------------------------------------------------------------------------
(***************************************************************************)
(* The steps, as the invariants see them.                                  *)
(***************************************************************************)

\* The backend answers load i, with what it has if it has an answer.
Replies(i, r) ==
    /\ asks[i].reply = Open /\ asks' = Replied(asks, i, r)
    /\ r.is = "content" => r.has = server[asks[i].key]
    /\ UNCHANGED <<key, shown, loading, failed, missed, due, saves, server, own, count, job,
                   left>>

\* Load i ends.
Ends(i) ==
    /\ asks[i].reply # Open /\ asks' = Ended(asks, i) /\ shown' = Showing(asks[i])
    /\ loading' = (loading /\ asks[i].more)
    /\ failed' = (failed \/ (asks[i].reply = Lost /\ "panel" \in L.fails))
    /\ missed' = IF asks[i].late THEN missed ELSE asks[i].reply = Lost
    /\ UNCHANGED <<key, due, saves, server, own, count, job, left>>

\* A save is sent,
Sends(w) ==
    LET s == SaveOf[w.what] IN
    /\ w.what \in Offered /\ w.reply = "open" /\ w.at = key
    /\ w.to \in shown.of \cup {key}
    /\ w.was \in {shown, Blank}
    /\ s.busy => \A v \in saves : v.what # w.what
    /\ saves' = saves \cup {w}
    /\ shown'.of = shown.of /\ shown'.old = shown.old /\ shown.has \subseteq shown'.has
    /\ s.ahead => w.change \in shown'.has
    /\ s.whole => w.body = shown'.has
    /\ UNCHANGED <<key, loading, failed, missed, due, asks, server, own, job, left>>

\* answered,
Served(w, r) ==
    /\ w.reply = "open" /\ saves' = (saves \ {w}) \cup {[w EXCEPT !.reply = r]}
    /\ server' = Applied(w) \/ (r = "lost" /\ server' = server)
    /\ UNCHANGED <<key, shown, loading, failed, missed, due, asks, own, count, left>>

\* and acknowledged, with one of five effects;
Reloads(w) == SaveOf[w.what].after = "reload" /\ Asks(w.at) /\ UNCHANGED <<due, left>>
Patches(w) ==
    /\ SaveOf[w.what].after = "patch"
    /\ shown' = IF w.to \in shown.of THEN [shown EXCEPT !.has = @ \cup {w.change}] ELSE shown
    /\ UNCHANGED <<loading, failed, asks, due, left>>
Leaves(w) ==
    /\ SaveOf[w.what].after = "leave" /\ left' /\ asks' = <<>> /\ ~loading' /\ ~due'
    /\ UNCHANGED <<shown, failed>>
Postpones(w) ==
    SaveOf[w.what].after = "later" /\ due' /\ UNCHANGED <<shown, loading, failed, asks, left>>
Rests(w) ==
    SaveOf[w.what].after = "nothing" /\ UNCHANGED <<shown, loading, failed, asks, due, left>>
Knows(w) ==
    /\ w.reply = "done" /\ ~left
    /\ saves' = IF SaveOf[w.what].after = "leave" THEN {} ELSE saves \ {w}
    /\ own' = IF SaveOf[w.what].shows THEN [own EXCEPT ![w.to] = @ \cup {w.change}] ELSE own
    /\ Reloads(w) \/ Patches(w) \/ Leaves(w) \/ Postpones(w) \/ Rests(w)
    /\ UNCHANGED <<key, missed, server, count>>

\* or it fails.
Fails(w) ==
    /\ saves' = saves \ {w}
    /\ shown' = IF SaveOf[w.what].undo THEN w.was ELSE shown
    /\ UNCHANGED <<key, loading, failed, missed, due, asks, server, own, count, job, left>>

\* Nothing but the job changes, or an error appears.
Quiet ==
    /\ failed => failed'
    /\ UNCHANGED <<key, shown, loading, missed, due, asks, saves, server, own, count, left>>

LEMMA Steps ==
    ASSUME TypeOK, [Next]_vars
    PROVE  \/ \E k \in Keys : Select(k)
           \/ Timer \/ Again \/ More
           \/ \E i \in Sent : \E r \in Answer : Replies(i, r)
           \/ \E i \in Sent : Ends(i)
           \/ \E w \in Saving : Sends(w)
           \/ \E w \in saves : \E r \in {"done", "lost"} : Served(w, r)
           \/ \E w \in saves : Knows(w)
           \/ \E w \in saves : Fails(w)
           \/ Quiet
PROOF
<1>0. /\ key \in Keys \cup {NoKey} /\ shown \in Shown /\ asks \in Seq(Asked)
      /\ saves \subseteq Saving
      /\ server \in [Keys -> SUBSET Changes] /\ count \in Changes /\ Blank \in Shown
  BY DEF TypeOK, Blank, Shown
<1>1. CASE Serve
  <2>1. PICK i \in Sent : Reply(i, Content(server[asks[i].key]))
    BY <1>1 DEF Serve, Sent
  <2>2. asks[i] \in Asked
    BY <1>0 DEF Sent
  <2>3. server[asks[i].key] \in SUBSET Changes
    BY <1>0, <2>2, AskKept
  <2> DEFINE r == Content(server[asks[i].key])
  <2>4. r \in Answer /\ r.has = server[asks[i].key]
    BY <2>3, AnswerKinds
  <2>5. Reply(i, r)
    BY <2>1
  <2> HIDE DEF r
  <2>6. Replies(i, r)
    BY <2>4, <2>5 DEF Reply, Replied, Replies
  <2> QED BY <2>4, <2>6
<1>2. CASE Lose
  <2>1. PICK i \in Sent : Reply(i, Lost)
    BY <1>2 DEF Lose, Sent
  <2>2. Lost \in Answer /\ Lost.is # "content"
    BY AnswerKinds
  <2>3. Replies(i, Lost)
    BY <2>1, <2>2 DEF Reply, Replied, Replies
  <2> QED BY <2>2, <2>3
<1>3. CASE Arrive
  BY <1>3 DEF Arrive, Ends, Ended, Sent
<1>4. ASSUME NEW n \in DOMAIN SaveOf, Press(n)
      PROVE  \E w \in Saving : Sends(w)
  <2> DEFINE s == SaveOf[n]
             grown == [shown EXCEPT !.has = @ \cup {count'}]
  <2>1. /\ n \in Offered /\ (s.busy => \A v \in saves : v.what # n)
        /\ count < (IF L.keyed THEN MaxKeyed ELSE MaxChanges) /\ count' = count + 1
        /\ shown' = IF s.ahead THEN grown ELSE shown
        /\ UNCHANGED <<key, loading, failed, missed, due, asks, server, own, job, left>>
    BY <1>4 DEF Press
  <2>2. count' \in Changes
    BY <1>0, <2>1, PagesAssumption DEF Changes
  <2>3. grown \in Shown /\ grown.of = shown.of /\ grown.old = shown.old
        /\ grown.has = shown.has \cup {count'}
    BY <1>0, <2>2 DEF Shown
  <2>4. /\ shown' \in Shown /\ shown'.of = shown.of /\ shown'.old = shown.old
        /\ shown.has \subseteq shown'.has
        /\ s.ahead => count' \in shown'.has
    BY <1>0, <2>1, <2>3
  <2>5. PICK k \in IF s.aims = "item" /\ s.shows THEN shown.of ELSE {key} :
            saves' = saves \cup
                {[what |-> n, change |-> count', to |-> k, at |-> key,
                  body |-> IF s.whole THEN shown'.has ELSE {},
                  was |-> IF s.undo THEN shown ELSE Blank, reply |-> "open"]}
    BY <1>4 DEF Press
  <2>6. /\ k \in Keys /\ key \in Keys /\ k \in shown.of \cup {key}
        /\ shown'.has \subseteq Changes
    <3>1. key \in Keys
      BY <1>0, <2>1 DEF Offered, Usable
    <3> QED BY <1>0, <2>4, <3>1 DEF Shown
  <2> DEFINE w == [what |-> n, change |-> count', to |-> k, at |-> key,
                   body |-> IF s.whole THEN shown'.has ELSE {},
                   was |-> IF s.undo THEN shown ELSE Blank, reply |-> "open"]
  <2>7. w \in Saving
    BY <1>0, <2>2, <2>6 DEF Saving
  <2>8. /\ w.what = n /\ w.change = count' /\ w.to = k /\ w.at = key /\ w.reply = "open"
        /\ w.was \in {shown, Blank}
        /\ s.whole => w.body = shown'.has
    OBVIOUS
  <2>9. saves' = saves \cup {w}
    BY <2>5
  <2> HIDE DEF w
  <2>10. Sends(w)
    BY <2>1, <2>4, <2>6, <2>8, <2>9 DEF Sends
  <2> QED BY <2>7, <2>10
<1>5. CASE ServeSave \/ RefuseSave \/ LoseSave
  BY <1>5 DEF ServeSave, RefuseSave, LoseSave, Answers, Served
<1>6. CASE Saved
  BY <1>6 DEF Saved, Knows, Reloads, Patches, Leaves, Postpones, Rests
<1>7. CASE NotSaved
  BY <1>7 DEF NotSaved, Fails
<1>8. CASE ListFails \/ JobEnds \/ Poll \/ PollFails \/ UNCHANGED vars
  BY <1>8 DEF ListFails, JobEnds, Poll, PollFails, vars, Quiet
<1> QED BY <1>1, <1>2, <1>3, <1>4, <1>5, <1>6, <1>7, <1>8 DEF Next

\* The loads on their way after a step: the old ones, none, a new one behind
\* them or alone, one answered, or one ended.
LEMMA AsksMove ==
    ASSUME TypeOK, [Next]_vars
    PROVE  \/ asks' = asks
           \/ asks' = <<>>
           \/ \E kept \in {asks, <<>>} : \E k \in Keys, more \in BOOLEAN :
                  asks' = Append(kept, Ask(k, more)) /\ (more => L.more)
           \/ \E i \in Sent : \E r \in Answer : asks' = Replied(asks, i, r)
           \/ \E i \in Sent : asks' = Ended(asks, i)
PROOF
<1>0. key \in Keys \cup {NoKey} /\ saves \subseteq Saving
  BY DEF TypeOK
<1>1. ASSUME NEW k \in Keys, Select(k)
      PROVE  \/ asks' = asks
             \/ asks' = <<>>
             \/ \E kept \in {asks, <<>>} : asks' = Append(kept, Ask(k, FALSE))
  BY <1>1 DEF Select
<1>2. CASE Timer \/ Again \/ More
  BY <1>0, <1>2 DEF Timer, Again, More, Asks, Usable
<1>3. ASSUME NEW w \in saves, Knows(w)
      PROVE  asks' = asks \/ asks' = <<>>
             \/ \E k \in Keys : asks' = Append(asks, Ask(k, FALSE))
  <2>1. w.at \in Keys
    BY <1>0, SaveKept
  <2> QED BY <1>3, <2>1 DEF Knows, Reloads, Patches, Leaves, Postpones, Rests, Asks
<1>4. ASSUME NEW i \in Sent, NEW r \in Answer, Replies(i, r) PROVE asks' = Replied(asks, i, r)
  BY <1>4 DEF Replies
<1>5. ASSUME NEW i \in Sent, Ends(i) PROVE asks' = Ended(asks, i)
  BY <1>5 DEF Ends
<1>6. CASE Quiet \/ (\E w \in Saving : Sends(w)) \/ (\E w \in saves : Fails(w))
           \/ (\E w \in saves : \E r \in {"done", "lost"} : Served(w, r))
  BY <1>6 DEF Quiet, Sends, Fails, Served
<1> QED BY <1>1, <1>2, <1>3, <1>4, <1>5, <1>6, Steps

\* A load that is answered stays in its place.
LEMMA RepliesMove ==
    ASSUME TypeOK, NEW i \in Sent, NEW r \in Answer, Replies(i, r)
    PROVE  /\ Sent' = Sent /\ Len(asks') = Len(asks)
           /\ \A j \in Sent : /\ asks'[j].key = asks[j].key /\ asks'[j].more = asks[j].more
                              /\ asks'[j].late = asks[j].late
                              /\ j # i => asks'[j] = asks[j]
           /\ asks'[i].reply = r
PROOF
<1>1. asks \in Seq(Asked) /\ i \in 1..Len(asks) /\ Sent = 1..Len(asks) /\ Sent' = 1..Len(asks')
      /\ asks' = Replied(asks, i, r)
  BY DEF TypeOK, Sent, Replies
<1>2. Len(asks') = Len(asks)
  BY <1>1, Replying
<1>3. asks'[i].reply = r
  BY <1>1, Replying
<1>4. \A j \in 1..Len(asks) : asks'[j].key = asks[j].key
  BY <1>1, Replying
<1>5. \A j \in 1..Len(asks) : asks'[j].more = asks[j].more
  BY <1>1, Replying
<1>6. \A j \in 1..Len(asks) : asks'[j].late = asks[j].late
  BY <1>1, Replying
<1>7. \A j \in 1..Len(asks) : j # i => asks'[j] = asks[j]
  BY <1>1, Replying
<1> QED BY <1>1, <1>2, <1>3, <1>4, <1>5, <1>6, <1>7

LEMMA InOrderStep ==
    ASSUME TypeOK, InOrder, [Next]_vars
    PROVE  InOrder'
PROOF
<1>0. asks \in Seq(Asked) /\ L' = L /\ Sent = 1..Len(asks) /\ Sent' = 1..Len(asks')
      /\ Len(asks) \in Nat
  BY SamePage DEF TypeOK, Sent
<1>1. /\ \A i, j \in Sent : i < j /\ asks[j].late => asks[i].late
      /\ L.more \/ \A i \in Sent : ~asks[i].more
  BY DEF InOrder
<1>2. CASE asks' = asks
  BY <1>0, <1>1, <1>2 DEF InOrder
<1>3. CASE asks' = <<>>
  BY <1>0, <1>3 DEF InOrder
<1>4. ASSUME NEW kept \in {asks, <<>>}, NEW k \in Keys, NEW more \in BOOLEAN,
             asks' = Append(kept, Ask(k, more)), more => L.more
      PROVE  InOrder'
  <2>1. /\ kept \in Seq(Asked) /\ Len(kept) \in Nat
        /\ \A i, j \in 1..Len(kept) : i < j /\ kept[j].late => kept[i].late
        /\ (L.more \/ \A i \in 1..Len(kept) : ~kept[i].more)
    <3>1. CASE kept = asks
      BY <1>0, <1>1, <3>1
    <3>2. CASE kept = <<>>
      BY <3>2
    <3> QED BY <3>1, <3>2
  <2>2. /\ Len(asks') = Len(kept) + 1
        /\ \A j \in 1..Len(kept) : asks'[j] = kept[j]
        /\ asks'[Len(asks')].more = more /\ ~asks'[Len(asks')].late
    BY <1>4, <2>1, Sending
  <2> QED BY <1>0, <1>4, <2>1, <2>2 DEF InOrder
<1>5. ASSUME NEW i \in Sent, NEW r \in Answer, asks' = Replied(asks, i, r)
      PROVE  InOrder'
  <2>1. /\ Len(asks') = Len(asks)
        /\ \A j \in 1..Len(asks) : asks'[j].more = asks[j].more /\ asks'[j].late = asks[j].late
    BY <1>0, <1>5, Replying
  <2> QED BY <1>0, <1>1, <2>1 DEF InOrder
<1>6. ASSUME NEW i \in Sent, asks' = Ended(asks, i)
      PROVE  InOrder'
  <2>1. /\ Len(asks') = Len(asks) - 1
        /\ \A j \in 1..Len(asks') : IF j >= i THEN asks'[j] = asks[j + 1]
                                    ELSE asks'[j].more = asks[j].more /\ asks'[j].late
    BY <1>0, <1>6, Ending
  <2>2. i \in 1..Len(asks) /\ \A j \in 1..Len(asks') : j \in 1..Len(asks) /\ j + 1 \in 1..Len(asks)
    BY <1>0, <2>1
  <2>3. ASSUME NEW j \in 1..Len(asks'), NEW k \in 1..Len(asks'), j < k, asks'[k].late
        PROVE  asks'[j].late
    <3>1. CASE j < i
      BY <2>1, <2>2, <3>1
    <3>2. CASE j >= i
      <4>1. asks'[j] = asks[j + 1] /\ asks'[k] = asks[k + 1] /\ j + 1 < k + 1
        BY <2>1, <2>2, <2>3, <3>2
      <4> QED BY <1>0, <1>1, <2>2, <2>3, <4>1
    <3> QED BY <2>2, <3>1, <3>2
  <2>4. L.more \/ \A j \in 1..Len(asks') : ~asks'[j].more
    BY <1>0, <1>1, <2>1, <2>2
  <2> QED BY <1>0, <2>3, <2>4 DEF InOrder
<1> QED BY <1>2, <1>3, <1>4, <1>5, <1>6, AsksMove

\* A save that is answered stays the save it was.
LEMMA SavesMove ==
    ASSUME saves \subseteq Saving, NEW w \in saves, NEW r \in {"done", "lost"}, Served(w, r)
    PROVE  \E v \in Saving :
               /\ saves' = (saves \ {w}) \cup {v} /\ v.reply = r
               /\ v.what = w.what /\ v.change = w.change /\ v.to = w.to /\ v.at = w.at
               /\ v.body = w.body /\ v.was = w.was
PROOF
<1> DEFINE v == [w EXCEPT !.reply = r]
<1>1. w \in Saving
  OBVIOUS
<1>2. /\ v \in Saving /\ v.reply = r
      /\ v.what = w.what /\ v.change = w.change /\ v.to = w.to /\ v.at = w.at
      /\ v.body = w.body /\ v.was = w.was
  BY <1>1 DEF Saving
<1>3. saves' = (saves \ {w}) \cup {v}
  BY DEF Served
<1> HIDE DEF v
<1> QED BY <1>2, <1>3

\* What is offered is a handler of the page, and a sound one.
LEMMA OfferedIsHandled ==
    ASSUME TypeOK, NEW n \in Offered
    PROVE  /\ ~left /\ key \in Keys /\ n \in Handlers
           /\ \E x \in Screen : n \in View[x].offers
PROOF
<1>1. ~left /\ key \in Keys /\ n \in UNION {View[x].offers : x \in Screen}
  BY DEF Offered, Usable, TypeOK
<1>2. PICK x \in Screen : n \in View[x].offers
  BY <1>1
<1>3. x \in DOMAIN View
  BY DEF Screen
<1> QED BY <1>1, <1>2, <1>3 DEF Handlers

LEMMA HandlersSound ==
    ASSUME page \in Pages, NEW n \in Handlers
    PROVE  SaveSound(page, L, n, SaveOf[n])
BY PageSound DEF Sound, Handlers

LEMMA OwnHandlersStep ==
    ASSUME TypeOK, OwnHandlers, [Next]_vars
    PROVE  OwnHandlers'
PROOF
<1>0. Handlers' = Handlers /\ saves \subseteq Saving /\ \A w \in saves : w.what \in Handlers
  BY SamePage DEF Handlers, TypeOK, OwnHandlers
<1>1. ASSUME NEW w \in Saving, Sends(w) PROVE OwnHandlers'
  <2>1. saves' = saves \cup {w} /\ w.what \in Offered
    BY <1>1 DEF Sends
  <2>2. w.what \in Handlers
    BY <2>1, OfferedIsHandled
  <2> QED BY <1>0, <2>1, <2>2 DEF OwnHandlers
<1>2. ASSUME NEW w \in saves, NEW r \in {"done", "lost"}, Served(w, r) PROVE OwnHandlers'
  <2>1. PICK v \in Saving : saves' = (saves \ {w}) \cup {v} /\ v.what = w.what
    BY <1>0, <1>2, SavesMove
  <2> QED BY <1>0, <2>1 DEF OwnHandlers
<1>3. CASE saves' \subseteq saves
  BY <1>0, <1>3 DEF OwnHandlers
<1>4. CASE (\E k \in Keys : Select(k)) \/ Timer \/ Again \/ More \/ Quiet
           \/ (\E i \in Sent : Ends(i)) \/ (\E i \in Sent : \E r \in Answer : Replies(i, r))
  BY <1>3, <1>4 DEF Select, Timer, Again, More, Replies, Ends, Quiet
<1>5. CASE (\E w \in saves : Knows(w)) \/ (\E w \in saves : Fails(w))
  BY <1>3, <1>5 DEF Knows, Fails
<1> QED BY <1>1, <1>2, <1>4, <1>5, Steps

\* What happens to the keys of loads and screens without a selection.
LEMMA OneSelectionStep ==
    ASSUME TypeOK, OneSelection, [Next]_vars
    PROVE  OneSelection'
PROOF
<1> SUFFICES ASSUME ~L.keyed PROVE OneSelection'
  BY SamePage DEF OneSelection
<1>0. /\ asks \in Seq(Asked) /\ Len(asks) \in Nat /\ saves \subseteq Saving /\ shown \in Shown
      /\ L' = L /\ Sent = 1..Len(asks) /\ Sent' = 1..Len(asks') /\ Blank.of = {}
  BY SamePage DEF TypeOK, Sent, Blank
<1>1. /\ key = First /\ shown.of \subseteq {First}
      /\ \A i \in Sent : asks[i].key = First
      /\ \A w \in saves : w.at = First /\ w.to = First /\ w.was.of \subseteq {First}
  BY DEF OneSelection
\* A load is sent for the one selection.
<1>2. ASSUME asks' = Append(asks, Ask(First, FALSE)) \/ asks' = Append(asks, Ask(First, TRUE))
      PROVE  \A i \in Sent' : asks'[i].key = First
  <2>1. PICK more \in BOOLEAN : asks' = Append(asks, Ask(First, more))
    BY <1>2
  <2>2. First \in Keys
    BY PagesAssumption
  <2>3. Len(asks') = Len(asks) + 1 /\ asks'[Len(asks')].key = First
        /\ \A j \in 1..Len(asks) : asks'[j] = asks[j]
    BY <1>0, <2>1, <2>2, Sending
  <2> QED BY <1>0, <1>1, <2>3
<1>3. ASSUME Asks(First)
      PROVE  shown'.of \subseteq {First} /\ \A i \in Sent' : asks'[i].key = First
  BY <1>0, <1>1, <1>2, <1>3 DEF Asks
<1>4. CASE Timer \/ Again
  <2>1. Asks(First) /\ key' = key /\ saves' = saves
    BY <1>1, <1>4 DEF Timer, Again
  <2> QED BY <1>0, <1>1, <1>3, <2>1 DEF OneSelection
<1>5. CASE More
  <2>1. asks' = Append(asks, Ask(First, TRUE)) /\ key' = key /\ saves' = saves /\ shown' = shown
    BY <1>1, <1>5 DEF More
  <2> QED BY <1>0, <1>1, <1>2, <2>1 DEF OneSelection
<1>6. ASSUME NEW i \in Sent, NEW r \in Answer, Replies(i, r)
      PROVE  OneSelection'
  <2>1. asks' = Replied(asks, i, r) /\ key' = key /\ saves' = saves /\ shown' = shown
    BY <1>6 DEF Replies
  <2>2. Len(asks') = Len(asks) /\ \A j \in 1..Len(asks) : asks'[j].key = asks[j].key
    <3>1. Sent = 1..Len(asks) /\ Len(asks') = Len(asks)
      BY <1>0, <1>6, RepliesMove
    <3>2. \A j \in Sent : asks'[j].key = asks[j].key
      BY <1>6, RepliesMove
    <3> QED BY <3>1, <3>2
  <2> QED BY <1>0, <1>1, <2>1, <2>2 DEF OneSelection
<1>7. ASSUME NEW i \in Sent, Ends(i)
      PROVE  OneSelection'
  <2>1. asks' = Ended(asks, i) /\ shown' = Showing(asks[i]) /\ key' = key /\ saves' = saves
    BY <1>7 DEF Ends
  <2>2. /\ Len(asks') = Len(asks) - 1
        /\ \A j \in 1..Len(asks') : IF j >= i THEN asks'[j] = asks[j + 1]
                                    ELSE asks'[j].key = asks[j].key
    <3>1. asks \in Seq(Asked) /\ i \in 1..Len(asks)
      BY <1>0
    <3>2. Len(asks') = Len(asks) - 1
      BY <2>1, <3>1, Ending
    <3>3. \A j \in 1..Len(asks') : j >= i => asks'[j] = asks[j + 1]
      BY <2>1, <3>1, Ending
    <3>4. \A j \in 1..Len(asks') : ~(j >= i) => asks'[j].key = asks[j].key
      BY <2>1, <3>1, Ending
    <3> QED BY <3>2, <3>3, <3>4
  <2>3. \A j \in 1..Len(asks') : j \in 1..Len(asks) /\ j + 1 \in 1..Len(asks)
    BY <1>0, <2>2
  <2>4. \A j \in 1..Len(asks') : asks'[j].key = First
    BY <1>0, <1>1, <2>2, <2>3
  <2>5. shown'.of \subseteq {First}
    BY <1>0, <1>1, <2>1 DEF Showing
  <2> QED BY <1>0, <1>1, <2>1, <2>4, <2>5 DEF OneSelection
<1>8. ASSUME NEW w \in Saving, Sends(w)
      PROVE  OneSelection'
  <2>1. /\ saves' = saves \cup {w} /\ w.at = First /\ w.to = First /\ w.was.of \subseteq {First}
        /\ shown'.of = shown.of /\ key' = key /\ asks' = asks
    BY <1>0, <1>1, <1>8 DEF Sends
  <2> QED BY <1>0, <1>1, <2>1 DEF OneSelection
<1>9. ASSUME NEW w \in saves, NEW r \in {"done", "lost"}, Served(w, r)
      PROVE  OneSelection'
  <2>1. PICK v \in Saving : saves' = (saves \ {w}) \cup {v} /\ v.at = w.at /\ v.to = w.to
                            /\ v.was = w.was
    BY <1>0, <1>9, SavesMove
  <2>2. shown' = shown /\ key' = key /\ asks' = asks
    BY <1>9 DEF Served
  <2> QED BY <1>0, <1>1, <2>1, <2>2 DEF OneSelection
<1>10. ASSUME NEW w \in saves, Knows(w)
       PROVE  OneSelection'
  <2>1. saves' \subseteq saves /\ key' = key
    BY <1>10 DEF Knows
  <2>2. CASE Reloads(w)
    BY <1>0, <1>1, <1>3, <2>1, <2>2 DEF Reloads, OneSelection
  <2>3. CASE Patches(w)
    <3>1. shown'.of = shown.of /\ asks' = asks
      BY <1>0, <2>3 DEF Patches, Shown
    <3> QED BY <1>0, <1>1, <2>1, <3>1 DEF OneSelection
  <2>4. CASE Leaves(w)
    <3>1. shown' = shown /\ asks' = <<>>
      BY <2>4 DEF Leaves
    <3> QED BY <1>0, <1>1, <2>1, <3>1 DEF OneSelection
  <2>5. CASE Postpones(w) \/ Rests(w)
    BY <1>0, <1>1, <2>1, <2>5 DEF Postpones, Rests, OneSelection
  <2> QED BY <1>10, <2>2, <2>3, <2>4, <2>5 DEF Knows
<1>11. ASSUME NEW w \in saves, Fails(w)
       PROVE  OneSelection'
  <2>1. saves' \subseteq saves /\ key' = key /\ asks' = asks /\ shown' \in {shown, w.was}
    BY <1>11 DEF Fails
  <2> QED BY <1>0, <1>1, <2>1 DEF OneSelection
<1>12. CASE Quiet
  BY <1>0, <1>1, <1>12 DEF Quiet, OneSelection
<1>13. ASSUME NEW k \in Keys PROVE ~Select(k)
  BY DEF Select
<1> QED BY <1>4, <1>5, <1>6, <1>7, <1>8, <1>9, <1>10, <1>11, <1>12, <1>13, Steps

\* A candid page without a spinner and an error shows an answer for what is
\* selected: with a selection the loads on their way are all for it, without one
\* there is nothing else to ask for.
LEMMA AdmitsStep ==
    ASSUME TypeOK, InOrder, OwnHandlers, OneSelection, LoadsTheSelected, Admits, [Next]_vars
    PROVE  Admits'
PROOF
<1> SUFFICES ASSUME page \in Candid PROVE Admits'
  BY SamePage DEF Admits
<1>0. /\ page' = page /\ shown \in Shown /\ asks \in Seq(Asked) /\ page \in Pages
      /\ ~loading /\ ~failed => shown.of = {key}
      /\ page \notin Belated
  BY SamePage DEF TypeOK, Admits, Candid, Belated
<1>1. /\ L.fails = {"panel"} /\ L.spins \in {"first", "asking"} /\ ~L.waits /\ ~L.more
      /\ L.clears \/ L.heals \/ L.keyed => L.spins = "asking"
      /\ L.keyed => page \in Guarded
  BY <1>0, PageSound DEF Sound, LoadSound
<1>2. \A w \in saves : SaveOf[w.what].after # "leave" /\ ~SaveOf[w.what].undo
  <2> SUFFICES ASSUME NEW w \in saves
               PROVE  SaveOf[w.what].after # "leave" /\ ~SaveOf[w.what].undo
    OBVIOUS
  <2>1. SaveSound(page, L, w.what, SaveOf[w.what])
    BY <1>0, HandlersSound DEF OwnHandlers
  <2> QED BY <2>1 DEF SaveSound, Candid
<1>3. ASSUME NEW k \in Keys, Select(k) PROVE Admits'
  <2>1. loading'
    BY <1>1, <1>3 DEF Select
  <2> QED BY <2>1 DEF Admits
<1>4. ASSUME NEW k \in Keys, Asks(k), key' = key PROVE Admits'
  BY <1>0, <1>1, <1>4 DEF Asks, Admits
<1>5. ASSUME NEW i \in Sent, Ends(i) PROVE Admits'
  <2>0. asks[i] \in Asked
    BY <1>0 DEF Sent
  <2>1. /\ shown' = Showing(asks[i]) /\ asks[i].reply # Open /\ key' = key
        /\ asks[i].reply = Lost => failed'
    BY <1>1, <1>5 DEF Ends
  <2>2. ~asks[i].more
    BY <1>1 DEF InOrder
  <2>3. asks[i].key = key
    BY <1>0, <1>1 DEF OneSelection, LoadsTheSelected
  <2>4. asks[i].reply # Lost => shown'.of = {key}
    BY <1>0, <2>0, <2>1, <2>2, <2>3, Shows
  <2> QED BY <2>1, <2>4 DEF Admits
<1>6. ASSUME NEW w \in saves, Knows(w) PROVE Admits'
  <2>1. w.at \in Keys /\ key' = key
    BY <1>6, SaveKept DEF TypeOK, Knows
  <2>2. CASE Patches(w)
    BY <1>0, <2>1, <2>2 DEF Patches, Admits, Shown
  <2>3. Reloads(w) \/ Patches(w) \/ Postpones(w) \/ Rests(w)
    BY <1>2, <1>6 DEF Knows, Leaves
  <2> QED BY <1>0, <1>4, <2>1, <2>2, <2>3 DEF Reloads, Postpones, Rests, Admits
<1>7. CASE Timer \/ Again
  BY <1>4, <1>7 DEF Timer, Again, Usable, TypeOK
<1>8. CASE More \/ Quiet \/ (\E i \in Sent : \E r \in Answer : Replies(i, r))
           \/ (\E w \in Saving : Sends(w)) \/ (\E w \in saves : Fails(w))
           \/ (\E w \in saves : \E r \in {"done", "lost"} : Served(w, r))
  BY <1>0, <1>2, <1>8 DEF More, Quiet, Replies, Sends, Fails, Served, Admits
<1> QED BY <1>3, <1>5, <1>6, <1>7, <1>8, Steps

\* The load that was sent last is the last that is not overtaken: when a load
\* that is not overtaken ends and all others are, it was the last.
LEMMA LastEnds ==
    ASSUME TypeOK, InOrder, NEW i \in Sent, asks' = Ended(asks, i)
    PROVE  /\ \A j \in Sent' : /\ j < i => asks'[j].late
                               /\ j >= i => j + 1 \in Sent /\ asks'[j] = asks[j + 1]
           /\ Len(asks') = Len(asks) - 1 /\ Len(asks) \in Nat
           /\ ~asks[i].late /\ (\A j \in Sent' : asks'[j].late) => i = Len(asks)
           /\ asks[i].late /\ (\A j \in Sent' : asks'[j].late) => \A j \in Sent : asks[j].late
PROOF
<1>0. asks \in Seq(Asked) /\ Len(asks) \in Nat /\ Sent = 1..Len(asks) /\ Sent' = 1..Len(asks')
      /\ i \in 1..Len(asks)
  BY DEF TypeOK, Sent
<1>1. /\ Len(asks') = Len(asks) - 1
      /\ \A j \in 1..Len(asks') : IF j >= i THEN asks'[j] = asks[j + 1] ELSE asks'[j].late
  BY <1>0, Ending
<1>2. \A j \in 1..Len(asks') : j \in 1..Len(asks) /\ j + 1 \in 1..Len(asks)
  BY <1>0, <1>1
<1>3. \A j \in Sent' : /\ j < i => asks'[j].late
                       /\ j >= i => j + 1 \in Sent /\ asks'[j] = asks[j + 1]
  BY <1>0, <1>1, <1>2
<1>4. \A j, k \in Sent : j < k /\ asks[k].late => asks[j].late
  BY DEF InOrder
<1>5. ASSUME \A j \in Sent' : asks'[j].late, NEW j \in Sent, j > i
      PROVE  asks[j].late
  <2>1. j - 1 \in 1..Len(asks') /\ j - 1 >= i /\ (j - 1) + 1 = j
    BY <1>0, <1>1, <1>5
  <2> QED BY <1>0, <1>1, <1>5, <2>1
<1>6. ASSUME ~asks[i].late, \A j \in Sent' : asks'[j].late, i # Len(asks)
      PROVE  FALSE
  <2>1. Len(asks) \in Sent /\ i < Len(asks)
    BY <1>0, <1>6
  <2>2. asks[Len(asks)].late
    BY <1>0, <1>5, <1>6, <2>1
  <2> QED BY <1>4, <1>6, <2>1, <2>2
<1>7. ASSUME asks[i].late, \A j \in Sent' : asks'[j].late, NEW j \in Sent
      PROVE  asks[j].late
  <2>1. CASE j < i
    BY <1>4, <1>7, <2>1
  <2>2. CASE j = i
    BY <1>7, <2>2
  <2>3. CASE j > i
    BY <1>5, <1>7, <2>3
  <2> QED BY <1>0, <2>1, <2>2, <2>3
<1> QED BY <1>0, <1>1, <1>3, <1>6, <1>7

LEMMA LoadsTheSelectedStep ==
    ASSUME TypeOK, InOrder, OwnHandlers, OneSelection, LoadsTheSelected, [Next]_vars
    PROVE  LoadsTheSelected'
PROOF
<1> SUFFICES ASSUME page \notin Belated PROVE LoadsTheSelected'
  BY SamePage DEF LoadsTheSelected
<1>0. /\ page' = page /\ page \in Pages /\ asks \in Seq(Asked) /\ Len(asks) \in Nat
      /\ shown \in Shown /\ key \in Keys \cup {NoKey} /\ saves \subseteq Saving
      /\ Sent = 1..Len(asks) /\ Sent' = 1..Len(asks')
  BY SamePage DEF TypeOK, Sent
<1>1. /\ ~due => \A i \in Sent : i = Len(asks) /\ ~asks[i].late => asks[i].key = key
      /\ page \in Guarded => \A i \in Sent : asks[i].key = key
      /\ Answered /\ (page \in Guarded \/ ~shown.old) => shown.of \subseteq {key}
  BY DEF LoadsTheSelected
<1>2. ~L.more /\ (page \in Guarded => L.drops)
  BY <1>0, PageSound DEF Sound, LoadSound, Belated
<1>3. \A w \in saves : /\ SaveOf[w.what].after = "reload" => ~L.keyed
                       /\ SaveOf[w.what].undo => ~L.keyed
  <2> SUFFICES ASSUME NEW w \in saves
               PROVE  /\ SaveOf[w.what].after = "reload" => ~L.keyed
                      /\ SaveOf[w.what].undo => ~L.keyed
    OBVIOUS
  <2>1. SaveSound(page, L, w.what, SaveOf[w.what])
    BY <1>0, HandlersSound DEF OwnHandlers
  <2> QED BY <2>1 DEF SaveSound
<1>4. \A i \in Sent : ~asks[i].more
  BY <1>2 DEF InOrder
\* A load is sent for what is selected now.
<1>5. ASSUME NEW kept \in {asks, <<>>}, NEW k \in Keys, key' = k,
             asks' = Append(kept, Ask(k, FALSE)), page \in Guarded => kept = <<>> \/ k = key
      PROVE  LoadsTheSelected'
  <2>1. kept \in Seq(Asked) /\ Len(kept) \in Nat
    <3>1. CASE kept = asks
      BY <1>0, <3>1
    <3>2. CASE kept = <<>>
      BY <3>2
    <3> QED BY <3>1, <3>2
  <2>2. /\ Len(asks') = Len(kept) + 1 /\ \A j \in 1..Len(kept) : asks'[j] = kept[j]
        /\ asks'[Len(asks')].key = k /\ ~asks'[Len(asks')].late
    <3>1. Len(asks') = Len(kept) + 1
      BY <1>5, <2>1, Sending
    <3>2. \A j \in 1..Len(kept) : asks'[j] = kept[j]
      BY <1>5, <2>1, Sending
    <3>3. asks'[Len(asks')].key = k /\ ~asks'[Len(asks')].late
      BY <1>5, <2>1, Sending
    <3> QED BY <3>1, <3>2, <3>3
  <2>3. ~Answered'
    BY <1>0, <2>1, <2>2 DEF Answered
  <2>4. page \in Guarded => \A j \in 1..Len(kept) : kept[j].key = k
    <3>1. CASE kept = asks
      BY <1>0, <1>1, <1>5, <3>1
    <3>2. CASE kept = <<>>
      BY <3>2
    <3> QED BY <3>1, <3>2
  <2>5. page \in Guarded => \A j \in Sent' : asks'[j].key = k
    BY <1>0, <2>1, <2>2, <2>4
  <2> QED BY <1>0, <1>5, <2>2, <2>3, <2>5 DEF LoadsTheSelected
\* Nothing is sent and what is shown stays with its selection.
<1>6. ASSUME asks' = asks, key' = key, shown'.of = shown.of, shown'.old = shown.old,
             missed' = missed, left' = left, due' = due \/ due'
      PROVE  LoadsTheSelected'
  BY <1>0, <1>1, <1>6 DEF LoadsTheSelected, Answered
<1>7. ASSUME NEW k \in Keys, Select(k) PROVE LoadsTheSelected'
  <2> DEFINE kept == IF L.drops THEN <<>> ELSE asks
  <2>1. key' = k /\ kept \in {asks, <<>>} /\ (page \in Guarded => kept = <<>>)
    BY <1>2, <1>7 DEF Select
  <2>2. (asks' = kept /\ due') \/ asks' = Append(kept, Ask(k, FALSE))
    BY <1>7 DEF Select
  <2> HIDE DEF kept
  <2>3. CASE asks' = kept /\ due'
    BY <1>0, <2>1, <2>3 DEF LoadsTheSelected, Answered
  <2>4. CASE asks' = Append(kept, Ask(k, FALSE))
    BY <1>5, <2>1, <2>4
  <2> QED BY <2>2, <2>3, <2>4
<1>8. CASE Timer \/ Again
  <2>1. Asks(key) /\ key' = key /\ key \in Keys
    BY <1>0, <1>8 DEF Timer, Again, Usable
  <2> QED BY <1>0, <1>5, <2>1 DEF Asks
<1>9. ~More
  BY <1>2 DEF More
<1>10. ASSUME NEW i \in Sent, NEW r \in Answer, Replies(i, r) PROVE LoadsTheSelected'
  <2>1. Sent' = Sent /\ Len(asks') = Len(asks)
        /\ \A j \in Sent : asks'[j].key = asks[j].key /\ asks'[j].late = asks[j].late
    BY <1>10, RepliesMove
  <2>2. UNCHANGED <<key, shown, missed, due, left>>
    BY <1>10 DEF Replies
  <2> QED BY <1>0, <1>1, <2>1, <2>2 DEF LoadsTheSelected, Answered
<1>11. ASSUME NEW i \in Sent, Ends(i) PROVE LoadsTheSelected'
  <2>1. /\ asks[i].reply # Open /\ asks' = Ended(asks, i) /\ shown' = Showing(asks[i])
        /\ missed' = IF asks[i].late THEN missed ELSE asks[i].reply = Lost
        /\ UNCHANGED <<key, due, left>>
    BY <1>11 DEF Ends
  <2>2. /\ \A j \in Sent' : /\ j < i => asks'[j].late
                            /\ j >= i => j + 1 \in Sent /\ asks'[j] = asks[j + 1]
        /\ Len(asks') = Len(asks) - 1
        /\ ~asks[i].late /\ (\A j \in Sent' : asks'[j].late) => i = Len(asks)
        /\ asks[i].late /\ (\A j \in Sent' : asks'[j].late) => \A j \in Sent : asks[j].late
    BY <2>1, LastEnds
  <2>3. ~due => \A j \in Sent' : j = Len(asks') /\ ~asks'[j].late => asks'[j].key = key
    BY <1>0, <1>1, <2>2
  <2>4. ASSUME page \in Guarded PROVE \A j \in Sent' : asks'[j].key = key
    <3>1. i \in 1..Len(asks)
      BY <1>0
    <3>2. \A j \in 1..Len(asks') : IF j >= i THEN asks'[j] = asks[j + 1]
                                   ELSE asks'[j].key = asks[j].key
      BY <1>0, <2>1, <3>1, Ending
    <3>3. \A j \in 1..Len(asks') : j \in 1..Len(asks) /\ j + 1 \in 1..Len(asks)
      BY <1>0, <2>2
    <3> QED BY <1>0, <1>1, <2>4, <3>2, <3>3
  <2>5. asks[i] \in Asked
    BY <1>0
  <2>6. /\ asks[i].reply = Lost => shown' = shown \/ shown' = Blank
        /\ asks[i].reply # Lost => /\ asks[i].late => shown'.old
                                   /\ shown'.of = {asks[i].key}
    BY <1>0, <1>4, <2>1, <2>5, Shows
  <2>7. ASSUME Answered', page \in Guarded \/ ~shown'.old PROVE shown'.of \subseteq {key}
    <3>1. ~left /\ ~due /\ \A j \in Sent' : asks'[j].late
      BY <2>1, <2>7 DEF Answered
    <3>2. CASE asks[i].late
      <4>1. Answered
        BY <2>1, <2>2, <2>7, <3>1, <3>2 DEF Answered
      <4>2. CASE asks[i].reply = Lost
        BY <1>1, <2>6, <2>7, <4>1, <4>2 DEF Blank
      <4>3. CASE asks[i].reply # Lost
        BY <1>1, <2>6, <2>7, <3>2, <4>3
      <4> QED BY <4>2, <4>3
    <3>3. CASE ~asks[i].late
      <4>1. asks[i].reply # Lost
        BY <2>1, <2>7, <3>3 DEF Answered
      <4>2. i = Len(asks)
        BY <2>2, <3>1, <3>3
      <4> QED BY <1>1, <2>6, <3>1, <3>3, <4>1, <4>2
    <3> QED BY <3>2, <3>3
  <2> QED BY <1>0, <2>1, <2>3, <2>4, <2>7 DEF LoadsTheSelected
<1>12. ASSUME NEW w \in saves, Knows(w) PROVE LoadsTheSelected'
  <2>1. key' = key /\ missed' = missed
    BY <1>12 DEF Knows
  <2>2. CASE Reloads(w)
    <3>1. w.at = key /\ w.at \in Keys
      BY <1>0, <1>3, <2>2, SaveKept DEF Reloads, OneSelection
    <3> QED BY <1>0, <1>5, <2>1, <2>2, <3>1 DEF Reloads, Asks
  <2>3. CASE Patches(w)
    BY <1>0, <1>6, <2>1, <2>3 DEF Patches, Shown
  <2>4. CASE Leaves(w)
    BY <1>0, <2>4 DEF Leaves, LoadsTheSelected, Answered
  <2>5. CASE Postpones(w) \/ Rests(w)
    BY <1>6, <2>1, <2>5 DEF Postpones, Rests
  <2> QED BY <1>12, <2>2, <2>3, <2>4, <2>5 DEF Knows
<1>13. ASSUME NEW w \in saves, Fails(w) PROVE LoadsTheSelected'
  <2>1. UNCHANGED <<key, missed, due, asks, left>>
        /\ shown' = IF SaveOf[w.what].undo THEN w.was ELSE shown
    BY <1>13 DEF Fails
  <2>2. SaveOf[w.what].undo => shown'.of \subseteq {key}
    BY <1>3, <2>1 DEF OneSelection
  <2> QED BY <1>0, <1>1, <2>1, <2>2 DEF LoadsTheSelected, Answered
<1>14. CASE Quiet \/ (\E w \in Saving : Sends(w))
            \/ (\E w \in saves : \E r \in {"done", "lost"} : Served(w, r))
  BY <1>6, <1>14 DEF Quiet, Sends, Served
<1> QED BY <1>7, <1>8, <1>9, <1>10, <1>11, <1>12, <1>13, <1>14, Steps

\* What a lone page shows when it offers something: the answer has come.
LEMMA OffersWhenLoaded ==
    ASSUME page \in Pages, page \in Lone, NEW n \in Offered
    PROVE  /\ shown.of # {} \/ (~loading /\ L.spins # "never")
           /\ page \in Entire => shown.of # {}
PROOF
<1>1. n \in UNION {View[x].offers : x \in Screen}
  BY DEF Offered
<1>2. PICK x \in Screen : n \in View[x].offers
  BY <1>1
<1>3. x \in DOMAIN View /\ \A c \in View[x].when : Holds(c)
  BY DEF Screen
<1>4. PanelSound(page, L, x, View[x])
  BY <1>3, PageSound DEF Sound
<1>5. /\ "set" \in View[x].when \/ ("loaded" \in View[x].when /\ L.spins # "never")
      /\ page \in Entire => "set" \in View[x].when
  BY <1>2, <1>4 DEF PanelSound
<1>6. (Holds("set") => shown.of # {}) /\ (Holds("loaded") => ~loading)
  BY DEF Holds
<1> QED BY <1>3, <1>5, <1>6

LEMMA LoadsOnceStep ==
    ASSUME TypeOK, OwnHandlers, LoadsOnce, [Next]_vars
    PROVE  LoadsOnce'
PROOF
<1> SUFFICES ASSUME page \in Lone PROVE LoadsOnce'
  BY SamePage DEF LoadsOnce
<1>0. /\ page' = page /\ L' = L /\ page \in Pages /\ asks \in Seq(Asked) /\ Len(asks) \in Nat
      /\ saves \subseteq Saving /\ shown \in Shown
      /\ Sent = 1..Len(asks) /\ Sent' = 1..Len(asks')
  BY SamePage DEF TypeOK, Sent
<1>1. /\ ~due /\ Len(asks) <= 1
      /\ asks # <<>> => /\ saves = {} /\ \A k \in Keys : own[k] = {}
                        /\ shown = Blank /\ (loading \/ L.spins = "never")
      /\ \A w \in saves : SaveOf[w.what].ahead => w.change \in shown.has
  BY DEF LoadsOnce
<1>2. ~L.keyed /\ L.again = "never" /\ ~L.more
  BY <1>0, PageSound DEF Sound, LoadSound, Lone
<1>3. \A w \in saves : /\ SaveOf[w.what].after \notin {"reload", "later"}
                       /\ ~SaveOf[w.what].undo
  <2> SUFFICES ASSUME NEW w \in saves
               PROVE  SaveOf[w.what].after \notin {"reload", "later"} /\ ~SaveOf[w.what].undo
    OBVIOUS
  <2>1. SaveSound(page, L, w.what, SaveOf[w.what])
    BY <1>0, HandlersSound DEF OwnHandlers
  <2> QED BY <2>1 DEF SaveSound, Lone
<1>4. ~Timer /\ ~Again /\ ~More /\ \A k \in Keys : ~Select(k)
  BY <1>1, <1>2 DEF Timer, Again, More, Select
<1>5. ASSUME NEW i \in Sent, NEW r \in Answer, Replies(i, r) PROVE LoadsOnce'
  <2>1. Len(asks') = Len(asks) /\ Len(asks) # 0
    BY <1>0, <1>5, RepliesMove
  <2>2. asks # <<>> /\ UNCHANGED <<shown, loading, due, saves, own>>
    BY <1>5, <2>1 DEF Replies
  <2> QED BY <1>0, <1>1, <2>1, <2>2 DEF LoadsOnce
<1>6. ASSUME NEW i \in Sent, Ends(i) PROVE LoadsOnce'
  <2>1. i \in 1..Len(asks) /\ asks' = Ended(asks, i) /\ UNCHANGED <<due, saves, own>>
    BY <1>0, <1>6 DEF Ends
  <2>2. asks' \in Seq(Asked) /\ Len(asks') = Len(asks) - 1
    BY <1>0, <2>1, Ending
  <2>3. asks # <<>> /\ Len(asks') = 0
    BY <1>0, <1>1, <2>1, <2>2
  <2>4. asks' = <<>> /\ saves' = {}
    BY <1>1, <2>1, <2>2, <2>3
  <2> QED BY <1>1, <2>1, <2>3, <2>4 DEF LoadsOnce
<1>7. ASSUME NEW w \in Saving, Sends(w) PROVE LoadsOnce'
  <2>1. /\ w.what \in Offered /\ saves' = saves \cup {w} /\ shown.has \subseteq shown'.has
        /\ SaveOf[w.what].ahead => w.change \in shown'.has
        /\ UNCHANGED <<due, asks, own>>
    BY <1>7 DEF Sends
  <2>2. asks = <<>>
    BY <1>0, <1>1, <2>1, OffersWhenLoaded DEF Blank
  <2>3. \A v \in saves' : SaveOf[v.what].ahead => v.change \in shown'.has
    BY <1>1, <2>1
  <2> QED BY <1>1, <2>1, <2>2, <2>3 DEF LoadsOnce
<1>8. ASSUME NEW w \in saves, NEW r \in {"done", "lost"}, Served(w, r) PROVE LoadsOnce'
  <2>1. PICK v \in Saving : saves' = (saves \ {w}) \cup {v} /\ v.what = w.what
                            /\ v.change = w.change
    BY <1>0, <1>8, SavesMove
  <2>2. UNCHANGED <<shown, due, asks, own>>
    BY <1>8 DEF Served
  <2> QED BY <1>1, <2>1, <2>2 DEF LoadsOnce
<1>9. ASSUME NEW w \in saves, Knows(w) PROVE LoadsOnce'
  <2>1. /\ saves' = IF SaveOf[w.what].after = "leave" THEN {} ELSE saves \ {w}
        /\ Patches(w) \/ Leaves(w) \/ Rests(w)
    BY <1>3, <1>9 DEF Knows, Reloads, Postpones
  <2>2. asks = <<>>
    BY <1>1
  <2>3. CASE Patches(w) \/ Rests(w)
    <3>1. shown.has \subseteq shown'.has /\ UNCHANGED <<asks, due>>
      BY <1>0, <2>3 DEF Patches, Rests, Shown
    <3> QED BY <1>1, <2>1, <2>2, <3>1 DEF LoadsOnce
  <2>4. CASE Leaves(w)
    <3>1. saves' = {} /\ asks' = <<>> /\ ~due'
      BY <2>1, <2>4 DEF Leaves
    <3> QED BY <3>1 DEF LoadsOnce
  <2> QED BY <2>1, <2>3, <2>4
<1>10. ASSUME NEW w \in saves, Fails(w) PROVE LoadsOnce'
  BY <1>1, <1>3, <1>10 DEF Fails, LoadsOnce
<1>11. CASE Quiet
  BY <1>0, <1>1, <1>11 DEF Quiet, LoadsOnce
<1> QED BY <1>4, <1>5, <1>6, <1>7, <1>8, <1>9, <1>10, <1>11, Steps

\* The whole of what is sent has the change in it.
LEMMA BodiesStep ==
    ASSUME TypeOK, OwnHandlers, Bodies, [Next]_vars
    PROVE  Bodies'
PROOF
<1>0. page \in Pages /\ saves \subseteq Saving
      /\ \A w \in saves : SaveOf[w.what].whole => w.change \in w.body
  BY DEF TypeOK, Bodies
<1>1. ASSUME NEW w \in Saving, Sends(w) PROVE Bodies'
  <2>1. w.what \in Offered /\ saves' = saves \cup {w}
        /\ (SaveOf[w.what].ahead => w.change \in shown'.has)
        /\ (SaveOf[w.what].whole => w.body = shown'.has)
    BY <1>1 DEF Sends
  <2>2. SaveSound(page, L, w.what, SaveOf[w.what])
    BY <1>0, <2>1, OfferedIsHandled, HandlersSound
  <2>3. SaveOf[w.what].whole => SaveOf[w.what].ahead
    BY <2>2 DEF SaveSound
  <2> QED BY <1>0, <2>1, <2>3 DEF Bodies
<1>2. ASSUME NEW w \in saves, NEW r \in {"done", "lost"}, Served(w, r) PROVE Bodies'
  <2>1. PICK v \in Saving : saves' = (saves \ {w}) \cup {v} /\ v.what = w.what
                            /\ v.change = w.change /\ v.body = w.body
    BY <1>0, <1>2, SavesMove
  <2> QED BY <1>0, <2>1 DEF Bodies
<1>3. CASE saves' \subseteq saves
  BY <1>0, <1>3 DEF Bodies
<1>4. CASE (\E k \in Keys : Select(k)) \/ Timer \/ Again \/ More \/ Quiet
           \/ (\E i \in Sent : Ends(i)) \/ (\E i \in Sent : \E r \in Answer : Replies(i, r))
  BY <1>3, <1>4 DEF Select, Timer, Again, More, Replies, Ends, Quiet
<1>5. CASE (\E w \in saves : Knows(w)) \/ (\E w \in saves : Fails(w))
  BY <1>3, <1>5 DEF Knows, Fails
<1> QED BY <1>1, <1>2, <1>4, <1>5, Steps

LEMMA ShowsAllStep ==
    ASSUME TypeOK, InOrder, OwnHandlers, OneSelection, LoadsOnce, ShowsAll, [Next]_vars
    PROVE  ShowsAll'
PROOF
<1> SUFFICES ASSUME page \in Entire PROVE ShowsAll'
  BY SamePage DEF ShowsAll
<1>0. /\ page' = page /\ L' = L /\ page \in Pages /\ asks \in Seq(Asked) /\ Len(asks) \in Nat
      /\ saves \subseteq Saving /\ shown \in Shown /\ server \in [Keys -> SUBSET Changes]
      /\ Sent = 1..Len(asks) /\ Sent' = 1..Len(asks') /\ First \in Keys
      /\ page \in Lone
  BY SamePage, PagesAssumption DEF TypeOK, Sent, Entire, Lone
<1>1. /\ shown.of # {} => server[First] \subseteq shown.has
      /\ \A i \in Sent : asks[i].reply.is = "content" => server[First] \subseteq asks[i].reply.has
      /\ \A w \in saves : SaveOf[w.what].whole => w.body \subseteq shown.has
      /\ \A w \in saves : SaveOf[w.what].whole /\ w.reply = "open" => server[First] \subseteq w.body
      /\ \A v, w \in saves : SaveOf[v.what].whole /\ SaveOf[w.what].whole => v = w
  BY DEF ShowsAll
<1>2. ~L.keyed /\ ~L.more /\ L.again = "never" /\ "empties" \notin L.fails
  BY <1>0, PageSound DEF Sound, LoadSound, Lone
<1>3. /\ ~due /\ (saves # {} => asks = <<>>)
      /\ \A w \in saves : w.to = First
      /\ \A i \in Sent : asks[i].key = First /\ ~asks[i].more
  BY <1>0, <1>2 DEF LoadsOnce, OneSelection, InOrder
\* Of a handler of the page.
<1>4. ASSUME NEW n \in Handlers
      PROVE  /\ SaveOf[n].after \notin {"reload", "later"} /\ ~SaveOf[n].undo
             /\ SaveOf[n].shows => SaveOf[n].whole
             /\ SaveOf[n].whole => /\ SaveOf[n].busy /\ SaveOf[n].ahead
                                   /\ n = (IF page = "customer" THEN "customer"
                                                                ELSE "fourover_fields")
  <2>1. SaveSound(page, L, n, SaveOf[n])
    BY <1>0, HandlersSound
  <2> QED BY <1>0, <2>1 DEF SaveSound, Entire
<1>5. \A w \in saves : w.what \in Handlers
  BY DEF OwnHandlers
<1>6. ~Timer /\ ~Again /\ ~More /\ \A k \in Keys : ~Select(k)
  BY <1>2, <1>3 DEF Timer, Again, More, Select
<1>7. ASSUME NEW i \in Sent, NEW r \in Answer, Replies(i, r) PROVE ShowsAll'
  <2>1. Sent' = Sent /\ asks'[i].reply = r /\ \A j \in Sent : j # i => asks'[j] = asks[j]
    BY <1>7, RepliesMove
  <2>2. (r.is = "content" => r.has = server[First]) /\ UNCHANGED <<shown, saves, server>>
    BY <1>3, <1>7 DEF Replies
  <2> QED BY <1>1, <2>1, <2>2 DEF ShowsAll
<1>8. ASSUME NEW i \in Sent, Ends(i) PROVE ShowsAll'
  <2>1. /\ i \in 1..Len(asks) /\ asks' = Ended(asks, i) /\ shown' = Showing(asks[i])
        /\ asks[i].reply # Open /\ UNCHANGED <<saves, server>>
    BY <1>0, <1>8 DEF Ends
  <2>2. asks[i] \in Asked /\ saves = {} /\ Len(asks) = 1
    <3>1. Len(asks) <= 1 /\ asks # <<>>
      BY <1>0, <2>1 DEF LoadsOnce
    <3>2. asks[i] \in Asked
      BY <1>0, <2>1
    <3>3. Len(asks) = 1
      <4>1. \A n \in Nat : \A j \in 1..n : n <= 1 => n = 1
        OBVIOUS
      <4>2. Len(asks) \in Nat /\ i \in 1..Len(asks) /\ Len(asks) <= 1
        BY <1>0, <2>1, <3>1
      <4> QED BY <4>1, <4>2
    <3> QED BY <1>3, <3>1, <3>2, <3>3
  <2>3. Sent' = {}
    <3>1. Len(asks') = Len(asks) - 1
      BY <1>0, <2>1, Ending
    <3>2. Len(asks') = 0
      BY <2>2, <3>1
    <3> QED BY <1>0, <3>2
  <2>4. shown' = shown \/ (asks[i].reply.is = "content" /\ asks[i].reply.has \subseteq shown'.has)
    BY <1>0, <1>2, <2>1, <2>2, Shows
  <2>5. shown'.of # {} => server[First] \subseteq shown'.has
    BY <1>1, <2>4
  <2> QED BY <2>1, <2>2, <2>3, <2>5 DEF ShowsAll
<1>9. ASSUME NEW w \in Saving, Sends(w) PROVE ShowsAll'
  <2> DEFINE s == SaveOf[w.what]
  <2>1. /\ w.what \in Offered /\ (s.busy => \A v \in saves : v.what # w.what)
        /\ saves' = saves \cup {w}
        /\ shown'.of = shown.of /\ shown.has \subseteq shown'.has
        /\ s.whole => w.body = shown'.has
        /\ UNCHANGED <<asks, server>>
    BY <1>9 DEF Sends
  <2>2. w.what \in Handlers
    BY <2>1, OfferedIsHandled
  <2>3. shown.of # {}
    BY <1>0, <2>1, OffersWhenLoaded
  <2>4. ASSUME s.whole, NEW v \in saves, SaveOf[v.what].whole PROVE FALSE
    <3>1. v.what = w.what
      BY <1>4, <1>5, <2>2, <2>4
    <3> QED BY <1>4, <2>1, <2>2, <2>4, <3>1
  <2>5. \A u, v \in saves' : SaveOf[u.what].whole /\ SaveOf[v.what].whole => u = v
    BY <1>1, <2>1, <2>4
  <2>6. server[First] \subseteq shown'.has
    BY <1>1, <2>1, <2>3
  <2>7. \A v \in saves' : SaveOf[v.what].whole => v.body \subseteq shown'.has
    BY <1>1, <2>1
  <2>8. \A v \in saves' : SaveOf[v.what].whole /\ v.reply = "open" => server[First] \subseteq v.body
    BY <1>1, <2>1, <2>6
  <2> QED BY <1>0, <1>1, <2>1, <2>5, <2>6, <2>7, <2>8 DEF ShowsAll, Sent
<1>10. ASSUME NEW w \in saves, NEW r \in {"done", "lost"}, Served(w, r) PROVE ShowsAll'
  <2>1. PICK v \in Saving : saves' = (saves \ {w}) \cup {v} /\ v.what = w.what
                            /\ v.body = w.body /\ v.reply = r
    BY <1>0, <1>10, SavesMove
  <2>2. w.reply = "open" /\ server' \in {server, Applied(w)} /\ UNCHANGED <<shown, asks>>
    BY <1>10 DEF Served
  <2>3. asks' = <<>> /\ w.what \in Handlers /\ w.to = First
    BY <1>3, <1>5, <2>2
  <2>4. \A u, x \in saves' : SaveOf[u.what].whole /\ SaveOf[x.what].whole => u = x
    BY <1>1, <2>1
  <2>5. \A u \in saves' : SaveOf[u.what].whole => u.body \subseteq shown'.has
    BY <1>1, <2>1, <2>2
  <2>6. CASE server' = server
    <3>1. \A u \in saves' : SaveOf[u.what].whole /\ u.reply = "open" => server'[First] \subseteq u.body
      BY <1>1, <2>1, <2>6
    <3>2. shown'.of # {} => server'[First] \subseteq shown'.has
      BY <1>1, <2>2, <2>6
    <3> QED BY <2>3, <2>4, <2>5, <3>1, <3>2 DEF ShowsAll, Sent
  <2>7. CASE SaveOf[w.what].shows /\ server' = Applied(w)
    <3>1. SaveOf[w.what].whole
      BY <1>4, <2>3, <2>7
    <3>2. server'[First] = w.body
      BY <1>0, <2>3, <2>7, <3>1 DEF Applied
    <3>3. \A u \in saves' : SaveOf[u.what].whole => u = v
      BY <2>1, <2>4, <3>1
    <3>4. server'[First] \subseteq shown'.has
      BY <1>1, <2>2, <3>1, <3>2
    <3>5. \A u \in saves' : SaveOf[u.what].whole => u.reply # "open"
      BY <2>1, <3>3
    <3>6. Sent' = {}
      BY <2>3 DEF Sent
    <3> QED BY <2>4, <2>5, <3>4, <3>5, <3>6 DEF ShowsAll
  <2> QED BY <2>2, <2>6, <2>7 DEF Applied
<1>11. ASSUME NEW w \in saves, Knows(w) PROVE ShowsAll'
  <2>1. saves' \subseteq saves /\ server' = server /\ (Patches(w) \/ Leaves(w) \/ Rests(w))
    BY <1>4, <1>5, <1>11 DEF Knows, Reloads, Postpones
  <2>2. asks' = <<>> /\ shown'.of = shown.of /\ shown.has \subseteq shown'.has
    BY <1>0, <1>3, <2>1 DEF Patches, Leaves, Rests, Shown
  <2> QED BY <1>1, <2>1, <2>2 DEF ShowsAll, Sent
<1>12. ASSUME NEW w \in saves, Fails(w) PROVE ShowsAll'
  <2>1. saves' \subseteq saves /\ UNCHANGED <<shown, asks, server>>
    BY <1>4, <1>5, <1>12 DEF Fails
  <2> QED BY <1>0, <1>1, <2>1 DEF ShowsAll
<1>13. CASE Quiet
  BY <1>0, <1>1, <1>13 DEF Quiet, ShowsAll
<1> QED BY <1>6, <1>7, <1>8, <1>9, <1>10, <1>11, <1>12, <1>13, Steps

\* What the backend has grows, but for pages that send what they have not loaded.
LEMMA ServerGrows ==
    ASSUME TypeOK, OwnHandlers, OneSelection, ShowsAll, [Next]_vars, page \notin Sweeping,
           NEW k \in Keys
    PROVE  server[k] \subseteq server'[k]
PROOF
<1>0. /\ page \in Pages /\ saves \subseteq Saving /\ server \in [Keys -> SUBSET Changes]
  BY DEF TypeOK
<1>1. ASSUME NEW w \in saves, w.reply = "open", server' = Applied(w)
      PROVE  server[k] \subseteq server'[k]
  <2>1. SaveSound(page, L, w.what, SaveOf[w.what])
    BY <1>0, HandlersSound DEF OwnHandlers
  <2>2. ASSUME SaveOf[w.what].whole PROVE w.to = First /\ server[First] \subseteq w.body
    <3>1. page \in Entire
      BY <2>1, <2>2 DEF SaveSound
    <3>2. ~L.keyed
      BY <1>0, <3>1, PageSound DEF Sound, LoadSound, Entire, Lone
    <3> QED BY <1>1, <2>2, <3>1, <3>2 DEF ShowsAll, OneSelection
  <2>3. CASE SaveOf[w.what].shows /\ SaveOf[w.what].whole
    BY <1>0, <1>1, <2>2, <2>3 DEF Applied
  <2>4. CASE ~(SaveOf[w.what].shows /\ SaveOf[w.what].whole)
    BY <1>0, <1>1, <2>4 DEF Applied
  <2> QED BY <2>3, <2>4
<1>2. server' = server \/ \E w \in saves : w.reply = "open" /\ server' = Applied(w)
  <2>1. CASE (\E n \in Keys : Select(n)) \/ Timer \/ Again \/ More \/ Quiet
             \/ (\E i \in Sent : Ends(i)) \/ (\E i \in Sent : \E r \in Answer : Replies(i, r))
    BY <2>1 DEF Select, Timer, Again, More, Replies, Ends, Quiet
  <2>2. CASE (\E w \in Saving : Sends(w)) \/ (\E w \in saves : Knows(w) \/ Fails(w))
    BY <2>2 DEF Sends, Knows, Fails
  <2>3. CASE \E w \in saves : \E r \in {"done", "lost"} : Served(w, r)
    BY <2>3 DEF Served
  <2> QED BY <2>1, <2>2, <2>3, Steps
<1> QED BY <1>1, <1>2

LEMMA StoredStep ==
    ASSUME TypeOK, OwnHandlers, OneSelection, ShowsAll, Bodies, Stored, [Next]_vars
    PROVE  Stored'
PROOF
<1> SUFFICES ASSUME page \notin Sweeping PROVE Stored'
  BY SamePage DEF Stored
<1>0. /\ page \in Pages /\ saves \subseteq Saving
      /\ server \in [Keys -> SUBSET Changes] /\ own \in [Keys -> SUBSET Changes]
  BY DEF TypeOK
<1>1. /\ \A k \in Keys : own[k] \subseteq server[k]
      /\ \A w \in saves : w.reply = "done" /\ SaveOf[w.what].shows => w.change \in server[w.to]
  BY DEF Stored
<1>2. \A k \in Keys : server[k] \subseteq server'[k]
  BY ServerGrows
<1>3. \A w \in Saving : w.to \in Keys
  BY SaveKept
<1>4. CASE own' = own /\ saves' \subseteq saves
  BY <1>0, <1>1, <1>2, <1>3, <1>4 DEF Stored
<1>5. CASE (\E k \in Keys : Select(k)) \/ Timer \/ Again \/ More \/ Quiet
           \/ (\E i \in Sent : Ends(i)) \/ (\E i \in Sent : \E r \in Answer : Replies(i, r))
           \/ (\E w \in saves : Fails(w))
  BY <1>4, <1>5 DEF Select, Timer, Again, More, Replies, Ends, Quiet, Fails
<1>6. ASSUME NEW w \in Saving, Sends(w) PROVE Stored'
  <2>1. saves' = saves \cup {w} /\ w.reply = "open" /\ own' = own
    BY <1>6 DEF Sends
  <2>2. \A v \in saves' : v.reply = "done" => v \in saves
    BY <2>1
  <2> QED BY <1>0, <1>1, <1>2, <1>3, <2>1, <2>2 DEF Stored
<1>7. ASSUME NEW w \in saves, NEW r \in {"done", "lost"}, Served(w, r) PROVE Stored'
  <2>1. PICK v \in Saving : /\ saves' = (saves \ {w}) \cup {v} /\ v.reply = r /\ v.what = w.what
                            /\ v.change = w.change /\ v.to = w.to
    BY <1>0, <1>7, SavesMove
  <2>2. own' = own /\ (r = "done" => server' = Applied(w))
    BY <1>7 DEF Served
  <2>3. ASSUME r = "done", SaveOf[w.what].shows PROVE w.change \in server'[w.to]
    <3>1. w.to \in Keys /\ (SaveOf[w.what].whole => w.change \in w.body)
      BY <1>0, <1>3 DEF Bodies
    <3> QED BY <1>0, <2>2, <2>3, <3>1 DEF Applied
  <2>4. \A u \in saves' : u.reply = "done" /\ SaveOf[u.what].shows => u.change \in server'[u.to]
    BY <1>0, <1>1, <1>2, <1>3, <2>1, <2>3
  <2> QED BY <1>1, <1>2, <2>2, <2>4 DEF Stored
<1>8. ASSUME NEW w \in saves, Knows(w) PROVE Stored'
  <2>1. /\ saves' \subseteq saves /\ server' = server /\ w.reply = "done"
        /\ own' = IF SaveOf[w.what].shows THEN [own EXCEPT ![w.to] = @ \cup {w.change}] ELSE own
    BY <1>8 DEF Knows
  <2>2. \A k \in Keys : own'[k] \subseteq server[k]
    BY <1>0, <1>1, <1>3, <2>1
  <2> QED BY <1>1, <2>1, <2>2 DEF Stored
<1> QED BY <1>5, <1>6, <1>7, <1>8, Steps

LEMMA BringsChangesStep ==
    ASSUME TypeOK, InOrder, OwnHandlers, LoadsOnce, Stored, BringsChanges, [Next]_vars
    PROVE  BringsChanges'
PROOF
<1> SUFFICES ASSUME page \notin Patched PROVE BringsChanges'
  BY SamePage DEF BringsChanges
<1>0. /\ page' = page /\ page \in Pages /\ asks \in Seq(Asked) /\ Len(asks) \in Nat
      /\ saves \subseteq Saving /\ shown \in Shown /\ key \in Keys \cup {NoKey}
      /\ own \in [Keys -> SUBSET Changes]
      /\ Sent = 1..Len(asks) /\ Sent' = 1..Len(asks') /\ Blank.of = {} /\ shown.of \subseteq Keys
  BY SamePage DEF TypeOK, Sent, Blank, Shown
<1>1. /\ \A i \in Sent : i = Len(asks) /\ ~asks[i].late /\ asks[i].reply.is = "content"
                           => own[asks[i].key] \subseteq asks[i].reply.has
      /\ Answered /\ ~shown.old => \A k \in shown.of : own[k] \subseteq shown.has
  BY DEF BringsChanges
<1>2. \A i \in Sent : ~asks[i].more /\ asks[i].key \in Keys
  <2>1. ~L.more
    BY <1>0, PageSound DEF Sound, LoadSound, Patched
  <2>2. \A i \in Sent : asks[i] \in Asked
    BY <1>0
  <2> QED BY <2>1, <2>2, AskKept DEF InOrder
<1>3. page \in Sweeping => page \in Lone
  BY DEF Sweeping, Patched, Lone
<1>4. ASSUME NEW w \in saves
      PROVE  /\ ~SaveOf[w.what].undo
             /\ SaveOf[w.what].shows => SaveOf[w.what].after = "reload" \/ page \in Lone
             /\ SaveOf[w.what].shows /\ page \in Lone =>
                    SaveOf[w.what].ahead \/ SaveOf[w.what].after = "patch"
             /\ page \in Lone => SaveOf[w.what].after \notin {"reload", "later"}
  <2>1. SaveSound(page, L, w.what, SaveOf[w.what])
    BY <1>0, HandlersSound DEF OwnHandlers
  <2> QED BY <2>1 DEF SaveSound, Patched
\* A load that has just been sent has nothing to bring yet.
<1>5. ASSUME NEW kept \in {asks, <<>>}, NEW k \in Keys, asks' = Append(kept, Ask(k, FALSE))
      PROVE  BringsChanges'
  <2>1. kept \in Seq(Asked) /\ Len(kept) \in Nat
    <3>1. CASE kept = asks
      BY <1>0, <3>1
    <3>2. CASE kept = <<>>
      BY <3>2
    <3> QED BY <3>1, <3>2
  <2>2. Len(asks') = Len(kept) + 1
    BY <1>5, <2>1, Sending
  <2>3. asks'[Len(asks')].reply = Open /\ ~asks'[Len(asks')].late
    <3>1. asks'[Len(asks')].reply = Open
      <4>1. Ask(k, FALSE).reply = Open /\ Ask(k, FALSE) \in Asked
        BY AnswerKinds DEF Ask, Asked
      <4>2. \A s \in Seq(Asked), a \in Asked : Append(s, a)[Len(s) + 1] = a
        OBVIOUS
      <4> QED BY <1>5, <2>1, <2>2, <4>1, <4>2
    <3>2. ~asks'[Len(asks')].late
      BY <1>5, <2>1, Sending
    <3> QED BY <3>1, <3>2
  <2>4. ~Answered'
    BY <1>0, <2>1, <2>2, <2>3 DEF Answered
  <2>5. Open.is # "content"
    BY DEF Open
  <2> QED BY <2>3, <2>4, <2>5 DEF BringsChanges
<1>6. CASE Timer \/ Again
  <2>1. asks' = Append(asks, Ask(key, FALSE)) /\ key \in Keys
    BY <1>0, <1>6 DEF Timer, Again, Asks, Usable
  <2> QED BY <1>0, <1>5, <2>1
<1>7. ~More
  BY <1>0, PageSound DEF More, Sound, LoadSound, Patched
<1>8. ASSUME NEW k \in Keys, Select(k) PROVE BringsChanges'
  <2> DEFINE kept == IF L.drops THEN <<>> ELSE asks
  <2>1. kept \in {asks, <<>>} /\ own' = own
    BY <1>8 DEF Select
  <2>2. (asks' = kept /\ due') \/ asks' = Append(kept, Ask(k, FALSE))
    BY <1>8 DEF Select
  <2> HIDE DEF kept
  <2>3. CASE asks' = Append(kept, Ask(k, FALSE))
    BY <1>5, <2>1, <2>3
  <2>4. CASE asks' = asks /\ due'
    BY <1>0, <1>1, <2>1, <2>4 DEF BringsChanges, Answered
  <2>5. CASE asks' = <<>> /\ due'
    BY <1>0, <2>5 DEF BringsChanges, Answered
  <2> QED BY <2>1, <2>2, <2>3, <2>4, <2>5
<1>9. ASSUME NEW i \in Sent, NEW r \in Answer, Replies(i, r) PROVE BringsChanges'
  <2>1. /\ Sent' = Sent /\ Len(asks') = Len(asks) /\ asks'[i].reply = r
        /\ \A j \in Sent : /\ asks'[j].key = asks[j].key /\ asks'[j].late = asks[j].late
                           /\ j # i => asks'[j] = asks[j]
    BY <1>9, RepliesMove
  <2>2. /\ r.is = "content" => r.has = server[asks[i].key]
        /\ UNCHANGED <<shown, missed, due, own, left>>
    BY <1>9 DEF Replies
  <2>3. own[asks[i].key] \subseteq server[asks[i].key]
    <3>1. CASE page \notin Sweeping
      BY <1>2, <3>1 DEF Stored
    <3>2. CASE page \in Lone
      <4>1. asks # <<>>
        BY <1>0
      <4> QED BY <1>2, <3>2, <4>1 DEF LoadsOnce
    <3> QED BY <1>3, <3>1, <3>2
  <2> QED BY <1>0, <1>1, <2>1, <2>2, <2>3 DEF BringsChanges, Answered
<1>10. ASSUME NEW i \in Sent, Ends(i) PROVE BringsChanges'
  <2>1. /\ asks[i].reply # Open /\ asks' = Ended(asks, i) /\ shown' = Showing(asks[i])
        /\ missed' = IF asks[i].late THEN missed ELSE asks[i].reply = Lost
        /\ UNCHANGED <<due, own, left>>
    BY <1>10 DEF Ends
  <2>2. /\ \A j \in Sent' : /\ j < i => asks'[j].late
                            /\ j >= i => j + 1 \in Sent /\ asks'[j] = asks[j + 1]
        /\ Len(asks') = Len(asks) - 1
        /\ ~asks[i].late /\ (\A j \in Sent' : asks'[j].late) => i = Len(asks)
        /\ asks[i].late /\ (\A j \in Sent' : asks'[j].late) => \A j \in Sent : asks[j].late
    BY <2>1, LastEnds
  <2>3. \A j \in Sent' : j = Len(asks') /\ ~asks'[j].late /\ asks'[j].reply.is = "content"
                           => own[asks'[j].key] \subseteq asks'[j].reply.has
    BY <1>0, <1>1, <2>2
  <2>4. asks[i] \in Asked
    BY <1>0
  <2>5. /\ asks[i].reply = Lost => shown' = shown \/ shown' = Blank
        /\ asks[i].reply # Lost => /\ asks[i].late => shown'.old
                                   /\ shown'.of = {asks[i].key}
                                   /\ asks[i].reply.is = "content"
                                   /\ asks[i].reply.has \subseteq shown'.has
    BY <1>0, <1>2, <2>1, <2>4, Shows
  <2>6. ASSUME Answered', ~shown'.old PROVE \A k \in shown'.of : own[k] \subseteq shown'.has
    <3>1. ~left /\ ~due /\ \A j \in Sent' : asks'[j].late
      BY <2>1, <2>6 DEF Answered
    <3>2. CASE asks[i].late
      <4>1. asks[i].reply = Lost
        BY <2>5, <2>6, <3>2
      <4>2. Answered
        BY <2>1, <2>2, <2>6, <3>1, <3>2 DEF Answered
      <4> QED BY <1>0, <1>1, <2>5, <2>6, <4>1, <4>2
    <3>3. CASE ~asks[i].late
      <4>1. asks[i].reply # Lost
        BY <2>1, <2>6, <3>3 DEF Answered
      <4>2. i = Len(asks)
        BY <2>2, <3>1, <3>3
      <4> QED BY <1>1, <2>5, <3>3, <4>1, <4>2
    <3> QED BY <3>2, <3>3
  <2> QED BY <2>1, <2>3, <2>6 DEF BringsChanges
<1>11. ASSUME NEW w \in saves, Knows(w) PROVE BringsChanges'
  <2>1. /\ missed' = missed /\ ~left
        /\ own' = IF SaveOf[w.what].shows THEN [own EXCEPT ![w.to] = @ \cup {w.change}] ELSE own
    BY <1>11 DEF Knows
  <2>2. w.at \in Keys /\ w.to \in Keys
    BY <1>0, SaveKept
  <2>3. CASE Reloads(w)
    BY <1>5, <2>2, <2>3 DEF Reloads, Asks
  <2>4. CASE Leaves(w)
    BY <1>0, <2>4 DEF Leaves, BringsChanges, Answered
  <2>5. CASE ~SaveOf[w.what].shows /\ (Patches(w) \/ Postpones(w) \/ Rests(w))
    <3>1. asks' = asks /\ shown'.of = shown.of /\ shown'.old = shown.old
          /\ shown.has \subseteq shown'.has /\ own' = own /\ left' = left /\ (due' = due \/ due')
      BY <1>0, <2>1, <2>5 DEF Patches, Postpones, Rests, Shown
    <3> QED BY <1>0, <1>1, <2>1, <3>1 DEF BringsChanges, Answered
  <2>6. CASE SaveOf[w.what].shows /\ (Patches(w) \/ Rests(w))
    <3>1. page \in Lone /\ (SaveOf[w.what].ahead \/ Patches(w))
      BY <1>4, <2>6 DEF Patches, Rests
    <3>2. asks = <<>> /\ (SaveOf[w.what].ahead => w.change \in shown.has)
      BY <3>1 DEF LoadsOnce
    <3>3. asks' = asks /\ shown'.of = shown.of /\ shown'.old = shown.old
          /\ shown.has \subseteq shown'.has /\ left' = left /\ due' = due
      BY <1>0, <2>6 DEF Patches, Rests, Shown
    <3>4. w.to \in shown.of => w.change \in shown'.has
      <4>1. CASE SaveOf[w.what].ahead
        BY <3>2, <3>3, <4>1
      <4>2. CASE Patches(w)
        BY <1>0, <4>2 DEF Patches, Shown
      <4> QED BY <3>1, <4>1, <4>2
    <3>5. \A k \in shown.of : own[k] \subseteq shown.has => own'[k] \subseteq shown'.has
      BY <1>0, <2>1, <2>2, <3>3, <3>4
    <3> QED BY <1>1, <2>1, <3>2, <3>3, <3>5 DEF BringsChanges, Answered, Sent
  <2>7. Postpones(w) => ~SaveOf[w.what].shows
    BY <1>4 DEF Postpones
  <2> QED BY <1>11, <2>3, <2>4, <2>5, <2>6, <2>7 DEF Knows
<1>12. ASSUME asks' = asks, shown'.of = shown.of, shown'.old = shown.old,
              shown.has \subseteq shown'.has, UNCHANGED <<missed, due, own, left>>
       PROVE  BringsChanges'
  BY <1>0, <1>1, <1>12 DEF BringsChanges, Answered
<1>13. CASE Quiet \/ (\E w \in Saving : Sends(w)) \/ (\E w \in saves : Fails(w))
            \/ (\E w \in saves : \E r \in {"done", "lost"} : Served(w, r))
  BY <1>4, <1>12, <1>13 DEF Quiet, Sends, Fails, Served
<1> QED BY <1>6, <1>7, <1>8, <1>9, <1>10, <1>11, <1>13, Steps

-----------------------------------------------------------------------------
(***************************************************************************)
(* The invariant, and what the pages promise.                              *)
(***************************************************************************)

LEMMA InvariantInit ==
    ASSUME Init
    PROVE  IndInv
PROOF
<1>0. /\ page \in Pages /\ key = IF L.unset THEN NoKey ELSE First
      /\ shown = Blank /\ saves = {} /\ due = (L.waits /\ ~L.unset)
      /\ failed = FALSE /\ loading = (L.spins \in {"first", "asking", "selecting"})
      /\ asks = IF L.waits \/ L.unset THEN <<>> ELSE <<Ask(First, FALSE)>>
      /\ own = [k \in Keys |-> {}]
      /\ TypeOK
  BY TypeInit DEF Init
<1>1. LoadSound(page, L)
  BY <1>0, PageSound DEF Sound
<1>2. /\ L.waits \in BOOLEAN /\ L.unset \in BOOLEAN /\ (L.unset => L.keyed)
      /\ page \in Candid => L.spins \in {"first", "asking"}
      /\ page \in Lone => ~L.waits /\ ~L.keyed /\ L.spins \in {"first", "never"}
  BY <1>1 DEF LoadSound
<1>3. \A i \in Sent : /\ asks[i].key = First /\ ~asks[i].more /\ ~asks[i].late
                      /\ asks[i].reply = Open /\ ~L.unset
  <2>1. CASE asks = <<>>
    BY <2>1 DEF Sent
  <2>2. CASE asks = <<Ask(First, FALSE)>> /\ ~L.unset
    BY <2>2 DEF Sent, Ask
  <2> QED BY <1>0, <1>2, <2>1, <2>2
<1>4. Len(asks) <= 1 /\ Open.is # "content" /\ Blank.of = {}
  BY <1>0, <1>2 DEF Sent, Open, Blank
<1>5. shown.of = {}
  BY <1>0, <1>4
<1>6. InOrder
  BY <1>3 DEF InOrder
<1>7. OwnHandlers /\ Bodies /\ ShowsAll
  BY <1>0, <1>3, <1>4 DEF OwnHandlers, Bodies, ShowsAll
<1>8. OneSelection
  BY <1>0, <1>2, <1>3, <1>5 DEF OneSelection
<1>9. LoadsTheSelected
  BY <1>0, <1>3, <1>5 DEF LoadsTheSelected
<1>10. Admits
  BY <1>0, <1>2 DEF Admits
<1>11. LoadsOnce
  BY <1>0, <1>2, <1>4 DEF LoadsOnce
<1>12. Stored
  BY <1>0 DEF Stored
<1>13. BringsChanges
  BY <1>3, <1>4, <1>5 DEF BringsChanges
<1> QED BY <1>0, <1>6, <1>7, <1>8, <1>9, <1>10, <1>11, <1>12, <1>13 DEF IndInv

LEMMA InvariantStep ==
    ASSUME IndInv, [Next]_vars
    PROVE  IndInv'
BY TypeStep, InOrderStep, OwnHandlersStep, OneSelectionStep, LoadsTheSelectedStep, AdmitsStep,
   LoadsOnceStep, ShowsAllStep, BodiesStep, StoredStep, BringsChangesStep DEF IndInv

\* Every state of every page satisfies the invariant: the loads on their way
\* are overtaken in the order in which they were sent, the last of them is for
\* what is selected and brings every change that the user was told is saved,
\* and what a page sends as a whole has all that is stored in it.
THEOREM Invariance == Spec => []IndInv
PROOF
<1>1. Init => IndInv
  BY InvariantInit
<1>2. IndInv /\ [Next]_vars => IndInv'
  BY InvariantStep
<1> QED BY <1>1, <1>2, PTL DEF Spec

\* The variables keep their types, and no more requests are on their way at a
\* time than the bound allows.
THEOREM TypeCorrect == Spec => []TypeOK
PROOF
<1>1. IndInv => TypeOK
  BY DEF IndInv
<1> QED BY <1>1, Invariance, PTL

\* The jobs, the mappings and the push history: a page says that there is
\* nothing only when what it shows is the backend's answer for what is selected,
\* not while a load is on its way, after a failed one, or for another selection.
THEOREM NothingOnlyIfTold == Spec => []EmptyMeansEmpty
PROOF
<1>1. IndInv => EmptyMeansEmpty
  <2> SUFFICES ASSUME IndInv, page \in Candid, "nothing" \in Screen PROVE shown.of = {key}
    BY DEF EmptyMeansEmpty
  <2>1. "nothing" \in DOMAIN View /\ \A c \in View["nothing"].when : Holds(c)
    BY DEF Screen
  <2>2. PanelSound(page, L, "nothing", View["nothing"])
    BY <2>1, PageSound DEF Sound, IndInv, TypeOK
  <2>3. Holds("loaded") /\ Holds("fine")
    BY <2>1, <2>2 DEF PanelSound
  <2>4. ~loading /\ ~failed
    BY <2>3 DEF Holds
  <2> QED BY <2>4 DEF IndInv, Admits
<1> QED BY <1>1, Invariance, PTL

\* When everything has arrived, a page shows what is selected: one with a guard
\* (the jobs, the supplier health, the live price) in whatever order the
\* answers came, another when no answer was overtaken, unless it loads with
\* the selection of an earlier moment.
THEOREM SelectedIsShown == Spec => []ShowsTheSelected
PROOF
<1>1. IndInv => ShowsTheSelected
  <2> SUFFICES ASSUME IndInv, AtRest, ~missed, page \notin Belated,
                      page \in Guarded \/ ~shown.old
               PROVE  shown.of \subseteq {key}
    BY DEF ShowsTheSelected
  <2>1. Answered
    BY DEF AtRest, Answered, Sent
  <2> QED BY <2>1 DEF IndInv, LoadsTheSelected
<1> QED BY <1>1, Invariance, PTL

\* When everything has arrived, a change that the user was told is saved can be
\* seen in what is on the screen, unless the last load failed, was overtaken or
\* the page updates the screen beside a load that was sent before.
THEOREM ChangeIsShown == Spec => []OwnChangeShown
PROOF
<1>1. IndInv => OwnChangeShown
  <2> SUFFICES ASSUME IndInv, AtRest, ~missed, ~shown.old, page \notin Patched
               PROVE  \A k \in shown.of : own[k] \subseteq shown.has
    BY DEF OwnChangeShown
  <2>1. Answered
    BY DEF AtRest, Answered, Sent
  <2> QED BY <2>1 DEF IndInv, BringsChanges
<1> QED BY <1>1, Invariance, PTL

\* No save of a page undoes what was stored before it, but for the forms that
\* send all they show without having loaded it.
THEOREM StoredStays == Spec => NothingOverwritten
PROOF
<1>1. IndInv /\ [Next]_vars =>
          [page \notin Sweeping => \A k \in Keys : server[k] \subseteq server'[k]]_vars
  BY ServerGrows DEF IndInv
<1> QED BY <1>1, Invariance, PTL DEF Spec, NothingOverwritten

=============================================================================
